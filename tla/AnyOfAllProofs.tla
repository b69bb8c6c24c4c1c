--------------------------- MODULE AnyOfAllProofs ---------------------------
(***************************************************************************)
(* Proofs about the composition of when_all and when_any.  In it each of    *)
(* them takes only steps of its own, so that what is proved of one alone   *)
(* holds of it; what the two promise together is proved from that.         *)
(***************************************************************************)
EXTENDS AnyOfAll, TLAPS

P == INSTANCE WhenAllProofs
Q == INSTANCE WhenAnyProofs WITH next <- anyNext, step <- anyStep, fulfilled <- delivered

\* The actions of when_all and of when_any, with those of the proofs about them.
LEMMA SameAll ==
  /\ All!Init <=> P!Init
  /\ All!Next <=> P!Next
  /\ All!AllMeansAll <=> P!AllMeansAll
BY DEF All!Init, P!Init, All!Next, P!Next, All!AllMeansAll, P!AllMeansAll,
   All!Inputs, P!Inputs, All!Caller, P!Caller, All!Callback, P!Callback, All!Task, P!Task,
   All!Hold, P!Hold, All!ready, P!ready, All!Notify, P!Notify,
   All!Test, P!Test, All!Attach, P!Attach, All!Store, P!Store, All!RunTask, P!RunTask,
   All!TestCallback, P!TestCallback, All!InvokeCallback, P!InvokeCallback,
   All!ClearCallback, P!ClearCallback, All!OtherTest, P!OtherTest,
   All!OtherAttach, P!OtherAttach

LEMMA SameAny ==
  /\ Any!Init <=> Q!Init
  /\ Any!Next <=> Q!Next
  /\ Any!IndexIsReady <=> Q!IndexIsReady
  /\ Any!GivingUpIsSafe <=> Q!GivingUpIsSafe
  /\ Any!FailsOnlyInDelivery <=> Q!FailsOnlyInDelivery
BY DEF Any!Init, Q!Init, Any!Next, Q!Next, Any!IndexIsReady, Q!IndexIsReady,
   Any!GivingUpIsSafe, Q!GivingUpIsSafe,
   Any!FailsOnlyInDelivery, Q!FailsOnlyInDelivery,
   Any!Delivering, Q!Delivering,
   Any!Inputs, Q!Inputs, Any!NoOne, Q!NoOne, Any!Goto, Q!Goto,
   Any!registration, Q!registration, Any!notify, Q!notify,
   Any!Test, Q!Test, Any!Attach, Q!Attach, Any!Complete, Q!Complete, Any!Begin, Q!Begin,
   Any!TryLock, Q!TryLock, Any!Claim, Q!Claim, Any!MoveResult, Q!MoveResult,
   Any!SetValue, Q!SetValue,
   Any!Unlock, Q!Unlock

\* The composition behaves as a when_all ...
LEMMA AllAlone == Spec => P!Spec
<1>1. Init => P!Init
  BY SameAll DEF Init
<1>2. [AllStep \/ AnyStep]_<<all, any>> => [P!Next]_P!vars
  BY SameAll DEF AllStep, AnyStep, all, P!vars
<1> QED
  BY <1>1, <1>2, PTL DEF Spec, P!Spec

\* ... and as a when_any.
LEMMA AnyAlone == Spec => Q!Spec
<1>1. Init => Q!Init
  BY SameAny DEF Init
<1>2. [AllStep \/ AnyStep]_<<all, any>> => [Q!Next]_Q!vars
  BY SameAny DEF AllStep, AnyStep, any, Q!vars
<1> QED
  BY <1>1, <1>2, PTL DEF Spec, Q!Spec

-----------------------------------------------------------------------------

\* Inside the composition when_all completes only when every input has.
THEOREM ComposedAllMeansAll == Spec => []AllMeansAll
<1>1. P!AllMeansAll => AllMeansAll
  BY SameAll DEF AllMeansAll
<1> QED
  BY <1>1, AllAlone, P!AllInputsReady, InputsAssumption, PTL

\* Inside the composition the helper of when_all is destroyed once.
THEOREM ComposedNoRevival == Spec => NoRevival
<1>1. [fulfilled => refs' = {}]_P!vars => [fulfilled => refs' = {}]_All!vars
  BY DEF P!vars, All!vars
<1> QED
  BY <1>1, AllAlone, P!CompletedOnce, InputsAssumption, PTL DEF NoRevival, All!NoRevival, P!NoRevival

\* Inside the composition when_any reports an input that is complete.
THEOREM ComposedIndexIsReady == Spec => []IndexIsReady
<1>1. Q!IndexIsReady => IndexIsReady
  BY SameAny DEF IndexIsReady
<1> QED
  BY <1>1, AnyAlone, Q!AnyIndexIsReady, InputsAssumption, PTL

\* Inside the composition a continuation of when_any gives up for another one, or
\* because its try_lock failed by itself.
THEOREM ComposedGivingUpIsSafe == Spec => []GivingUpIsSafe
<1>1. Q!GivingUpIsSafe => GivingUpIsSafe
  BY SameAny DEF GivingUpIsSafe
<1> QED
  BY <1>1, AnyAlone, Q!AnyGivingUpIsSafe, InputsAssumption, PTL

\* Inside the composition when_any fails on free inputs only while or after
\* a continuation delivers.
THEOREM ComposedFailsOnlyInDelivery == Spec => []FailsOnlyInDelivery
<1>1. Q!FailsOnlyInDelivery => FailsOnlyInDelivery
  BY SameAny DEF FailsOnlyInDelivery
<1> QED
  BY <1>1, AnyAlone, Q!AnyFailsOnlyInDelivery, InputsAssumption, PTL

\* Inside the composition the promise of when_any is set once.
THEOREM ComposedDeliveredOnce == Spec => DeliveredOnce
<1> DEFINE Once == /\ delivered => UNCHANGED index /\ \A i \in Any!Inputs : pc[i] # "store"
                   /\ moved => \A i \in Any!Inputs : pc[i] # "set"
           OnceQ == /\ delivered => UNCHANGED index /\ \A i \in Q!Inputs : pc[i] # "store"
                    /\ moved => \A i \in Q!Inputs : pc[i] # "set"
<1>1. [OnceQ]_Q!vars => [Once]_Any!vars
  BY DEF Q!vars, Any!vars, Q!Inputs, Any!Inputs
<1> QED
  BY <1>1, AnyAlone, Q!AnyDeliveredOnce, InputsAssumption, PTL
     DEF DeliveredOnce, Any!DeliveredOnce, Q!DeliveredOnce

-----------------------------------------------------------------------------
(* What the two promise together *)

\* when_any begins when when_all has returned, delivers after it began, and finds
\* its first input complete when the helper of when_all was destroyed.
OrderInv ==
  /\ step = "returned" \/ (anyStep = "test" /\ anyNext = 0 /\ ~delivered)
  /\ 0 \in ready => fulfilled

\* A step keeps the order of the two.
LEMMA OrderStep ==
  ASSUME Q!IInv, OrderInv, [AllStep \/ AnyStep]_<<all, any>>
  PROVE  OrderInv'
<1> USE InputsAssumption
<1>1. CASE AllStep
  <2>1. All!Next /\ UNCHANGED any
    BY <1>1 DEF AllStep
  <2>2. fulfilled => fulfilled'
    BY <2>1 DEF All!Next, All!Notify, All!Test, All!Attach, All!Store, All!TestCallback,
       All!InvokeCallback, All!ClearCallback, All!RunTask, All!OtherTest, All!OtherAttach,
       All!Hold
  <2>3. step = "returned" => step' = "returned"
    BY <2>1 DEF All!Next, All!Notify, All!Test, All!Attach, All!Store, All!TestCallback,
       All!InvokeCallback, All!ClearCallback, All!RunTask, All!OtherTest, All!OtherAttach
  <2> QED
    BY <2>1, <2>2, <2>3 DEF OrderInv, any
<1>2. CASE AnyStep
  <2>1. Any!Next /\ Called /\ Nested /\ UNCHANGED all
    BY <1>2 DEF AnyStep
  <2>2. 0 \in ready' => fulfilled'
    BY <2>1 DEF OrderInv, Nested, all
  <2>3. step = "returned" => step' = "returned"
    BY <2>1 DEF all
  <2>4. ASSUME step # "returned" PROVE anyStep' = "test" /\ anyNext' = 0 /\ ~delivered'
    <3>1. anyStep = "test" /\ anyNext = 0 /\ ~delivered
      BY <2>4 DEF OrderInv
    <3>2. anyStep' = "test" /\ anyNext' = 0
      BY <2>1, <2>4, <3>1 DEF Called
    <3>3. \A i \in Any!Inputs : pc[i] = "none"
      BY <3>1 DEF Q!IInv, Q!OrderInv, Q!Inputs, Any!Inputs
    <3>4. delivered' = delivered
      BY <2>1, <3>3 DEF Any!Next, Any!notify, Any!Test, Any!Attach, Any!Complete, Any!Begin,
         Any!TryLock, Any!Claim, Any!MoveResult, Any!SetValue, Any!Unlock
    <3> QED
      BY <3>1, <3>2, <3>4
  <2> QED
    BY <2>2, <2>3, <2>4 DEF OrderInv
<1>3. CASE UNCHANGED <<all, any>>
  BY <1>3 DEF all, any, OrderInv
<1> QED
  BY <1>1, <1>2, <1>3

\* If when_any reports the future of when_all, every input of when_all is
\* complete, for any number of inputs of either.
THEOREM ComposedAnyMeansAll == Spec => []AnyMeansAll
<1>1. Init => OrderInv
  BY DEF Init, All!Init, Any!Init, OrderInv
<1>2. OrderInv /\ AllMeansAll /\ IndexIsReady => AnyMeansAll
  BY DEF OrderInv, AllMeansAll, All!AllMeansAll, IndexIsReady, Any!IndexIsReady, AnyMeansAll
<1> QED
  BY <1>1, <1>2, OrderStep, AnyAlone, Q!Invariance, InputsAssumption, ComposedAllMeansAll,
     ComposedIndexIsReady, PTL DEF Spec
=============================================================================
