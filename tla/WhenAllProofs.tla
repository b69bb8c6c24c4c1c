---------------------------- MODULE WhenAllProofs ----------------------------
(***************************************************************************)
(* Proofs about WhenAll, for any number of inputs, any of which may be     *)
(* shared with another caller of then().                                   *)
(***************************************************************************)
EXTENDS WhenAll, TLAPS

\* The inputs on which the call has registered its callback.
Registered(i) == i < next \/ (i = next /\ step = "returned")

\* The call holds the helper until it returns or throws.
CallerInv ==
  /\ Caller \in refs <=> step \in {"test", "attach"}
  /\ step = "returned" => next = N - 1

\* The future is completed when the last reference is dropped.
HelperInv == fulfilled <=> refs = {}

\* A callback of the call holds the helper until it is called, or replaced.
CallbackInv ==
  \A i \in Inputs :
    /\ Callback(i) \in refs => callback[i] = "ours"
    /\ callback[i] = "ours" /\ producer[i] \in {"idle", "test", "invoke"}
         => Callback(i) \in refs

\* An input that is not completed still has its callback, unless another
\* then() replaced it.
RegisteredInv ==
  \A i \in Inputs :
    Registered(i) => ready(i) \/ i \in replaced \/ Callback(i) \in refs

IInv == TypeOK /\ CallerInv /\ HelperInv /\ CallbackInv /\ RegisteredInv

-----------------------------------------------------------------------------

\* The holders of the helper are told apart.
LEMMA HoldersDiffer ==
  \A i, j \in Inputs :
    /\ Callback(i) # Caller /\ Task(i) # Caller /\ Callback(i) # Task(j)
    /\ Callback(i) = Callback(j) => i = j
    /\ Task(i) = Task(j) => i = j
BY DEF Callback, Task, Caller

\* No input is registered, and the call holds the helper, at the start.
LEMMA InitIInv == Init => IInv
<1> SUFFICES ASSUME Init PROVE IInv
  OBVIOUS
<1> USE InputsAssumption DEF Init
<1>1. TypeOK
  <2>1. next \in Inputs
    BY DEF Inputs
  <2>2. QED
    BY <2>1 DEF TypeOK
<1>2. CallerInv /\ HelperInv
  BY DEF CallerInv, HelperInv
<1>3. CallbackInv
  BY HoldersDiffer DEF CallbackInv
<1>4. RegisteredInv
  BY DEF RegisteredInv, Registered, Inputs
<1>5. QED
  BY <1>1, <1>2, <1>3, <1>4 DEF IInv

\* Every step keeps the references, the callbacks and the registrations in step
\* with one another.
LEMMA NextIInv == IInv /\ [Next]_vars => IInv'
<1> SUFFICES ASSUME IInv, [Next]_vars PROVE IInv'
  OBVIOUS
<1> USE InputsAssumption, HoldersDiffer DEF IInv, TypeOK, ready
<1>1. CASE Test
  <2>1. CASE callback[next] = "none"
    BY <1>1, <2>1 DEF Test, CallerInv, HelperInv, CallbackInv, RegisteredInv, Registered
  <2>2. CASE callback[next] # "none"
    BY <1>1, <2>2 DEF Test, Hold, CallerInv, HelperInv, CallbackInv, RegisteredInv, Registered
  <2>3. QED
    BY <2>1, <2>2
<1>2. CASE Attach
  <2>1. next \in Inputs /\ ~fulfilled /\ callback' = [callback EXCEPT ![next] = "ours"]
    BY <1>2 DEF Attach, CallerInv, HelperInv
  <2>2. CASE next = N - 1
    <3>1. step' = "returned" /\ next' = next
          /\ Hold((refs \ {Caller}) \cup {Callback(next)})
      BY <1>2, <2>2 DEF Attach
    <3>2. TypeOK'
      BY <1>2, <2>1, <3>1 DEF Attach, Hold
    <3>3. CallerInv' /\ HelperInv' /\ CallbackInv'
      BY <1>2, <2>1, <2>2, <3>1 DEF Attach, Hold, CallerInv, HelperInv, CallbackInv
    <3>4. RegisteredInv'
      BY <1>2, <2>1, <3>1 DEF Attach, Hold, RegisteredInv, Registered, Inputs
    <3>5. QED
      BY <3>2, <3>3, <3>4
  <2>3. CASE next # N - 1
    <3>1. step' = "test" /\ next' = next + 1 /\ Hold(refs \cup {Callback(next)})
      BY <1>2, <2>3 DEF Attach
    <3>2. TypeOK'
      <4>1. next' \in Inputs
        BY <2>1, <2>3, <3>1 DEF Inputs
      <4>2. QED
        BY <1>2, <2>1, <3>1, <4>1 DEF Attach, Hold
    <3>3. CallerInv' /\ HelperInv' /\ CallbackInv'
      BY <1>2, <2>1, <3>1 DEF Attach, Hold, CallerInv, HelperInv, CallbackInv
    <3>4. RegisteredInv'
      BY <1>2, <2>1, <3>1 DEF Attach, Hold, RegisteredInv, Registered, Inputs
    <3>5. QED
      BY <3>2, <3>3, <3>4
  <2>4. QED
    BY <2>2, <2>3
<1>3. ASSUME NEW i \in Inputs, Store(i) PROVE IInv'
  BY <1>3 DEF Store, CallerInv, HelperInv, CallbackInv, RegisteredInv, Registered
<1>4. ASSUME NEW i \in Inputs, TestCallback(i) PROVE IInv'
  BY <1>4 DEF TestCallback, CallerInv, HelperInv, CallbackInv, RegisteredInv, Registered
<1>5. ASSUME NEW i \in Inputs, InvokeCallback(i) PROVE IInv'
  <2>1. CASE callback[i] = "ours"
    <3>1. PICK moved \in {{}, {Callback(i)}} : Hold((refs \ moved) \cup {Task(i)})
      BY <1>5, <2>1 DEF InvokeCallback
    <3>2. ~fulfilled
      BY <1>5, <2>1 DEF InvokeCallback, HelperInv, CallbackInv
    <3>3. QED
      BY <1>5, <2>1, <3>1, <3>2 DEF InvokeCallback, Hold, CallerInv, HelperInv,
         CallbackInv, RegisteredInv, Registered
  <2>2. CASE callback[i] # "ours"
    BY <1>5, <2>2 DEF InvokeCallback, CallerInv, HelperInv, CallbackInv,
       RegisteredInv, Registered
  <2>3. QED
    BY <2>1, <2>2
<1>6. ASSUME NEW i \in Inputs, ClearCallback(i) PROVE IInv'
  BY <1>6 DEF ClearCallback, Hold, CallerInv, HelperInv, CallbackInv, RegisteredInv,
     Registered
<1>7. ASSUME NEW i \in Inputs, RunTask(i) PROVE IInv'
  BY <1>7 DEF RunTask, Hold, CallerInv, HelperInv, CallbackInv, RegisteredInv,
     Registered
<1>8. ASSUME NEW i \in Inputs, OtherTest(i) PROVE IInv'
  BY <1>8 DEF OtherTest, CallerInv, HelperInv, CallbackInv, RegisteredInv, Registered
<1>9. ASSUME NEW i \in Inputs, OtherAttach(i) PROVE IInv'
  BY <1>9 DEF OtherAttach, Hold, CallerInv, HelperInv, CallbackInv, RegisteredInv,
     Registered
<1>10. CASE UNCHANGED vars
  BY <1>10 DEF vars, CallerInv, HelperInv, CallbackInv, RegisteredInv, Registered
<1>11. QED
  BY <1>1, <1>2, <1>3, <1>4, <1>5, <1>6, <1>7, <1>8, <1>9, <1>10 DEF Next, Notify

\* The invariant holds in every reachable state.
THEOREM Invariance == Spec => []IInv
BY InitIInv, NextIInv, PTL DEF Spec

\* The variables keep their types.
THEOREM TypeCorrect == Spec => []TypeOK
<1>1. IInv => TypeOK
  BY DEF IInv
<1>2. QED
  BY <1>1, Invariance, PTL

\* The future of when_all is completed only when every input is, or lost its
\* callback to a concurrent then().
THEOREM AllInputsReady == Spec => []AllMeansAll
<1>1. IInv => AllMeansAll
  BY InputsAssumption DEF IInv, AllMeansAll, HelperInv, CallerInv, RegisteredInv,
     Registered, Inputs
<1>2. QED
  BY <1>1, Invariance, PTL

\* The helper that completes the future is destroyed once: a completed future
\* stays without references, so that set_value is not called again.
THEOREM CompletedOnce == Spec => NoRevival
<1>1. IInv /\ IInv' /\ [Next]_vars => [fulfilled => refs' = {}]_vars
  <2> SUFFICES ASSUME IInv, IInv', [Next]_vars, fulfilled PROVE refs' = {}
    BY DEF vars
  <2>1. fulfilled'
    BY DEF Next, Test, Attach, Store, Notify, TestCallback, InvokeCallback,
       ClearCallback, RunTask, OtherTest, OtherAttach, Hold, vars
  <2>2. QED
    BY <2>1 DEF IInv, HelperInv
<1>2. QED
  BY <1>1, Invariance, PTL DEF Spec, NoRevival

-----------------------------------------------------------------------------
(* When the helper is let go *)

\* The continuation of an input was posted by a do_notify that has called its
\* callback, which then() of the call installs once; it runs once.
PostedInv ==
  \A i \in Inputs :
    /\ callback[i] = "ours" \/ Task(i) \in refs \/ i \in ran => Registered(i)
    /\ Task(i) \in refs \/ i \in ran => producer[i] \in {"clear", "done"}
    /\ i \in ran /\ producer[i] = "done" => callback[i] # "ours"
    /\ Task(i) \in refs /\ producer[i] = "done" => callback[i] # "ours"
    /\ i \in ran => Task(i) \notin refs

LEMMA PostedStep == IInv /\ PostedInv /\ [Next]_vars => PostedInv'
<1> SUFFICES ASSUME IInv, PostedInv, [Next]_vars PROVE PostedInv'
  OBVIOUS
<1> USE InputsAssumption, HoldersDiffer DEF IInv, TypeOK, PostedInv, Registered, Hold
<1>1. CASE Test
  <2>1. refs' = refs \/ refs' = refs \ {Caller}
    BY <1>1 DEF Test
  <2>2. step' \in {"attach", "threw"} /\ next' = next /\ step = "test"
    BY <1>1 DEF Test
  <2>3. QED
    BY <1>1, <2>1, <2>2 DEF Test
<1>2. CASE Attach
  <2>1. next \in Inputs /\ step = "attach"
        /\ UNCHANGED <<producer, ran>> /\ callback' = [callback EXCEPT ![next] = "ours"]
    BY <1>2 DEF Attach
  <2>2. refs' \in {(refs \ {Caller}) \cup {Callback(next)}, refs \cup {Callback(next)}}
    BY <1>2 DEF Attach
  <2>3. \A i \in Inputs : Task(i) \in refs' <=> Task(i) \in refs
    BY <2>1, <2>2
  <2>4. \A i \in Inputs : Registered(i) => i < next
    BY <2>1
  <2>5. (next' = next /\ step' = "returned") \/ next' = next + 1
    BY <1>2 DEF Attach
  <2>6. \A i \in Inputs : Registered(i) \/ i = next => Registered(i)'
    BY <2>1, <2>4, <2>5 DEF Inputs
  <2>7. QED
    BY <2>1, <2>3, <2>4, <2>6 DEF Inputs
<1>3. ASSUME NEW i \in Inputs, Store(i) PROVE PostedInv'
  BY <1>3 DEF Store
<1>4. ASSUME NEW i \in Inputs, TestCallback(i) PROVE PostedInv'
  BY <1>4 DEF TestCallback
<1>5. ASSUME NEW i \in Inputs, InvokeCallback(i) PROVE PostedInv'
  <2>1. i \notin ran /\ producer[i] = "invoke"
    BY <1>5 DEF InvokeCallback
  <2>2. \A j \in Inputs : Task(j) \in refs' => Task(j) \in refs \/ (j = i /\ callback[i] = "ours")
    BY <1>5 DEF InvokeCallback
  <2>3. QED
    BY <1>5, <2>1, <2>2 DEF InvokeCallback
<1>6. ASSUME NEW i \in Inputs, ClearCallback(i) PROVE PostedInv'
  BY <1>6 DEF ClearCallback
<1>7. ASSUME NEW i \in Inputs, RunTask(i) PROVE PostedInv'
  BY <1>7 DEF RunTask
<1>8. ASSUME NEW i \in Inputs, OtherTest(i) PROVE PostedInv'
  BY <1>8 DEF OtherTest
<1>9. ASSUME NEW i \in Inputs, OtherAttach(i) PROVE PostedInv'
  BY <1>9 DEF OtherAttach
<1>10. CASE UNCHANGED vars
  BY <1>10 DEF vars
<1>11. QED
  BY <1>1, <1>2, <1>3, <1>4, <1>5, <1>6, <1>7, <1>8, <1>9, <1>10 DEF Next, Notify

LEMMA PostedInvariant == Spec => []PostedInv
<1>1. Init => PostedInv
  BY HoldersDiffer DEF Init, PostedInv, Registered
<1>2. QED
  BY <1>1, PostedStep, Invariance, PTL DEF Spec

\* No callback keeps the helper once all continuations have run: the safety part
\* of AllCompletes.
THEOREM AllInputsSettle == Spec => []AllSettled
<1>1. IInv /\ PostedInv => AllSettled
  <2> SUFFICES ASSUME IInv, PostedInv, step = "returned",
                      \A i \in Inputs : i \in ran /\ producer[i] # "clear"
               PROVE  fulfilled
    BY DEF AllSettled
  <2>1. Caller \notin refs
    BY DEF IInv, CallerInv
  <2>2. \A i \in Inputs : Task(i) \notin refs /\ Callback(i) \notin refs
    BY DEF IInv, CallbackInv, PostedInv
  <2>3. refs = {}
    BY <2>1, <2>2 DEF IInv, TypeOK
  <2>4. QED
    BY <2>3 DEF IInv, HelperInv
<1>2. QED
  BY <1>1, PostedInvariant, Invariance, PTL

-----------------------------------------------------------------------------
(* Refinement of Notifier *)

\* Each step is that of one input, or of none.
LEMMA InputStep ==
  ASSUME IInv, PostedInv, PostedInv', [Next]_vars, NEW i \in Inputs
  PROVE  [InputNotifier(i)!Next]_(InputNotifier(i)!notifierVars)
<1> DEFINE mine == IF Task(i) \in refs THEN {"ours"} ELSE {}
           notified == <<callback[i], producer[i], mine>>
<1> SUFFICES InputNotifier(i)!Next \/ UNCHANGED notified
  BY DEF InputNotifier!notifierVars
<1> USE InputsAssumption, HoldersDiffer DEF IInv, TypeOK, PostedInv, Registered, Hold
<1>1. CASE Test
  BY <1>1 DEF Test
<1>2. CASE Attach
  <2>1. next \in Inputs /\ step = "attach" /\ Task(next) \notin refs
        /\ UNCHANGED producer /\ callback' = [callback EXCEPT ![next] = "ours"]
    BY <1>2 DEF Attach, Inputs
  <2>2. refs' \in {(refs \ {Caller}) \cup {Callback(next)}, refs \cup {Callback(next)}}
    BY <1>2 DEF Attach
  <2>3. mine' = mine
    BY <2>1, <2>2
  <2>4. CASE i = next
    <3>1. InputNotifier(i)!Attach("ours")
      BY <2>1, <2>3, <2>4 DEF InputNotifier!Attach
    <3>2. QED
      BY <3>1 DEF InputNotifier!Next
  <2>5. CASE i # next
    BY <2>1, <2>3, <2>5
  <2>6. QED
    BY <2>4, <2>5
<1>3. ASSUME NEW j \in Inputs, Store(j)
      PROVE  InputNotifier(i)!Next \/ UNCHANGED notified
  BY <1>3 DEF Store, InputNotifier!Next, InputNotifier!Store
<1>4. ASSUME NEW j \in Inputs, TestCallback(j)
      PROVE  InputNotifier(i)!Next \/ UNCHANGED notified
  BY <1>4 DEF TestCallback, InputNotifier!Next, InputNotifier!Test
<1>5. ASSUME NEW j \in Inputs, InvokeCallback(j)
      PROVE  InputNotifier(i)!Next \/ UNCHANGED notified
  <2>1. producer[j] = "invoke" /\ producer' = [producer EXCEPT ![j] = "clear"]
        /\ callback' = callback
    BY <1>5 DEF InvokeCallback
  <2>2. \A k \in Inputs :
          Task(k) \in refs' <=> Task(k) \in refs \/ (k = j /\ callback[j] = "ours")
    BY <1>5 DEF InvokeCallback
  <2>3. CASE i = j
    <3>1. mine' = mine \cup ({callback[i]} \cap {"ours"})
      BY <2>2, <2>3
    <3>2. InputNotifier(i)!Invoke
      BY <2>1, <2>3, <3>1 DEF InputNotifier!Invoke, InputNotifier!Post
    <3>3. QED
      BY <3>2 DEF InputNotifier!Next
  <2>4. CASE i # j
    BY <2>1, <2>2, <2>4
  <2>5. QED
    BY <2>3, <2>4
<1>6. ASSUME NEW j \in Inputs, ClearCallback(j)
      PROVE  InputNotifier(i)!Next \/ UNCHANGED notified
  BY <1>6 DEF ClearCallback, InputNotifier!Next, InputNotifier!Clear
<1>7. ASSUME NEW j \in Inputs, RunTask(j)
      PROVE  InputNotifier(i)!Next \/ UNCHANGED notified
  <2>1. CASE i = j
    <3>1. InputNotifier(i)!Run("ours")
      BY <1>7, <2>1 DEF RunTask, InputNotifier!Run
    <3>2. QED
      BY <3>1 DEF InputNotifier!Next
  <2>2. CASE i # j
    BY <1>7, <2>2 DEF RunTask
  <2>3. QED
    BY <2>1, <2>2
<1>8. ASSUME NEW j \in Inputs, OtherTest(j)
      PROVE  InputNotifier(i)!Next \/ UNCHANGED notified
  BY <1>8 DEF OtherTest
<1>9. ASSUME NEW j \in Inputs, OtherAttach(j)
      PROVE  InputNotifier(i)!Next \/ UNCHANGED notified
  <2>1. CASE i = j
    <3>1. InputNotifier(i)!Attach("other")
      BY <1>9, <2>1 DEF OtherAttach, InputNotifier!Attach
    <3>2. QED
      BY <3>1 DEF InputNotifier!Next
  <2>2. CASE i # j
    BY <1>9, <2>2 DEF OtherAttach
  <2>3. QED
    BY <2>1, <2>2
<1>10. CASE UNCHANGED vars
  BY <1>10 DEF vars
<1>11. QED
  BY <1>1, <1>2, <1>3, <1>4, <1>5, <1>6, <1>7, <1>8, <1>9, <1>10 DEF Next, Notify

\* Every input of when_all starts its continuation as Notifier says.
THEOREM InputsImplementNotifier ==
  ASSUME NEW i \in Inputs PROVE Spec => InputNotifier(i)!Spec
<1>1. Init => InputNotifier(i)!Init
  BY HoldersDiffer DEF Init, InputNotifier!Init
<1>2. IInv /\ PostedInv /\ PostedInv' /\ [Next]_vars
        => [InputNotifier(i)!Next]_(InputNotifier(i)!notifierVars)
  BY InputStep
<1>3. QED
  BY <1>1, <1>2, PostedInvariant, Invariance, PTL DEF Spec, InputNotifier!Spec
=============================================================================
