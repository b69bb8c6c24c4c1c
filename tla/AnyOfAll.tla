------------------------------ MODULE AnyOfAll ------------------------------
(***************************************************************************)
(* Combinators composed: when_any(when_all(x0, x1, ...), y1, y2, ...).  The *)
(* future that when_all returns is input 0 of when_any; it is completed by  *)
(* the destructor of the when_all helper, on whichever thread lets go of it *)
(* last, and that call runs the callback of when_any.                      *)
(***************************************************************************)
EXTENDS Combinator

CONSTANT Shared   \* the inputs of when_all on which another thread calls then()

VARIABLES next, step, callback, producer, other, refs, ran, replaced, fulfilled
VARIABLES taken, anyNext, anyStep, ready, pc, has_index_, mtx_, unlucky, index, moved,
          delivered

all == <<next, step, callback, producer, other, refs, ran, replaced, fulfilled>>
any == <<taken, anyNext, anyStep, ready, pc, has_index_, mtx_, unlucky, index, moved,
         delivered>>

All == INSTANCE WhenAll
Any == INSTANCE WhenAny WITH next <- anyNext, step <- anyStep, fulfilled <- delivered

Init == All!Init /\ Any!Init

\* when_any is called with the future that when_all has returned.
Called == step = "returned" \/ <<anyNext, anyStep>>' = <<anyNext, anyStep>>

\* Mutant: the helper completes the promise while it is still held.
NestedIgnored == TRUE

\* Input 0 is completed when the helper of when_all is destroyed.
Nested == 0 \in ready' => 0 \in ready \/ fulfilled

AllStep == All!Next /\ UNCHANGED any
AnyStep == Any!Next /\ Called /\ Nested /\ UNCHANGED all

Spec == Init /\ [][AllStep \/ AnyStep]_<<all, any>>

\* Both calls go on once they have begun, and the executor runs what it is given.
FairSpec ==
  /\ Spec
  /\ WF_all(All!Test) /\ WF_all(All!Attach)
  /\ \A i \in All!Inputs : WF_all(All!Notify(i)) /\ WF_all(All!RunTask(i))
  /\ \A i \in Any!Inputs : WF_any(anyStep # "crashed" /\ Any!notify(i))

-----------------------------------------------------------------------------
(* Properties *)

\* The promises of the two combinators hold for the composition.
AllMeansAll   == All!AllMeansAll
NoRevival     == All!NoRevival
AllCompletes  == All!AllCompletes
IndexIsReady  == Any!IndexIsReady
DeliveredOnce == Any!DeliveredOnce
GivingUpIsSafe == Any!GivingUpIsSafe
FailsOnlyInDelivery == Any!FailsOnlyInDelivery
AnyCompletes  == Any!AnyCompletes

\* If when_any reports the future of when_all, every input of when_all is complete.
AnyMeansAll ==
  delivered /\ index = 0 =>
    \A i \in All!Inputs : All!ready(i) \/ i \in replaced
=============================================================================
