------------------------------ MODULE WhenAny ------------------------------
(***************************************************************************)
(* when_any(futures...) of FutureAlgorithm.inl:255-296.  A continuation on *)
(* each input calls WhenAnyHelper::notify, which sets the index and        *)
(* completes the returned future; a continuation that finds the helper     *)
(* locked leaves it to the one that holds the lock.                        *)
(*                                                                         *)
(* notify moves result_, and with it the futures on which when_any may     *)
(* still be registering.  An input is reduced to what its then() and its   *)
(* do_notify do with ready_callback_ (see FutureState): Complete is the    *)
(* step in which do_notify takes the callback that is installed, if any;   *)
(* a then() of somebody else has been called before when_any or not at all.*)
(***************************************************************************)
EXTENDS Combinator

Inputs == 0 .. M - 1

NoOne == M   \* an index of no input

VARIABLES
  taken,       \* the inputs that had a callback, or were retrieved, before
  next,        \* the input that when_any is to register on
  step,        \* where when_any is with it
  ready,       \* the inputs that are completed
  pc,          \* per input: where its continuation is
  has_index_,
  mtx_,        \* the continuation that holds it
  unlucky,     \* the continuations whose try_lock failed though mtx_ was free
  index,       \* result_.index
  moved,       \* have the futures been moved out of result_?
  fulfilled    \* has the returned future been completed?

vars == <<taken, next, step, ready, pc, has_index_, mtx_, unlucky, index, moved,
          fulfilled>>
registration == <<taken, next, step>>

Init ==
  /\ taken \in SUBSET Inputs
  /\ next = 0
  /\ step = "test"
  /\ ready = {}
  /\ pc = [i \in Inputs |-> "none"]
  /\ has_index_ = FALSE
  /\ mtx_ = NoOne
  /\ unlucky = {}
  /\ index = 0
  /\ moved = FALSE
  /\ fulfilled = FALSE

Goto(i, l) == pc' = [pc EXCEPT ![i] = l]

-----------------------------------------------------------------------------
(* The call *)

\* then() looks at its future: one that was moved away, or was taken, makes
\* when_any throw.
Test ==
  /\ step = "test"
  /\ step' = IF moved \/ next \in taken THEN "threw" ELSE "attach"
  /\ UNCHANGED <<taken, next, ready, pc, has_index_, mtx_, unlucky, index, moved, fulfilled>>

\* then() uses the future it looked at.  If it was moved away since, a null
\* pointer is followed.
Attach ==
  /\ step = "attach"
  /\ IF moved
     THEN step' = "crashed" /\ UNCHANGED <<next, pc>>
     ELSE /\ Goto(next, "installed")
          /\ IF next = M - 1
             THEN step' = "returned" /\ UNCHANGED next
             ELSE step' = "test" /\ next' = next + 1
  /\ UNCHANGED <<taken, ready, has_index_, mtx_, unlucky, index, moved, fulfilled>>

-----------------------------------------------------------------------------
(* An input, and its continuation *)

\* Mutant: do_notify runs the callback before the result is stored.
CompleteEarly(i) ==
  /\ i \notin ready
  /\ \/ ready' = ready \cup {i} /\ UNCHANGED pc
     \/ pc[i] = "installed" /\ Goto(i, "begin") /\ UNCHANGED ready
  /\ UNCHANGED <<registration, has_index_, mtx_, unlucky, index, moved, fulfilled>>

\* The input is completed; a callback that is installed by then is run by the
\* executor, one that is installed later is not.
Complete(i) ==
  /\ i \notin ready
  /\ ready' = ready \cup {i}
  /\ IF pc[i] = "installed" THEN Goto(i, "begin") ELSE UNCHANGED pc
  /\ UNCHANGED <<registration, has_index_, mtx_, unlucky, index, moved, fulfilled>>

\* Mutant: notify raises has_index_ before it has the lock.
BeginClaims(i) ==
  /\ pc[i] = "begin"
  /\ has_index_' = TRUE
  /\ Goto(i, IF has_index_ THEN "done" ELSE "lock")
  /\ UNCHANGED <<registration, ready, mtx_, unlucky, index, moved, fulfilled>>

\* notify looks at has_index_ without the lock.
Begin(i) ==
  /\ pc[i] = "begin"
  /\ Goto(i, IF has_index_ THEN "done" ELSE "lock")
  /\ UNCHANGED <<registration, ready, has_index_, mtx_, unlucky, index, moved, fulfilled>>

\* Mutant: result_ is moved out as soon as the lock is taken.
TryLockMoves(i) ==
  /\ pc[i] = "lock"
  /\ \/ mtx_ = NoOne /\ mtx_' = i /\ Goto(i, "locked") /\ moved' = TRUE /\ UNCHANGED unlucky
     \/ /\ Goto(i, "done")
        /\ unlucky' = IF mtx_ = NoOne THEN unlucky \cup {i} ELSE unlucky
        /\ UNCHANGED <<mtx_, moved>>
  /\ UNCHANGED <<registration, ready, has_index_, index, fulfilled>>

\* If somebody has the lock there is no need to go on.  try_lock of a std::mutex
\* may fail although nobody has it.
TryLock(i) ==
  /\ pc[i] = "lock"
  /\ \/ mtx_ = NoOne /\ mtx_' = i /\ Goto(i, "locked") /\ UNCHANGED unlucky
     \/ /\ Goto(i, "done")
        /\ unlucky' = IF mtx_ = NoOne THEN unlucky \cup {i} ELSE unlucky
        /\ UNCHANGED mtx_
  /\ UNCHANGED <<registration, ready, has_index_, index, moved, fulfilled>>

\* Mutant: has_index_ is not tested again under the lock.
ClaimUntested(i) ==
  /\ pc[i] = "locked"
  /\ has_index_' = TRUE
  /\ index' = i
  /\ Goto(i, "set")
  /\ UNCHANGED <<registration, ready, mtx_, unlucky, moved, fulfilled>>

\* Mutant: has_index_ is not raised.
ClaimUnmarked(i) ==
  /\ pc[i] = "locked"
  /\ IF has_index_
     THEN Goto(i, "unlock") /\ UNCHANGED index
     ELSE index' = i /\ Goto(i, "set")
  /\ UNCHANGED <<registration, ready, has_index_, mtx_, unlucky, moved, fulfilled>>

Claim(i) ==
  /\ pc[i] = "locked"
  /\ IF has_index_
     THEN Goto(i, "unlock") /\ UNCHANGED <<has_index_, index>>
     ELSE has_index_' = TRUE /\ index' = i /\ Goto(i, "set")
  /\ UNCHANGED <<registration, ready, mtx_, unlucky, moved, fulfilled>>

\* promise_.set_value(std::move(result_)) moves the futures out of the helper ...
MoveResult(i) ==
  /\ pc[i] = "set"
  /\ moved' = TRUE
  /\ Goto(i, "store")
  /\ UNCHANGED <<registration, ready, has_index_, mtx_, unlucky, index, fulfilled>>

\* ... and completes the returned future.
SetValue(i) ==
  /\ pc[i] = "store"
  /\ fulfilled' = TRUE
  /\ Goto(i, "unlock")
  /\ UNCHANGED <<registration, ready, has_index_, mtx_, unlucky, index, moved>>

Unlock(i) ==
  /\ pc[i] = "unlock"
  /\ mtx_' = NoOne
  /\ Goto(i, "done")
  /\ UNCHANGED <<registration, ready, has_index_, unlucky, index, moved, fulfilled>>

-----------------------------------------------------------------------------

notify(i) ==
  Begin(i) \/ TryLock(i) \/ Claim(i) \/ MoveResult(i) \/ SetValue(i) \/ Unlock(i)

\* Nothing runs after a crash.
Next ==
  /\ step # "crashed"
  /\ \/ Test
     \/ Attach
     \/ \E i \in Inputs : Complete(i) \/ notify(i)

Spec == Init /\ [][Next]_vars

\* The executor runs the continuations it was given.
FairSpec ==
  Spec /\ \A i \in Inputs : WF_vars(step # "crashed" /\ notify(i))

-----------------------------------------------------------------------------
(* Properties *)

TypeOK ==
  /\ taken \in SUBSET Inputs
  /\ next \in Inputs
  /\ step \in {"test", "attach", "returned", "threw", "crashed"}
  /\ ready \in SUBSET Inputs
  /\ pc \in [Inputs -> {"none", "installed", "begin", "lock", "locked", "set",
                        "store", "unlock", "done"}]
  /\ has_index_ \in BOOLEAN
  /\ mtx_ \in Inputs \cup {NoOne}
  /\ unlucky \in SUBSET Inputs
  /\ index \in Inputs
  /\ moved \in BOOLEAN
  /\ fulfilled \in BOOLEAN

\* The index that the caller of when_any sees is that of an input that is
\* completed: nobody changes result_ once it is moved into the promise.
IndexIsReady == fulfilled => index \in ready

\* Once delivered, index and futures never change, and once moved the futures are
\* not moved again: however many inputs complete together, one continuation sets
\* the promise.
DeliveredOnce ==
  [][/\ fulfilled => UNCHANGED index /\ \A i \in Inputs : pc[i] # "store"
     /\ moved => \A i \in Inputs : pc[i] # "set"]_vars

\* The comment on try_lock (FutureAlgorithm.inl:273): whoever finds the lock
\* taken need not go on.  A continuation gives up only if the index is set or
\* the holder of the lock is about to set it, or because try_lock failed by
\* itself, and then nobody may deliver.
GivingUpIsSafe ==
  (\E i \in Inputs : pc[i] = "done" /\ i \notin unlucky) =>
    has_index_ \/ (mtx_ # NoOne /\ pc[mtx_] = "locked")

\* A continuation has claimed the index of a completed input, and has delivered
\* it or is between the move of the futures and the completion.
Delivering == has_index_ /\ index \in ready /\ (fulfilled \/ pc[index] = "store")

\* when_any fails on inputs that were free only while or after a continuation
\* delivers its result: registration and delivery race for the futures in
\* result_, and the caller of when_any gets none.
FailsOnlyInDelivery ==
  step = "crashed" \/ (step = "threw" /\ next \notin taken) => Delivering

\* One input whose continuation was handed to the executor is enough, unless the
\* try_lock of that continuation fails by itself.
AnyCompletes ==
  \A i \in Inputs : pc[i] = "begin" ~> fulfilled \/ step = "crashed" \/ i \in unlucky

\* When every continuation that began has ended, and there was one whose try_lock
\* did not fail by itself, the result has been delivered: they cannot all leave it
\* to one another.
AnySettled ==
  (\E i \in Inputs : pc[i] = "done" /\ i \notin unlucky)
    /\ (\A i \in Inputs : pc[i] \in {"none", "installed", "done"})
    => fulfilled
=============================================================================
