------------------------------ MODULE TaskBag ------------------------------
(***************************************************************************)
(* What a GlacierLib executor promises about the tasks it is given, without *)
(* queues, workers or locks: a task that is submitted waits, is started at  *)
(* most once, and ends after it was started.  Nothing promises that a       *)
(* waiting task is ever started.                                            *)
(*                                                                         *)
(* WorkerPool implements this specification (WorkerPool!TaskBagSpec).       *)
(***************************************************************************)
CONSTANT Tasks

VARIABLE status   \* how far each task has come

Init == status = [t \in Tasks |-> "new"]

Move(t, from, to) ==
  /\ status[t] = from
  /\ status' = [status EXCEPT ![t] = to]

\* A task enters, starts and ends, each at most once.
Submit(t) == Move(t, "new", "waiting")
Start(t)  == Move(t, "waiting", "running")
Finish(t) == Move(t, "running", "done")

Next == \E t \in Tasks : Submit(t) \/ Start(t) \/ Finish(t)

Spec == Init /\ [][Next]_status
=============================================================================
