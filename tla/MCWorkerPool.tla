---------------------------- MODULE MCWorkerPool ----------------------------
(* TLC instances of WorkerPool.  Submitters and workers are interchangeable, *)
(* and so are the tasks when none of them submits others.                    *)
EXTENDS WorkerPool, TLC

Symmetry == Permutations(Submitters) \cup Permutations(Workers)

TaskSymmetry == Symmetry \cup Permutations(Tasks)
=============================================================================
