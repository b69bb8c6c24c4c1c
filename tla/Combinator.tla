----------------------------- MODULE Combinator -----------------------------
(* The sizes of when_all and when_any (FutureAlgorithm.inl:165-296).  Each is *)
(* given futures, numbered as in a std::tuple, and calls then() on one after  *)
(* the other.                                                                 *)
EXTENDS Naturals

CONSTANTS N,   \* the number of inputs of when_all
          M    \* the number of inputs of when_any

ASSUME InputsAssumption == N \in Nat \ {0} /\ M \in Nat \ {0}
=============================================================================
