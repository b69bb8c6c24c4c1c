--------------------------- MODULE MCFutureState ---------------------------
(* TLC instances of FutureState.  The runs check liveness, which leaves no   *)
(* room for symmetry.                                                        *)
EXTENDS FutureState
=============================================================================
