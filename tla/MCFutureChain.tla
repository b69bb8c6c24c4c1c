--------------------------- MODULE MCFutureChain ---------------------------
(***************************************************************************)
(* TLC instance of FutureChain: two links share the first future, one of   *)
(* them by value; the third is attached to one of them and has the program *)
(* as a rival.                                                             *)
(***************************************************************************)
EXTENDS FutureChain

Three == 3
SharedChain == <<0, 0, 1>>
ValueRival == {<<k, "value", m>> : k \in Kinds, m \in Kinds}
=============================================================================
