-------------------------- MODULE MCLiteralSplit --------------------------
(* TLC instance of LiteralSplit: all arrays of five characters, NULs inside *)
(* them and the NUL as a delimiter included, with too small and too large   *)
(* results.                                                                 *)
EXTENDS LiteralSplit

UpToFour == 1 .. 4
=============================================================================
