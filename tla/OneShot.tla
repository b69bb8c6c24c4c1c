------------------------------ MODULE OneShot ------------------------------
(***************************************************************************)
(* What a GlacierLib future promises to the readers of its result, without *)
(* locks, condition variables or callbacks.  A cell is filled once, with a *)
(* value or with an error.  A value belongs to the one reader that claimed *)
(* it, which may do so before the cell is filled; an error may be seen by  *)
(* any number of readers; a reader that comes after the claim is refused.  *)
(*                                                                         *)
(* FutureState implements this specification (FutureState!OneShotSpec).    *)
(***************************************************************************)
CONSTANTS Readers,   \* those who may ask for the result
          Values,    \* what a producer may store
          Errors,    \* the exceptions a producer may store instead
          Refused,   \* what a reader gets that comes after the claim
          None       \* nothing stored, nothing answered

VARIABLES cell,      \* the stored value or error
          claimed,   \* has a reader claimed the value?
          claimant,  \* the reader whose claim is not answered yet, if any
          answer     \* what each reader was given

cellVars == <<cell, claimed, claimant, answer>>

Init ==
  /\ cell = None
  /\ claimed = FALSE
  /\ claimant = {}
  /\ answer = [r \in Readers |-> None]

\* A producer fills the empty cell.
Fill ==
  /\ cell = None
  /\ cell' \in Values \cup Errors
  /\ UNCHANGED <<claimed, claimant, answer>>

\* A reader claims the value that is still to be stored.
Claim(r) ==
  /\ ~claimed
  /\ cell = None
  /\ claimed' = TRUE
  /\ claimant' = {r}
  /\ UNCHANGED <<cell, answer>>

Give(r, a) ==
  /\ answer[r] = None
  /\ answer' = [answer EXCEPT ![r] = a]
  /\ claimant' = claimant \ {r}
  /\ UNCHANGED cell

\* The value goes to its claimant, or to a reader that claims it now.
Deliver(r) ==
  /\ cell \in Values
  /\ claimed => r \in claimant
  /\ claimed' = TRUE
  /\ Give(r, cell)

\* An error goes to the claimant, or to any reader before there is a claim.
Fail(r) ==
  /\ cell \in Errors
  /\ claimed => r \in claimant
  /\ Give(r, cell)
  /\ UNCHANGED claimed

\* A reader that comes after the claim gets nothing.
Refuse(r) ==
  /\ claimed
  /\ r \notin claimant
  /\ Give(r, Refused)
  /\ UNCHANGED claimed

Next ==
  \/ Fill
  \/ \E r \in Readers : Claim(r) \/ Deliver(r) \/ Fail(r) \/ Refuse(r)

Spec == Init /\ [][Next]_cellVars
=============================================================================
