------------------------------ MODULE Notifier ------------------------------
(***************************************************************************)
(* How a GlacierLib future starts its continuation (do_notify and then),   *)
(* without results, locks or executors.  One slot holds a callback.  The   *)
(* producer looks at the slot once, when the result is stored: it calls    *)
(* what it finds there and empties it.  then() fills the slot at any time, *)
(* whatever the producer is doing: a callback that is installed too late   *)
(* stays, and one that is overwritten or emptied away is never called.     *)
(*                                                                         *)
(* The shared state (FutureState), the inputs of when_all (WhenAll) and    *)
(* the futures of a chain (FutureChain) each implement this specification. *)
(***************************************************************************)
CONSTANTS Callbacks,  \* what then() may install
          Watched,    \* those of them whose continuations are followed
          Empty,      \* no callback
          Throws      \* may the executor throw?

VARIABLES slot,       \* the installed callback
          producer,   \* where the producer is
          posted      \* the watched continuations that are still to run

notifierVars == <<slot, producer, posted>>

Init ==
  /\ slot = Empty
  /\ producer = "idle"
  /\ posted = {}

\* then() installs k, over whatever is there.  A callback whose continuation
\* has yet to run is not installed again.
Attach(k) ==
  /\ k \notin posted
  /\ slot' = k
  /\ UNCHANGED <<producer, posted>>

\* The result is stored.
Store ==
  /\ producer = "idle"
  /\ producer' = "test"
  /\ UNCHANGED <<slot, posted>>

Test ==
  /\ producer = "test"
  /\ producer' = IF slot = Empty THEN "done" ELSE "invoke"
  /\ UNCHANGED <<slot, posted>>

Post == posted' = posted \cup ({slot} \cap Watched)

\* What is installed by now is called.
Invoke ==
  /\ producer = "invoke"
  /\ producer' = "clear"
  /\ Post
  /\ UNCHANGED slot

\* The executor throws, before or after it has queued the continuation.
InvokeThrow ==
  /\ Throws
  /\ producer = "invoke"
  /\ producer' = "done"
  /\ Post \/ UNCHANGED posted
  /\ UNCHANGED slot

Clear ==
  /\ producer = "clear"
  /\ producer' = "done"
  /\ slot' = Empty
  /\ UNCHANGED posted

\* The executor runs a continuation.
Run(k) ==
  /\ k \in posted
  /\ posted' = posted \ {k}
  /\ UNCHANGED <<slot, producer>>

Next ==
  \/ Store \/ Test \/ Invoke \/ InvokeThrow \/ Clear
  \/ \E k \in Callbacks : Attach(k) \/ Run(k)

Spec == Init /\ [][Next]_notifierVars
=============================================================================
