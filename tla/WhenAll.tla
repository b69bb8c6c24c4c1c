------------------------------ MODULE WhenAll ------------------------------
(***************************************************************************)
(* when_all(futures...) of FutureAlgorithm.inl:165-192.  The future that it *)
(* returns is completed by the destructor of a shared helper, that is when  *)
(* the last of these lets go of the helper: the call itself, the callback   *)
(* installed on each input, and the continuation posted for each input.     *)
(*                                                                         *)
(* Each input is a FutureImpl whose producer runs do_notify concurrently    *)
(* (see FutureState; its steps are kept where they touch ready_callback_).  *)
(* Inputs in Shared are futures on which the program may call then() too.   *)
(***************************************************************************)
EXTENDS Combinator

Inputs == 0 .. N - 1

CONSTANT Shared   \* the inputs on which another thread calls then()

VARIABLES
  next,       \* the input that when_all is to register on
  step,       \* where when_all is with it
  callback,   \* per input: whose ready_callback_ is installed
  producer,   \* per input: where its do_notify is
  other,      \* per input: where the other then() is
  refs,       \* who holds the helper
  ran,        \* the inputs whose continuation has run
  replaced,   \* the inputs on which the other then() overwrote the callback
  fulfilled   \* has the returned future been completed?

vars == <<next, step, callback, producer, other, refs, ran, replaced, fulfilled>>

Caller == <<"caller", N>>
Callback(i) == <<"callback", i>>
Task(i) == <<"task", i>>

Init ==
  /\ next = 0
  /\ step = "test"
  /\ callback = [i \in Inputs |-> "none"]
  /\ producer = [i \in Inputs |-> "idle"]
  /\ other = [i \in Inputs |-> IF i \in Shared THEN "idle" ELSE "done"]
  /\ refs = {Caller}
  /\ ran = {}
  /\ replaced = {}
  /\ fulfilled = FALSE

\* The helper changes hands; without any it is destroyed, and completes the
\* future.
Hold(now) ==
  /\ refs' = now
  /\ fulfilled' = (fulfilled \/ now = {})

ready(i) == producer[i] # "idle"

-----------------------------------------------------------------------------
(* The call: then() on one input after the other *)

\* Mutant: the call lets go of the helper before it registers.
TestLetsGo ==
  /\ step = "test"
  /\ step' = IF callback[next] = "none" THEN "attach" ELSE "threw"
  /\ Hold(refs \ {Caller})
  /\ UNCHANGED <<next, callback, producer, other, ran, replaced>>

\* then() throws when a callback is installed already; the call lets go.  That
\* the future has a state, which then() tests too, is sure here: the call owns
\* the futures, and nothing moves them before it returns.
Test ==
  /\ step = "test"
  /\ IF callback[next] = "none"
     THEN step' = "attach" /\ UNCHANGED <<refs, fulfilled>>
     ELSE step' = "threw" /\ Hold(refs \ {Caller})
  /\ UNCHANGED <<next, callback, producer, other, ran, replaced>>

\* Mutant: the callback does not share the helper.
AttachUnshared ==
  /\ step = "attach"
  /\ callback' = [callback EXCEPT ![next] = "ours"]
  /\ IF next = N - 1
     THEN step' = "returned" /\ Hold(refs \ {Caller}) /\ UNCHANGED next
     ELSE step' = "test" /\ next' = next + 1 /\ UNCHANGED <<refs, fulfilled>>
  /\ UNCHANGED <<producer, other, ran, replaced>>

\* The callback is installed, and shares the helper.  After the last input the
\* call returns and lets go.
Attach ==
  /\ step = "attach"
  /\ callback' = [callback EXCEPT ![next] = "ours"]
  /\ IF next = N - 1
     THEN step' = "returned" /\ Hold((refs \ {Caller}) \cup {Callback(next)}) /\ UNCHANGED next
     ELSE step' = "test" /\ next' = next + 1 /\ Hold(refs \cup {Callback(next)})
  /\ UNCHANGED <<producer, other, ran, replaced>>

-----------------------------------------------------------------------------
(* The producer of an input: store, then do_notify *)

Store(i) ==
  /\ producer[i] = "idle"
  /\ producer' = [producer EXCEPT ![i] = "test"]
  /\ UNCHANGED <<next, step, callback, other, refs, ran, replaced, fulfilled>>

TestCallback(i) ==
  /\ producer[i] = "test"
  /\ producer' = [producer EXCEPT ![i] = IF callback[i] = "none" THEN "done" ELSE "invoke"]
  /\ UNCHANGED <<next, step, callback, other, refs, ran, replaced, fulfilled>>

\* The executor gets the continuation; AddTask copies it or moves it out of
\* the callback.
InvokeCallback(i) ==
  /\ producer[i] = "invoke"
  /\ producer' = [producer EXCEPT ![i] = "clear"]
  /\ IF callback[i] = "ours"
     THEN \E moved \in {{}, {Callback(i)}} : Hold((refs \ moved) \cup {Task(i)})
     ELSE UNCHANGED <<refs, fulfilled>>
  /\ UNCHANGED <<next, step, callback, other, ran, replaced>>

\* Mutant: do_notify keeps its callback, and the callback the helper.
ClearCallbackKept(i) ==
  /\ producer[i] = "clear"
  /\ producer' = [producer EXCEPT ![i] = "done"]
  /\ UNCHANGED <<next, step, callback, other, refs, ran, replaced, fulfilled>>

ClearCallback(i) ==
  /\ producer[i] = "clear"
  /\ producer' = [producer EXCEPT ![i] = "done"]
  /\ callback' = [callback EXCEPT ![i] = "none"]
  /\ Hold(refs \ {Callback(i)})
  /\ UNCHANGED <<next, step, other, ran, replaced>>

\* The continuation does nothing but let go of the helper.
RunTask(i) ==
  /\ Task(i) \in refs
  /\ ran' = ran \cup {i}
  /\ Hold(refs \ {Task(i)})
  /\ UNCHANGED <<next, step, callback, producer, other, replaced>>

-----------------------------------------------------------------------------
(* Another then() on a shared input *)

OtherTest(i) ==
  /\ other[i] = "idle"
  /\ other' = [other EXCEPT ![i] = IF callback[i] = "none" THEN "attach" ELSE "done"]
  /\ UNCHANGED <<next, step, callback, producer, refs, ran, replaced, fulfilled>>

\* It replaces a callback that was installed since it looked, and with it the
\* reference which that callback held.
OtherAttach(i) ==
  /\ other[i] = "attach"
  /\ other' = [other EXCEPT ![i] = "done"]
  /\ callback' = [callback EXCEPT ![i] = "other"]
  /\ replaced' = IF callback[i] = "ours" THEN replaced \cup {i} ELSE replaced
  /\ Hold(refs \ {Callback(i)})
  /\ UNCHANGED <<next, step, producer, ran>>

-----------------------------------------------------------------------------

Notify(i) == TestCallback(i) \/ InvokeCallback(i) \/ ClearCallback(i)

Next ==
  \/ Test
  \/ Attach
  \/ \E i \in Inputs :
       Store(i) \/ Notify(i) \/ RunTask(i) \/ OtherTest(i) \/ OtherAttach(i)

Spec == Init /\ [][Next]_vars

\* The call and a producer that has started go on; the executor runs what it
\* was given.
FairSpec ==
  /\ Spec
  /\ WF_vars(Test) /\ WF_vars(Attach)
  /\ \A i \in Inputs : WF_vars(Notify(i)) /\ WF_vars(RunTask(i))

-----------------------------------------------------------------------------
(* Properties *)

TypeOK ==
  /\ next \in Inputs
  /\ step \in {"test", "attach", "returned", "threw"}
  /\ callback \in [Inputs -> {"none", "ours", "other"}]
  /\ producer \in [Inputs -> {"idle", "test", "invoke", "clear", "done"}]
  /\ other \in [Inputs -> {"idle", "attach", "done"}]
  /\ refs \in SUBSET ({Caller} \cup {Callback(i) : i \in Inputs} \cup {Task(i) : i \in Inputs})
  /\ ran \in SUBSET Inputs
  /\ replaced \in SUBSET Inputs
  /\ fulfilled \in BOOLEAN

\* All means all: the future of when_all is completed only when every input
\* is, whatever the order in which callbacks, continuations and the call let
\* go of the helper.  An input loses this when a concurrent then() overwrites
\* the callback that stood for it.
AllMeansAll ==
  fulfilled /\ step = "returned" => \A i \in Inputs : ready(i) \/ i \in replaced

\* The helper is destroyed once: nobody takes hold of it after the last one
\* let go, which would complete the future a second time.
NoRevival == [][fulfilled => refs' = {}]_vars

\* When every input has handed its continuation to the executor, the future of
\* when_all is completed: no callback keeps the helper and its inputs alive.
AllCompletes ==
  (step = "returned" /\ \A i \in Inputs : i \in ran \/ Task(i) \in refs) ~> fulfilled

\* When every continuation has run and no do_notify has still to clear its
\* callback, nobody holds the helper: the future of when_all is completed.
AllSettled ==
  step = "returned" /\ (\A i \in Inputs : i \in ran /\ producer[i] # "clear")
    => fulfilled

\* Each input starts its continuation as Notifier says; that of the call is
\* watched.
InputNotifier(i) ==
  INSTANCE Notifier WITH
    Callbacks <- {"ours", "other"},
    Watched   <- {"ours"},
    Empty     <- "none",
    Throws    <- FALSE,
    slot      <- callback[i],
    producer  <- producer[i],
    posted    <- IF Task(i) \in refs THEN {"ours"} ELSE {}
=============================================================================
