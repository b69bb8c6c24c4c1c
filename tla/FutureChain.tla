---------------------------- MODULE FutureChain ----------------------------
(***************************************************************************)
(* Futures that complete one another: continuations installed by then()    *)
(* (Future.h:64-151), coroutines that await (FutureCoroutine.h), and the   *)
(* completion handler that starts them (FutureAsio.h).                     *)
(*                                                                         *)
(* Future 0 belongs to a handler; link l in 1 .. N is attached to future   *)
(* awaits[l] and completes future l.  What completes future f is its       *)
(* owner, and every owner is the same guarded call: a body, set_value with *)
(* what it returns, and a catch clause that calls set_exception.  A link   *)
(* takes its input in one of four ways (kind).                             *)
(*                                                                         *)
(* A future keeps the steps of FutureState that touch ready_callback_ or   *)
(* hold the lock; is_ready and then() do not take the lock.                *)
(***************************************************************************)
EXTENDS Naturals

CONSTANTS
  N,               \* the number of links
  awaits,          \* the future that each link is attached to
  Mixes,           \* the kinds of links that a program may choose
  Read,            \* the futures on which the program calls get() itself
  ExecutorThrows   \* may add_then throw?

Links == 1 .. N
Futures == 0 .. N

\* A coroutine, or a continuation that takes the value, the future or nothing.
Kinds == {"await", "value", "handle", "plain"}

ASSUME ChainAssumption ==
  /\ N \in Nat
  /\ awaits \in [Links -> Futures]
  /\ \A l \in Links : awaits[l] < l
  /\ Mixes \subseteq [Links -> Kinds]
ASSUME ThrowsAssumption == ExecutorThrows \in BOOLEAN

\* What a future holds: a value or an exception, and the owner it comes from.
Results == [is : {"none", "value", "threw", "refused", "executor"}, by : Futures]

Nothing    == [is |-> "none", by |-> 0]
Value(f)   == [is |-> "value", by |-> f]
Threw(f)   == [is |-> "threw", by |-> f]      \* by f's body or its handler
Refused(f) == [is |-> "refused", by |-> f]    \* f's then() or get() was refused
Fault(f)   == [is |-> "executor", by |-> f]   \* add_then failed in f's do_notify

VARIABLES
  kind,             \* per link
  result,           \* per future
  is_retrieved_,    \* per future: has a get() claimed the value?
  ready_callback_,  \* per future: the link whose callback is installed, or 0
  pc,               \* per owner: where its call is
  exc,              \* per owner: the exception that its catch clause holds
  posted,           \* the links that the executor is to run
  got,              \* the links to which a value was moved
  taken             \* the futures whose value the program claimed

claims == <<is_retrieved_, got, taken>>
vars == <<kind, result, ready_callback_, pc, exc, posted, claims>>

Init ==
  /\ kind \in Mixes
  /\ result = [f \in Futures |-> Nothing]
  /\ is_retrieved_ = [f \in Futures |-> FALSE]
  /\ ready_callback_ = [f \in Futures |-> 0]
  /\ pc = [f \in Futures |-> IF f = 0 THEN "body" ELSE "start"]
  /\ exc = [f \in Futures |-> Nothing]
  /\ posted = {}
  /\ got = {}
  /\ taken = {}

Goto(f, p) == pc' = [pc EXCEPT ![f] = p]

is_ready(f) == result[f] # Nothing
Locked(f) == pc[f] \in {"test", "invoke", "clear"}   \* its owner is in do_notify

\* Control goes to the catch clause with exception e.
Throw(f, e) == Goto(f, "caught") /\ exc' = [exc EXCEPT ![f] = e]

\* The await of a coroutine, or a get() in a body that was given the future,
\* throws inside the body, which may catch e and go on.  The argument of a
\* continuation by value is made before its body.
Raise(l, e) ==
  \/ Throw(l, e)
  \/ kind[l] # "value" /\ Goto(l, "body") /\ exc' = [exc EXCEPT ![l] = e]

-----------------------------------------------------------------------------
(* Attaching a link *)

\* Future f has been given to the program: by get_future, by then(), or by a
\* coroutine that has suspended or run.
Given(f) ==
  f = 0 \/ pc[f] \notin {"start", "suspend", "then", "attach", "failed"}

\* Mutant: await_ready looks only at whether the future was retrieved.
await_readyAlways(l) ==
  /\ kind[l] = "await" /\ pc[l] = "start"
  /\ Given(awaits[l])
  /\ Goto(l, IF ~is_retrieved_[awaits[l]] THEN "resume" ELSE "suspend")
  /\ UNCHANGED <<kind, result, ready_callback_, exc, posted, claims>>

\* A future that was retrieved does not count as ready.
await_ready(l) ==
  /\ kind[l] = "await" /\ pc[l] = "start"
  /\ Given(awaits[l])
  /\ Goto(l, IF is_ready(awaits[l]) /\ ~is_retrieved_[awaits[l]]
             THEN "resume" ELSE "suspend")
  /\ UNCHANGED <<kind, result, ready_callback_, exc, posted, claims>>

\* then() throws: from await_suspend into the coroutine that awaits, or to the
\* program, which gets no future.
ThenThrow(l) ==
  IF kind[l] = "await" THEN Raise(l, Refused(l)) ELSE Goto(l, "failed") /\ UNCHANGED exc

\* then() tests whether the future is retrieved ...
ThenBegin(l) ==
  /\ pc[l] = IF kind[l] = "await" THEN "suspend" ELSE "start"
  /\ Given(awaits[l])
  /\ IF is_retrieved_[awaits[l]]
     THEN ThenThrow(l)
     ELSE Goto(l, "then") /\ UNCHANGED exc
  /\ UNCHANGED <<kind, result, ready_callback_, posted, claims>>

\* ... and whether it has a callback ...
ThenTest(l) ==
  /\ pc[l] = "then"
  /\ IF ready_callback_[awaits[l]] # 0
     THEN ThenThrow(l)
     ELSE Goto(l, "attach") /\ UNCHANGED exc
  /\ UNCHANGED <<kind, result, ready_callback_, posted, claims>>

\* ... then it installs its own, whether the future is ready or not.
ThenAttach(l) ==
  /\ pc[l] = "attach"
  /\ ready_callback_' = [ready_callback_ EXCEPT ![awaits[l]] = l]
  /\ Goto(l, "suspended")
  /\ UNCHANGED <<kind, result, exc, posted, claims>>

-----------------------------------------------------------------------------
(* Running a link: its input *)

\* The executor runs the continuation: it resumes the coroutine, converts the
\* future to the argument of the body, or calls the body at once.
Resume(l) ==
  /\ l \in posted
  /\ posted' = posted \ {l}
  /\ Goto(l, IF kind[l] \in {"await", "value"} THEN "resume" ELSE "body")
  /\ UNCHANGED <<kind, result, ready_callback_, exc, claims>>

\* get(true) on a future that is ready: the value is claimed, the stored
\* exception rethrown, or the call refused.
Claim(l) ==
  /\ result[awaits[l]].is = "value" /\ ~is_retrieved_[awaits[l]]
  /\ is_retrieved_' = [is_retrieved_ EXCEPT ![awaits[l]] = TRUE]
  /\ got' = got \cup {l}
  /\ Goto(l, "body")
  /\ UNCHANGED <<exc, taken>>

ClaimFails(l) ==
  /\ \/ is_retrieved_[awaits[l]] /\ Raise(l, Refused(l))
     \/ /\ ~is_retrieved_[awaits[l]] /\ result[awaits[l]].is # "value"
        /\ Raise(l, result[awaits[l]])
  /\ UNCHANGED claims

\* Mutant: get does not raise is_retrieved_.
GetUnclaimed(l) ==
  /\ pc[l] = "resume"
  /\ ~Locked(awaits[l]) /\ is_ready(awaits[l])
  /\ \/ /\ result[awaits[l]].is = "value"
        /\ got' = got \cup {l}
        /\ Goto(l, "body")
        /\ UNCHANGED <<exc, taken, is_retrieved_>>
     \/ result[awaits[l]].is # "value" /\ ClaimFails(l)
  /\ UNCHANGED <<kind, result, ready_callback_, posted>>

\* Mutant: get does not rethrow a stored exception.
GetIgnores(l) ==
  /\ pc[l] = "resume"
  /\ ~Locked(awaits[l]) /\ is_ready(awaits[l])
  /\ \/ Claim(l)
     \/ is_retrieved_[awaits[l]] /\ ClaimFails(l)
     \/ /\ ~is_retrieved_[awaits[l]] /\ result[awaits[l]].is # "value"
        /\ Goto(l, "body")
        /\ UNCHANGED <<exc, claims>>
  /\ UNCHANGED <<kind, result, ready_callback_, posted>>

\* await_resume, inside the coroutine, and the conversion of ThenHelp to the
\* value, outside the body.
Get(l) ==
  /\ pc[l] = "resume"
  /\ ~Locked(awaits[l]) /\ is_ready(awaits[l])
  /\ Claim(l) \/ ClaimFails(l)
  /\ UNCHANGED <<kind, result, ready_callback_, posted>>

\* A body that was given the future may call get() itself.
GetInBody(l) ==
  /\ kind[l] = "handle" /\ pc[l] = "body"
  /\ ~Locked(awaits[l]) /\ is_ready(awaits[l])
  /\ Claim(l) \/ ClaimFails(l)
  /\ UNCHANGED <<kind, result, ready_callback_, posted>>

\* The program calls get(), before or after the future is ready.
ProgramGet(f) ==
  /\ f \in Read /\ Given(f)
  /\ ~Locked(f)
  /\ ~is_retrieved_[f] /\ result[f].is \in {"none", "value"}
  /\ is_retrieved_' = [is_retrieved_ EXCEPT ![f] = TRUE]
  /\ taken' = taken \cup {f}
  /\ UNCHANGED <<kind, result, ready_callback_, pc, exc, posted, got>>

-----------------------------------------------------------------------------
(* Running an owner: body, set_value, catch clause *)

\* The result is stored, and do_notify begins.
Store(f, r) ==
  /\ result' = [result EXCEPT ![f] = r]
  /\ Goto(f, "test")

\* The body returns, and its value is stored (set_value, return_value).
Return(f) ==
  /\ pc[f] = "body"
  /\ Store(f, Value(f))
  /\ UNCHANGED <<kind, ready_callback_, exc, posted, claims>>

\* A handler that is given an error code stores a system_error.
HandlerError ==
  /\ pc[0] = "body"
  /\ Store(0, Threw(0))
  /\ UNCHANGED <<kind, ready_callback_, exc, posted, claims>>

BodyThrow(f) ==
  /\ pc[f] = "body"
  /\ Throw(f, Threw(f))
  /\ UNCHANGED <<kind, result, ready_callback_, posted, claims>>

\* Mutant: the guarded call lets every exception out.
CatchNothing(f) ==
  /\ pc[f] = "caught"
  /\ Goto(f, "escaped")
  /\ UNCHANGED <<kind, result, ready_callback_, exc, posted, claims>>

\* The catch clause calls set_exception, which throws in turn when a result is
\* stored already.
Catch(f) ==
  /\ pc[f] = "caught"
  /\ IF is_ready(f)
     THEN Goto(f, "escaped") /\ UNCHANGED result
     ELSE Store(f, exc[f])
  /\ UNCHANGED <<kind, ready_callback_, exc, posted, claims>>

-----------------------------------------------------------------------------
(* do_notify of a future, run by its owner *)

\* Mutant: do_notify drops the callback without calling it.
TestCallbackForgets(f) ==
  /\ pc[f] = "test"
  /\ Goto(f, IF ready_callback_[f] = 0 THEN "done" ELSE "clear")
  /\ UNCHANGED <<kind, result, ready_callback_, exc, posted, claims>>

TestCallback(f) ==
  /\ pc[f] = "test"
  /\ Goto(f, IF ready_callback_[f] = 0 THEN "done" ELSE "invoke")
  /\ UNCHANGED <<kind, result, ready_callback_, exc, posted, claims>>

\* The executor is given the continuation that is installed by now.
InvokeCallback(f) ==
  /\ pc[f] = "invoke"
  /\ posted' = posted \cup {ready_callback_[f]}
  /\ Goto(f, "clear")
  /\ UNCHANGED <<kind, result, ready_callback_, exc, claims>>

\* The executor throws, before or after it queued the continuation.
InvokeCallbackThrow(f) ==
  /\ ExecutorThrows
  /\ pc[f] = "invoke"
  /\ posted' \in {posted, posted \cup {ready_callback_[f]}}
  /\ Throw(f, Fault(f))
  /\ UNCHANGED <<kind, result, ready_callback_, claims>>

\* Mutant: do_notify calls the callback until there is none.
ClearCallbackRepeats(f) ==
  /\ pc[f] = "clear"
  /\ \/ Goto(f, "invoke") /\ UNCHANGED ready_callback_
     \/ Goto(f, "done") /\ ready_callback_' = [ready_callback_ EXCEPT ![f] = 0]
  /\ UNCHANGED <<kind, result, exc, posted, claims>>

ClearCallback(f) ==
  /\ pc[f] = "clear"
  /\ ready_callback_' = [ready_callback_ EXCEPT ![f] = 0]
  /\ Goto(f, "done")
  /\ UNCHANGED <<kind, result, exc, posted, claims>>

-----------------------------------------------------------------------------

attach(l) == await_ready(l) \/ ThenBegin(l) \/ ThenTest(l) \/ ThenAttach(l)

then_fn(l) == Resume(l) \/ Get(l) \/ GetInBody(l) \/ Return(l) \/ BodyThrow(l)

asio_handler_invoke == Return(0) \/ HandlerError \/ BodyThrow(0)

do_notify(f) ==
  TestCallback(f) \/ InvokeCallback(f) \/ InvokeCallbackThrow(f) \/ ClearCallback(f)

Next ==
  \/ asio_handler_invoke
  \/ \E l \in Links : attach(l) \/ then_fn(l)
  \/ \E f \in Futures : Catch(f) \/ do_notify(f) \/ ProgramGet(f)

Spec == Init /\ [][Next]_vars

\* The executor runs what it was given, bodies end, and a producer that has
\* stored its result goes on.  Nothing forces the handler to be called or a
\* link to be attached.
FairSpec ==
  /\ Spec
  /\ \A l \in Links : WF_vars(then_fn(l))
  /\ \A f \in Futures : WF_vars(Catch(f) \/ do_notify(f))

-----------------------------------------------------------------------------
(* Properties *)

TypeOK ==
  /\ kind \in [Links -> Kinds]
  /\ result \in [Futures -> Results]
  /\ is_retrieved_ \in [Futures -> BOOLEAN]
  /\ ready_callback_ \in [Futures -> Futures]
  /\ pc \in [Futures -> {"start", "suspend", "then", "attach", "failed", "suspended",
                         "resume", "body", "caught", "test", "invoke", "clear",
                         "done", "escaped"}]
  /\ exc \in [Futures -> Results]
  /\ posted \in SUBSET Links
  /\ got \in SUBSET Links
  /\ taken \in SUBSET Futures

\* No thread of the executor is ever blocked by a chain: a coroutine goes on
\* after its await, and a continuation asks for its argument, only when the
\* future it is attached to is complete.
NeverBlocks ==
  \A l \in Links :
    l \in posted \/ pc[l] = "resume" \/ (kind[l] # "await" /\ pc[l] = "body")
      => is_ready(awaits[l])

\* The exception that a link delivers is its own or that of the future it is
\* attached to, and reaches it only through links that ask for the value: it
\* travels down a chain up to the first that takes nothing.  A continuation by
\* value never returns a value without having got one, and a coroutine that
\* does so has been told why: an exception was thrown into its body.
Asks(l) == kind[l] # "plain"

ErrorsTravel ==
  \A l \in Links :
    /\ is_ready(l) /\ result[l].by # l => Asks(l) /\ result[awaits[l]] = result[l]
    /\ l \in got => result[awaits[l]].is = "value"
    /\ result[l].is = "value" /\ kind[l] = "value" => l \in got
    /\ result[l].is = "value" /\ kind[l] = "await" => l \in got \/ exc[l] # Nothing

\* The value of a future is moved to one reader, link or program.  A link is
\* refused only for a reason that others see: the program has claimed the value,
\* a rival has installed a callback or asked for the value, or the body of the
\* link itself asks twice.
Rivals(l) == {m \in Links \ {l} : awaits[m] = awaits[l]}

Reason(l) ==
  awaits[l] \in taken \/ l \in got \/ \E m \in Rivals(l) : Given(m)

ClaimedByOne ==
  \A l \in Links :
    /\ l \in got => Rivals(l) \cap got = {} /\ awaits[l] \notin taken
    /\ result[l] = Refused(l) => Reason(l)

\* Whatever body, executor or rival throws, a guarded call that has ended has
\* completed its future.
GuardedStores == \A f \in Futures : pc[f] \in {"done", "escaped"} => is_ready(f)

\* What a guarded call lets out is a failure of the executor to which the
\* continuation was given, and the future does not tell it: the result was
\* stored before.
FaultsEscape ==
  \A f \in Futures : pc[f] = "escaped" => exc[f] = Fault(f) /\ result[f] # Fault(f)

\* A continuation is handed to the executor once, and a coroutine is resumed
\* only while it is suspended; resuming one that runs or has ended is
\* undefined behaviour.
ResumedSuspended == \A l \in posted : pc[l] = "suspended"

\* A link whose callback is installed when its future is completed ends, unless
\* the callback of a rival replaced it or the executor threw.  (One that installs
\* its callback later waits for ever: the future may become complete between
\* await_ready and then().)
SuspendedResumes ==
  \A l \in Links :
    (ready_callback_[awaits[l]] = l /\ pc[awaits[l]] = "test")
      ~> (\/ pc[l] \in {"done", "escaped"}
          \/ ready_callback_[awaits[l]] \in Rivals(l)
          \/ exc[awaits[l]] = Fault(awaits[l]))

\* A link that sleeps is accounted for: the executor has it, or its callback is
\* installed.  Only a rival that was attached or posted for the same future can
\* have dropped it.
SleepersAccounted ==
  \A l \in Links : pc[l] = "suspended" =>
    \/ l \in posted
    \/ ready_callback_[awaits[l]] = l
    \/ \E m \in Rivals(l) : Given(m)

\* Each future starts its continuation as Notifier says.
FutureNotifier(f) ==
  INSTANCE Notifier WITH
    Callbacks <- Links,
    Watched   <- Links,
    Empty     <- 0,
    Throws    <- ExecutorThrows,
    slot      <- ready_callback_[f],
    producer  <- IF Locked(f) THEN pc[f] ELSE IF is_ready(f) THEN "done" ELSE "idle",
    posted    <- {l \in posted : awaits[l] = f}
=============================================================================
