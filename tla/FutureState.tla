---------------------------- MODULE FutureState ----------------------------
(***************************************************************************)
(* The state that a promise and its future share (FutureImpl.h), with the  *)
(* calls that promise, packaged_task and future (Future.h) make on it.     *)
(*                                                                         *)
(* Calls are concurrent: an element of Calls is one call, made by a thread *)
(* of its own, and it does one operation, chosen when it starts.  A thread *)
(* that makes several calls in a row is one of the interleavings.          *)
(*                                                                         *)
(* Grain of atomicity.  Code that runs under mtx_ is cut where it touches  *)
(* a field that other code reads or writes without the mutex: is_ready_,   *)
(* is_retrieved_ and ready_callback_.  future::then reads and writes       *)
(* ready_callback_ without mtx_, so each of its accesses is a step.  A     *)
(* call that waits for mtx_ has done nothing yet: taking the mutex is part *)
(* of its first step.                                                      *)
(***************************************************************************)
EXTENDS Naturals, FiniteSets

CONSTANTS
  Calls,           \* the calls made on one shared state
  Values,          \* the values a producer may store
  None,            \* no value, no exception, no callback, no owner
  ExecutorThrows   \* may add_then throw (no memory, no thread)?

\* The exceptions that can be stored: one of the producer's own, and the
\* future_error that cancel() stores.
Errors == {"user", "broken_promise"}

\* What get() throws when the result was already claimed.
Retrieved == "future_already_retrieved"

\* How a call other than get() ends.
Outcomes == {"stored", "promise_already_satisfied", "nothing_to_cancel", "user",
             "executor_error", "ready", "timeout", "no_state", "broken_promise",
             "attached"}

ASSUME CallsAssumption == None \notin Calls
ASSUME ValuesAssumption ==
  /\ None \notin Values
  /\ Values \cap (Errors \cup {Retrieved}) = {}
  /\ None \notin Errors \cup {Retrieved} \cup Outcomes
ASSUME ThrowsAssumption == ExecutorThrows \in BOOLEAN

VARIABLES
  mtx_,                \* the owner of mtx_, None when it is free
  result_,             \* the stored value
  ec_ptr_,             \* the stored exception
  is_ready_,           \* what waiters test
  is_retrieved_,       \* has a get() claimed the result?
  has_stored_result_,  \* what setters test
  ready_callback_,     \* the then() call whose callback is installed
  cv_,                 \* the calls asleep on cv_
  pc,                  \* where each call is
  outcome,             \* how a call other than get() ended
  got,                 \* what get(true) gave or threw, by the call it served
  posted,              \* callbacks handed to the executor and not yet run
  completed            \* then() calls whose new future has been completed

data == <<result_, ec_ptr_, is_ready_, has_stored_result_>>
vars == <<mtx_, data, is_retrieved_, ready_callback_, cv_, pc, outcome, got,
          posted, completed>>

Notifying == {"test", "invoke", "clear", "notify"}   \* inside do_notify
Waiting   == {"getWait", "wait", "timedWait"}        \* inside cv_.wait*

Init ==
  /\ mtx_ = None
  /\ result_ = None
  /\ ec_ptr_ = None
  /\ is_ready_ = FALSE
  /\ is_retrieved_ = FALSE
  /\ has_stored_result_ = FALSE
  /\ ready_callback_ = None
  /\ cv_ = {}
  /\ pc = [c \in Calls |-> "idle"]
  /\ outcome = [c \in Calls |-> None]
  /\ got = [c \in Calls |-> None]
  /\ posted = {}
  /\ completed = {}

Goto(c, l) == pc' = [pc EXCEPT ![c] = l]

\* Call c returns or throws.
Finish(c, o) == Goto(c, "done") /\ outcome' = [outcome EXCEPT ![c] = o]

-----------------------------------------------------------------------------
(* Producers: set_value, set_exception, cancel, packaged_task::operator() *)

\* The lock is taken, the result stored and both flags raised; the lock
\* stays held for the rest of do_notify.
Store(c, v, e) ==
  /\ mtx_' = c
  /\ result_' = v
  /\ ec_ptr_' = e
  /\ has_stored_result_' = TRUE
  /\ is_ready_' = TRUE
  /\ Goto(c, "test")
  /\ UNCHANGED <<is_retrieved_, ready_callback_, cv_, outcome, got, posted,
                 completed>>

\* The lock is taken, the result found stored, the lock released.
Rejected(c, o) ==
  /\ has_stored_result_
  /\ Finish(c, o)
  /\ UNCHANGED <<mtx_, data, is_retrieved_, ready_callback_, cv_, got, posted,
                 completed>>

SetValue(c, v) ==
  /\ pc[c] \in {"idle", "run"}
  /\ mtx_ = None
  /\ \/ Rejected(c, "promise_already_satisfied")
     \/ ~has_stored_result_ /\ Store(c, v, ec_ptr_)

\* Mutant: set_exception without its test of has_stored_result_.
SetExceptionUnguarded(c) ==
  /\ pc[c] = "idle"
  /\ mtx_ = None
  /\ Store(c, result_, "user")

SetException(c) ==
  /\ pc[c] = "idle"
  /\ mtx_ = None
  /\ \/ Rejected(c, "promise_already_satisfied")
     \/ ~has_stored_result_ /\ Store(c, result_, "user")

Cancel(c) ==
  /\ pc[c] = "idle"
  /\ mtx_ = None
  /\ \/ Rejected(c, "nothing_to_cancel")
     \/ ~has_stored_result_ /\ Store(c, result_, "broken_promise")

\* packaged_task::operator() looks at is_ready_ without the lock, runs its
\* function, then goes on as set_value (SetValue from "run").
PackagedTaskTest(c) ==
  /\ pc[c] = "idle"
  /\ IF is_ready_
     THEN Finish(c, "promise_already_satisfied")
     ELSE Goto(c, "run") /\ UNCHANGED outcome
  /\ UNCHANGED <<mtx_, data, is_retrieved_, ready_callback_, cv_, got, posted,
                 completed>>

\* An exception of the packaged function goes to the caller: nothing is stored.
PackagedTaskThrow(c) ==
  /\ pc[c] = "run"
  /\ Finish(c, "user")
  /\ UNCHANGED <<mtx_, data, is_retrieved_, ready_callback_, cv_, got, posted,
                 completed>>

-----------------------------------------------------------------------------
(* do_notify, run under mtx_ by the producer that stored the result *)

\* Mutant: do_notify drops the callback without calling it.
TestCallbackForgets(c) ==
  /\ pc[c] = "test"
  /\ Goto(c, IF ready_callback_ # None THEN "clear" ELSE "notify")
  /\ UNCHANGED <<mtx_, data, is_retrieved_, ready_callback_, cv_, outcome, got,
                 posted, completed>>

TestCallback(c) ==
  /\ pc[c] = "test"
  /\ Goto(c, IF ready_callback_ # None THEN "invoke" ELSE "notify")
  /\ UNCHANGED <<mtx_, data, is_retrieved_, ready_callback_, cv_, outcome, got,
                 posted, completed>>

\* The callback hands the continuation to the executor, whatever callback is
\* installed by now.
InvokeCallback(c) ==
  /\ pc[c] = "invoke"
  /\ posted' = posted \cup {ready_callback_}
  /\ Goto(c, "clear")
  /\ UNCHANGED <<mtx_, data, is_retrieved_, ready_callback_, cv_, outcome, got,
                 completed>>

\* The executor throws, before or after it queued the continuation (AddTask of
\* the default executor can do either): the exception leaves do_notify and the
\* setter, the lock is released, and neither the callback is cleared nor cv_
\* notified.
InvokeCallbackThrow(c) ==
  /\ ExecutorThrows
  /\ pc[c] = "invoke"
  /\ posted' \in {posted, posted \cup {ready_callback_}}
  /\ mtx_' = None
  /\ Finish(c, "executor_error")
  /\ UNCHANGED <<data, is_retrieved_, ready_callback_, cv_, got, completed>>

\* Mutant: do_notify leaves the callback in place.
ClearCallbackKept(c) ==
  /\ pc[c] = "clear"
  /\ Goto(c, "notify")
  /\ UNCHANGED <<mtx_, data, is_retrieved_, ready_callback_, cv_, outcome, got,
                 posted, completed>>

ClearCallback(c) ==
  /\ pc[c] = "clear"
  /\ ready_callback_' = None
  /\ Goto(c, "notify")
  /\ UNCHANGED <<mtx_, data, is_retrieved_, cv_, outcome, got, posted,
                 completed>>

\* Mutant: notify_one in place of notify_all.
NotifyOne(c) ==
  /\ pc[c] = "notify"
  /\ \/ cv_ = {} /\ UNCHANGED cv_
     \/ \E w \in cv_ : cv_' = cv_ \ {w}
  /\ mtx_' = None
  /\ Finish(c, "stored")
  /\ UNCHANGED <<data, is_retrieved_, ready_callback_, got, posted, completed>>

NotifyAll(c) ==
  /\ pc[c] = "notify"
  /\ cv_' = {}
  /\ mtx_' = None
  /\ Finish(c, "stored")
  /\ UNCHANGED <<data, is_retrieved_, ready_callback_, got, posted, completed>>

-----------------------------------------------------------------------------
(* Consumers: get(true), wait, wait_for *)

\* cv_.wait* gives the lock back and puts c to sleep, in one step.
Sleep(c, l) == Goto(c, l) /\ cv_' = cv_ \cup {c}

\* What get(true) ends with once the result is there.
Result == IF ec_ptr_ # None THEN ec_ptr_ ELSE result_

\* A get(true) made by c, or by its continuation, ends with a.
Answer(c, a) == got' = [got EXCEPT ![c] = a]

\* Mutant: is_retrieved_ raised before ec_ptr_ is tested, so that a stored
\* exception uses up the claim.
GetBeginClaimsFirst(c) ==
  /\ pc[c] = "idle"
  /\ mtx_ = None
  /\ is_retrieved_' = TRUE
  /\ \/ is_retrieved_ /\ Answer(c, Retrieved) /\ Goto(c, "done") /\ UNCHANGED cv_
     \/ /\ ~is_retrieved_ /\ is_ready_
        /\ Answer(c, Result) /\ Goto(c, "done") /\ UNCHANGED cv_
     \/ ~is_retrieved_ /\ ~is_ready_ /\ Sleep(c, "getWait") /\ UNCHANGED got
  /\ UNCHANGED <<mtx_, data, ready_callback_, outcome, posted, completed>>

\* get(true) up to its wait: refused, rethrown at once, or claimed and then
\* either answered or put to sleep.
GetBegin(c) ==
  /\ pc[c] = "idle"
  /\ mtx_ = None
  /\ \/ /\ is_retrieved_
        /\ Answer(c, Retrieved) /\ Goto(c, "done")
        /\ UNCHANGED <<is_retrieved_, cv_>>
     \/ /\ ~is_retrieved_ /\ ec_ptr_ # None
        /\ Answer(c, ec_ptr_) /\ Goto(c, "done")
        /\ UNCHANGED <<is_retrieved_, cv_>>
     \/ /\ ~is_retrieved_ /\ ec_ptr_ = None
        /\ is_retrieved_' = TRUE
        /\ \/ is_ready_ /\ Answer(c, result_) /\ Goto(c, "done") /\ UNCHANGED cv_
           \/ ~is_ready_ /\ Sleep(c, "getWait") /\ UNCHANGED got
  /\ UNCHANGED <<mtx_, data, ready_callback_, outcome, posted, completed>>

\* wait(), wait_for() and wait_until() look at is_retrieved_ without the lock.
WaitTest(c, l) ==
  /\ pc[c] = "idle"
  /\ IF is_retrieved_
     THEN Finish(c, "no_state")
     ELSE Goto(c, l) /\ UNCHANGED outcome
  /\ UNCHANGED <<mtx_, data, is_retrieved_, ready_callback_, cv_, got, posted,
                 completed>>

\* They take the lock and go to sleep unless the result is there.
WaitBegin(c) ==
  /\ pc[c] \in {"lockWait", "lockTimedWait"}
  /\ mtx_ = None
  /\ IF is_ready_
     THEN Finish(c, "ready") /\ UNCHANGED cv_
     ELSE /\ Sleep(c, IF pc[c] = "lockWait" THEN "wait" ELSE "timedWait")
          /\ UNCHANGED outcome
  /\ UNCHANGED <<mtx_, data, is_retrieved_, ready_callback_, got, posted,
                 completed>>

\* A condition variable may wake a waiter that nobody notified.
SpuriousWakeup(c) ==
  /\ c \in cv_
  /\ cv_' = cv_ \ {c}
  /\ UNCHANGED <<mtx_, data, is_retrieved_, ready_callback_, pc, outcome, got,
                 posted, completed>>

\* Mutant: get() does not look at ec_ptr_ again after its wait.
WakeWithValue(c) ==
  /\ pc[c] \in Waiting
  /\ c \notin cv_
  /\ mtx_ = None
  /\ is_ready_
  /\ IF pc[c] = "getWait"
     THEN Answer(c, result_) /\ Goto(c, "done") /\ UNCHANGED outcome
     ELSE Finish(c, "ready") /\ UNCHANGED got
  /\ UNCHANGED <<mtx_, data, is_retrieved_, ready_callback_, cv_, posted,
                 completed>>

\* A woken call takes the lock back and tests the predicate.
Wake(c) ==
  /\ pc[c] \in Waiting
  /\ c \notin cv_
  /\ mtx_ = None
  /\ \/ /\ is_ready_ /\ pc[c] = "getWait"
        /\ Answer(c, Result) /\ Goto(c, "done")
        /\ UNCHANGED <<cv_, outcome>>
     \/ /\ is_ready_ /\ pc[c] # "getWait"
        /\ Finish(c, "ready")
        /\ UNCHANGED <<cv_, got>>
     \/ /\ ~is_ready_
        /\ Sleep(c, pc[c])
        /\ UNCHANGED <<outcome, got>>
  /\ UNCHANGED <<mtx_, data, is_retrieved_, ready_callback_, posted, completed>>

\* The time of wait_for is up: it takes the lock back and tests once more.
Timeout(c) ==
  /\ pc[c] = "timedWait"
  /\ mtx_ = None
  /\ cv_' = cv_ \ {c}
  /\ Finish(c, IF is_ready_ THEN "ready" ELSE "timeout")
  /\ UNCHANGED <<mtx_, data, is_retrieved_, ready_callback_, got, posted,
                 completed>>

-----------------------------------------------------------------------------
(* future::then and the continuation it leaves behind *)

ThenBegin(c) ==
  /\ pc[c] = "idle"
  /\ IF is_retrieved_
     THEN Finish(c, "no_state")
     ELSE Goto(c, "then") /\ UNCHANGED outcome
  /\ UNCHANGED <<mtx_, data, is_retrieved_, ready_callback_, cv_, got, posted,
                 completed>>

ThenTest(c) ==
  /\ pc[c] = "then"
  /\ IF ready_callback_ # None
     THEN Finish(c, "broken_promise")
     ELSE Goto(c, "attach") /\ UNCHANGED outcome
  /\ UNCHANGED <<mtx_, data, is_retrieved_, ready_callback_, cv_, got, posted,
                 completed>>

ThenAttach(c) ==
  /\ pc[c] = "attach"
  /\ ready_callback_' = c
  /\ Finish(c, "attached")
  /\ UNCHANGED <<mtx_, data, is_retrieved_, cv_, got, posted, completed>>

\* Mutant: the continuation reads the result without claiming it.
RunWithStoredValue(k) ==
  /\ k \in posted
  /\ mtx_ = None
  /\ Answer(k, Result)
  /\ posted' = posted \ {k}
  /\ completed' = completed \cup {k}
  /\ UNCHANGED <<mtx_, data, is_retrieved_, ready_callback_, cv_, pc, outcome>>

\* Mutant: an exception in the continuation is not passed to its new future.
RunWithValueUncaught(k) ==
  /\ k \in posted
  /\ mtx_ = None
  /\ Answer(k, IF is_retrieved_ THEN Retrieved ELSE Result)
  /\ is_retrieved_' = (is_retrieved_ \/ ec_ptr_ = None)
  /\ posted' = posted \ {k}
  /\ completed' = IF ~is_retrieved_ /\ ec_ptr_ = None
                  THEN completed \cup {k} ELSE completed
  /\ UNCHANGED <<mtx_, data, ready_callback_, cv_, pc, outcome>>

\* The executor runs a continuation that takes the result by value: it calls
\* get(true), and completes the new future with what follows from it.
RunWithValue(k) ==
  /\ k \in posted
  /\ mtx_ = None
  /\ Answer(k, IF is_retrieved_ THEN Retrieved ELSE Result)
  /\ is_retrieved_' = (is_retrieved_ \/ ec_ptr_ = None)
  /\ posted' = posted \ {k}
  /\ completed' = completed \cup {k}
  /\ UNCHANGED <<mtx_, data, ready_callback_, cv_, pc, outcome>>

\* The executor runs a continuation that takes nothing, or the future itself.
RunPlain(k) ==
  /\ k \in posted
  /\ posted' = posted \ {k}
  /\ completed' = completed \cup {k}
  /\ UNCHANGED <<mtx_, data, is_retrieved_, ready_callback_, cv_, pc, outcome,
                 got>>

-----------------------------------------------------------------------------

\* What a call that has started does next.
Step(c) ==
  \/ \E v \in Values : pc[c] = "run" /\ SetValue(c, v)
  \/ PackagedTaskThrow(c)
  \/ TestCallback(c)
  \/ InvokeCallback(c)
  \/ InvokeCallbackThrow(c)
  \/ ClearCallback(c)
  \/ NotifyAll(c)
  \/ WaitBegin(c)
  \/ Wake(c)
  \/ Timeout(c)
  \/ ThenTest(c)
  \/ ThenAttach(c)

Run(k) == RunWithValue(k) \/ RunPlain(k)

Start(c) ==
  \/ \E v \in Values : pc[c] = "idle" /\ SetValue(c, v)
  \/ SetException(c)
  \/ Cancel(c)
  \/ PackagedTaskTest(c)
  \/ GetBegin(c)
  \/ WaitTest(c, "lockWait")
  \/ WaitTest(c, "lockTimedWait")
  \/ ThenBegin(c)

Next ==
  \E c \in Calls :
    \/ Start(c)
    \/ Step(c)
    \/ SpuriousWakeup(c)
    \/ Run(c)

Spec == Init /\ [][Next]_vars

\* A call that has started is run by its thread until it returns, and the
\* executor runs what it was given.  Nothing forces a call to be made or a
\* waiter to be woken without a notification.
Fairness == \A c \in Calls : WF_vars(Step(c)) /\ WF_vars(Run(c))

FairSpec == Spec /\ Fairness

-----------------------------------------------------------------------------
(* Properties *)

\* Types of the variables; posted and completed hold then() calls.
TypeOK ==
  /\ mtx_ \in Calls \cup {None}
  /\ result_ \in Values \cup {None}
  /\ ec_ptr_ \in Errors \cup {None}
  /\ is_ready_ \in BOOLEAN
  /\ is_retrieved_ \in BOOLEAN
  /\ has_stored_result_ \in BOOLEAN
  /\ ready_callback_ \in Calls \cup {None}
  /\ cv_ \in SUBSET Calls
  /\ pc \in [Calls -> {"idle", "run", "lockWait", "lockTimedWait", "then",
                       "attach", "done"} \cup Notifying \cup Waiting]
  /\ outcome \in [Calls -> Outcomes \cup {None}]
  /\ got \in [Calls -> Values \cup Errors \cup {Retrieved, None}]
  /\ posted \in SUBSET Calls
  /\ completed \in SUBSET Calls

\* Once a producer has stored a value or an exception, no later set_value,
\* set_exception, cancel or packaged_task call changes it: each tests
\* has_stored_result_ under the same lock under which it stores.
SingleAssignment ==
  [][has_stored_result_ => UNCHANGED data]_vars

\* However many get() calls and by-value continuations compete for it, the
\* value is moved out of the shared state to at most one of them
\* (is_retrieved_ is raised by the first, before it waits).
DeliveredOnce ==
  \A c, d \in Calls : got[c] \in Values /\ got[d] \in Values => c = d

\* A get() never ends before there is a result, or without one: it ends with
\* the value or the exception that was stored, or is refused after a claim.
AnsweredFromStore ==
  \A c \in Calls :
    /\ got[c] \in Values => is_ready_ /\ ec_ptr_ = None /\ got[c] = result_
    /\ got[c] \in Errors => got[c] = ec_ptr_
    /\ got[c] = Retrieved => is_retrieved_
    /\ pc[c] = "done" /\ outcome[c] = None => got[c] # None

Faulted == \E c \in Calls : outcome[c] = "executor_error"

\* No lost wakeup: once the producer has left do_notify, nobody sleeps on
\* cv_, because the predicate is tested and the sleep begun under mtx_.
\* The exception is a producer that the executor threw out of do_notify.
NoStrandedWaiter ==
  is_ready_ /\ mtx_ = None /\ ~Faulted => cv_ = {}

\* Of all the then() calls that succeeded on one future, at most one
\* continuation is ever handed to the executor, and only after the result was
\* stored: do_notify runs once, and hands over the callback it finds.
OneContinuation ==
  /\ \A j, k \in posted \cup completed : j = k
  /\ posted \cap completed = {}
  /\ posted \cup completed # {} => has_stored_result_

\* A continuation that then() accepted is never dropped: it waits in
\* ready_callback_ or was handed to the executor, however then(), the producer
\* and an executor that throws get between one another.  Only a second then()
\* that was accepted too can drop it, by overwriting the callback.
NoContinuationLost ==
  \A k \in Calls : outcome[k] = "attached" =>
    \/ k \in posted \cup completed
    \/ ready_callback_ = k
    \/ \E j \in Calls \ {k} : outcome[j] = "attached"

\* An executor that throws ends do_notify before it has notified anybody, or run
\* the continuation.
Threw == \E j \in Calls : outcome[j] = "executor_error"

\* Every waiter returns once the result is there, whatever the order in which
\* waiters, producers and continuations take the lock.
WaitersReturn ==
  \A c \in Calls :
    (pc[c] \in Waiting \cup {"lockWait", "lockTimedWait"} /\ is_ready_)
      ~> (pc[c] = "done" \/ Threw)

\* A callback that is installed when the producer looks for it is run, unless
\* a concurrent then() replaced it meanwhile.
InstalledRuns ==
  \A k \in Calls :
    (ready_callback_ = k /\ \E c \in Calls : pc[c] = "test")
      ~> (k \in completed \/ Threw \/ \E j \in Calls \ {k} : outcome[j] = "attached")

\* What README.md:5 ("like c# task. can used c++20 async/await") lets a user
\* expect of then(): a continuation that was accepted runs once the future is
\* ready.  The code breaks it: then() never looks at is_ready_.
AcceptedRuns ==
  \A k \in Calls :
    (outcome[k] = "attached" /\ is_ready_) ~> k \in completed

\* The answers of the shared state are those of a one-shot cell.
OneShotCell ==
  INSTANCE OneShot WITH
    Readers <- Calls,
    Refused <- Retrieved,
    cell    <- Result,
    claimed <- is_retrieved_,
    claimant <- {c \in Calls : pc[c] = "getWait"},
    answer  <- got

\* FutureState implements OneShot: locks, callbacks and lost notifications
\* never change who gets the result or how often.
OneShotSpec == OneShotCell!Spec

\* Where the producer of Notifier is: notify_all, the other waiters and the lock
\* play no part in it.
producer ==
  IF mtx_ = None
  THEN IF is_ready_ THEN "done" ELSE "idle"
  ELSE IF pc[mtx_] = "notify" THEN "done" ELSE pc[mtx_]

\* The continuation is started as Notifier says.
Callback ==
  INSTANCE Notifier WITH
    Callbacks <- Calls,
    Watched   <- Calls,
    Empty     <- None,
    Throws    <- ExecutorThrows,
    slot      <- ready_callback_

\* FutureState implements Notifier: do_notify calls the callback once, and
\* empties the slot after that and at no other time.
NotifierSpec == Callback!Spec
=============================================================================
