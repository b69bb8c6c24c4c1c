# A TLA+ model of GlacierLib

GlacierLib is a C++ library of futures with continuations (`src/include/GlacierLib/Future/`)
and of the thread pool that runs them (`ThreadPool.h`, namespace `v2`). All of its interesting
behaviour is concurrent: one shared state that producers, consumers and continuations touch from
different threads, with and without its mutex; a pool of workers that steal from one another,
come and go; a timer thread; and combinators (`when_all`, `when_any`, `co_await`) that are built
from continuations. This directory holds TLA+ modules of these parts, the configurations with
which TLC checks small instances of them, and theorems that TLAPS proves for every instance.

## Inventory

| Part | State | Operations | Hard because | Must hold |
|---|---|---|---|---|
| Shared state (`FutureImpl.h`, `Future.h`) | result or exception, three atomic flags, callback, mutex, condition variable | `set_value`, `set_exception`, `cancel`, `get`, `wait*`, `then`, `packaged_task()` | `then` and the flags' readers do not take the mutex; the callback is run under it | one result, delivered once, no waiter and no continuation left behind |
| v2 pool (`ThreadPool.h:274-333, 578-926`) | shared queue, a queue per worker, the set of workers under a readers-writer lock, flags of each worker | `AddTask`, `Wait`, `DestoryPool`, `Worker::Run`, keep-alive check | sizes and queues read without locks, notifications without a predicate, workers that end | no task lost or doubled, bounded threads, no thread outlives the pool |
| Timer thread (`ThreadPool.h:334-572`) | vector kept as a heap, handles under a readers-writer lock, two flags per timer | `AddTask`, `RemoveTask`, `Run`, `Stop` | a timer is removed while it is queued, run or put back | a queued timer runs; a removed one does not, but for a run in progress |
| `when_all` (`FutureAlgorithm.inl:165-192`) | a shared helper and who refers to it | registration, callbacks, continuations | completion is the destructor of the last reference | complete when and only when all inputs are |
| `when_any` (`FutureAlgorithm.inl:255-296`) | index, futures, flag, mutex taken with try_lock | registration, `notify` | losers give up; the winner moves the futures away during registration | completed once, by a completed input |
| Chains: continuations (`Future.h:80-150`, `FutureThenHelp.h`) and coroutines (`FutureCoroutine.h`) | the future that each completes, the exception its catch clause holds | conversion of the argument, body, `set_value`, catch clause; `await_ready`, `await_suspend`, `await_resume`, `return_value`, `set_exception` | the future may complete between `await_ready` and `then`; its value may be claimed before a continuation asks for it; anything may throw | errors travel, a value goes to one reader, executor threads are never blocked, every link completes its future |
| Executor interface (`FutureExecatorInterface.*`) | the current executor | `add_then`, `set_future_execator` | swapped without a lock | every continuation runs once |
| Asio adapter (`FutureAsio.h`) | a promise in a completion handler | `operator()`, `asio_handler_invoke` | a handler may throw after it has stored | errors of the handler reach the future |
| `literal_string.hpp` | none; characters and positions | `find`, `substr`, `count`, `_split` | unsigned arithmetic, `npos`, NULs inside the array | every field is right, nothing is read outside the text |
| v1 pool (`ThreadPool.h:14-260`, `ThreadPool.cpp`) | - | - | no user in the repository | - |
| `FutureError.h`, `FunctionInfo.h`, `Class_Meta.hpp`, `optional.*` | none that is shared | pure | - | - |

How they interact: a producer stores a result and, still holding the mutex of the shared state,
calls the callback that `then` installed; the callback calls `add_then`, which hands the
continuation to the executor, by default `v2::ThreadPool::AddTask`. A worker runs the
continuation, which reads the first future and completes a second one. `when_all`, `when_any` and
`await_suspend` only ever call `then`, also on one another's futures. An asio completion handler
is a producer like any other. The pool uses a timer thread to end workers it created for
a backlog.

`PROJECT.json` lists the hazards of this code at their lines, with the properties that cover them.

## Modules

| Module | Models | State and actions |
|---|---|---|
| `OneShot` | what a future promises: a cell filled once, claimed once | abstract specification |
| `FutureState` | `FutureImpl` and the calls of `promise`, `packaged_task`, `future` on it | variables have the names of the fields; one call per element of `Calls`, `pc` says where it is; `posted` is what the executor holds |
| `Notifier` | what a future promises about its continuation: the producer looks at one slot once, calls what is in it and empties it | abstract specification; implemented by the shared state and, as they reduce it, by the inputs of `when_all` and the futures of a chain |
| `FutureStateProofs` | theorems about `FutureState` | |
| `TaskBag` | what an executor promises: a task is started once and finished | abstract specification |
| `WorkerPool` | `v2::ThreadPool`, `Worker`, the keep-alive check | queues, `workers_`, `workerMtx_` as `reading`/`phase`, `cv_` as the set of workers asleep; one action per access to a queue, flag or condition variable |
| `WorkerPoolProofs` | theorems about `WorkerPool` | |
| `TimerWorker`, `TimerWorkerProofs` | `TimerWorker`, with the contract of `push_heap`/`pop_heap` | the vector, the handles, the flags of each timer; the timer thread's `pc`, a client per timer |
| `Combinator` | the numbers of inputs of the two combinators | constants only |
| `WhenAll`, `WhenAllProofs` | variadic `when_all` | `refs`, the holders of the helper |
| `WhenAny`, `WhenAnyProofs` | variadic `when_any` | the helper's fields, `moved`, `unlucky` (whose `try_lock` failed by itself), a `pc` per continuation |
| `AnyOfAll`, `AnyOfAllProofs` | `when_any(when_all(...), ...)` | the variables of both; input 0 of `when_any` is completed when the helper of `when_all` is destroyed (`Nested`) |
| `FutureChain`, `FutureChainProofs` | continuations of every kind, coroutines and the completion handler that starts them, in any tree | a result, a callback and a `do_notify` per future; a `pc` and the caught exception per owner; what the executor holds |
| `LiteralSplit`, `LiteralSplitProofs` | `literal_split` | the locals of `_split`; one step is one iteration of its loop |
| `MC*` | instances for TLC | symmetry sets, constants that are functions |

Which lines each definition stands for is in `PROJECT.json` under `map`.

Grain. Code under a mutex is cut into steps only where it touches something that other code
touches without the mutex. In `FutureState` that is `ready_callback_`, the atomic flags, and the
place where an executor may throw. In `WorkerPool` every access to a queue, an atomic or
a condition variable is a step; a push and the notification after it are one, because a
notification that comes later does what a spurious wakeup does, and those may happen at any time.
`sleepWorkerSize_` and `isWaitTask_` change together with the sleep of their worker (`FlagLock`).
The pop of the shared queue and the test whether it is empty now are one step (`PopShared`).
`WhenAll` and `FutureChain` reduce an input future to the steps that matter to them: the store, the
test of the callback, its call, its clearing. `WhenAny` reduces it further: `Complete` is the step in
which `do_notify` takes the callback that is installed, and a rival's `then()` has been called before
`when_any` (`taken`) or not at all. What `WhenAny` does not merge is the move of the futures into
`result_` and the completion that follows (`MoveResult`, `SetValue`). A coroutine of `FutureChain` may
catch what its `co_await` throws, a body what its `get()` throws; it awaits once, and it does not
catch what its own `co_return` throws out of `set_value`.

Data races. `ready_callback_` is a plain `std::function` that `then()` reads and writes without
the mutex under which `do_notify` tests, calls and clears it: undefined behaviour in C++. The modules
treat each access as atomic, so that what they show is the least that can go wrong; a torn
`std::function` is outside the model. The same holds of `timer_` (`TestTimer`, `NewTimer`) and of
the containers' sizes that are read without their lock.

External code, from how `src/` uses it: a `std::condition_variable` releases its lock and sleeps in
one step and may wake spuriously; `std::condition_variable_any` (MSVC) calls the lock's `unlock`
inside its internal mutex, so that entering the wait is one step too; `tbb::queuing_rw_mutex`
serves its queue in order, and its `try_acquire` may fail whenever someone else holds it or queues
for it; the tbb queues are first-in first-out; `push_heap`/`pop_heap` keep a heap a heap and
arrange a vector that is none in any way, but `pop_heap` always moves the first element to the end;
`std::mutex::try_lock` may fail although the mutex is free, which the C++ standard allows.

## Runs

| Run | Instance | Shows |
|---|---|---|
| `future` | 3 calls, 2 values, executor may throw | `DeliveredOnce`, `AnsweredFromStore`, `NoStrandedWaiter`, `OneContinuation`, `NoContinuationLost`, that `OneShot` and `Notifier` are implemented, `WaitersReturn`, `InstalledRuns` |
| `future_late_then` | 2 calls | violation of `AcceptedRuns` |
| `pool` | 1 submitter, 1 caller of `Wait`, 2 workers, 2 tasks, one of which submits the other | `TasksConserved`, `ScansStayValid`, `AllJoined`, `CoreDrained`, that `TaskBag` is implemented |
| `pool_live` | 2 submitters, a pool of 1 thread (2 `Worker` objects), 2 tasks, one of which submits the other | `BusyWorkerKeepsUp`, `BusyWorkerStops`, `AddTaskReturns` |
| `pool_max_threads`, `pool_assert`, `pool_runs` | 1 or 2 submitters | violations of `MaxThreads`, `DestroyedEmpty`, `SubmittedRuns` |
| `timer` | 2 timers, one periodic, clock 0..3 | `TimersNotLost`, `QueuedOnce`, `OneLateRun`, `DueRuns`, `StopsWithTimers` |
| `timer_order` | 3 timers, clock 0..2 | violation of `EarliestFirst` |
| `any_of_all` | `when_all` of 2 inputs, one of them shared, inside `when_any` of 3, any of them taken before, `try_lock` may fail by itself | `AllMeansAll`, `NoRevival`, `AllCompletes`; `IndexIsReady`, `DeliveredOnce`, `GivingUpIsSafe`, `FailsOnlyInDelivery`, `AnyCompletes`; of the composition, `AnyMeansAll` |
| `chain` | a handler and 3 links: two share its future, one of them by value; the third is attached to a link whose future the program reads too; the other two of any kind; executor may throw | `NeverBlocks`, `ErrorsTravel`, `ClaimedByOne`, `GuardedStores`, `ResumedSuspended`, `SuspendedResumes` |
| `split` | all arrays of 5 characters, NULs inside them included, split at a comma, a letter or NUL into 1 to 4 strings | `FieldsAreRight`, `ReadsInside`, `CountSuffices` |

Every configuration sets `CHECK_DEADLOCK FALSE`: each of these systems may really stop, when all
calls have returned, when the pool is destroyed, or where a hazard strands a thread.

Bounds, and why they are enough:

* `FutureState` has no loops, and a call touches the state a bounded number of times. Three calls
  are a producer and two rivals of any kind: a second producer, a `get`, a `wait`, a `then`. Every
  race listed among the hazards is one of a producer and two others, and theorems cover
  the safety properties for every number of calls.
* `WorkerPool` has queues of capacity one instead of `defaultQueueSize` = 1000, and a backlog of
  `BacklogLimit` = 0 instead of 1000, so that a full queue and a backlog do happen. One core
  worker and one temporary one give thief, victim, full queue, keep-alive check and destruction.
  A task is submitted once, so that `Tasks` bounds every queue. `Workers` bounds how many `Worker`
  objects come to exist; `AddTaskReturns` excuses a call for which none is left. That a timer is
  created twice (`aborted`) takes three workers and two submitters, and no property is about it.
  `pool_live` has `maxThreadSize_` = 1: two submitters add two workers all the same, and the wait of
  `AddTask` for room in the queue of the worker it created does happen there. No temporary worker is
  created in it, and no task is inserting a worker when `DestoryPool` takes the lock; what holds of that
  wait is the theorem `DestoryPoolBlocks`.
* `TimerWorker` has a clock that stops at `LastTick`; time does not, so that a wait for a later point
  ends there too. A periodic timer never ends by itself: its points may pass `LastTick`, and it is put
  back as long as nobody removes it. A timer is added once and removed at most once. Two timers, one of
  them periodic, are enough for a late run and for starvation; `timer_order`, which is about the order
  of several timers, has three. A vector of two is a heap or not, according to what was popped and put
  back: a timer that is not due stays outside the heap. The safety properties have theorems for any
  timers, whatever the heap functions make of the vector.
* `AnyOfAll`: two inputs give `when_all` a first and a last registration, and let the call, a callback
  or a continuation be the last holder of the helper; three give `when_any` two that complete
  together while it registers on the third. Each combinator has theorems for every number of inputs.
* `FutureChain`: one future with two links is what a rival is, and a link behind one of them lets an
  exception travel two steps. The four kinds in two places make sixteen programs. Every property
  but the liveness has a theorem for every tree of links.
* No instance has a state constraint: each bound is a constant that the guards name.
* `LiteralSplit`: the longest literal has a field at the start, one in the middle and one at the end,
  empty or not. `size_t` has eight values so that wrapping around is cheap; the theorems are for
  every length and width.

Fairness. A thread that has a step takes it (weak fairness of a call that has begun, of a worker, of
the executor): the threads are real threads under a preemptive scheduler. Nothing forces a call to
be made, a promise to be kept, a handler to be called, a link to be attached, a spurious wakeup,
`Stop` or the destruction of the pool. A writer that queues on `workerMtx_` gets it in the end
(strong fairness of `AddWorker`, `EraseChecked`, `LockPool`), because `tbb::queuing_rw_mutex` is a
queue, and the timer thread, which tests before every check whether it was stopped, ends in the end
(strong fairness of `StopTimer`). Time passes and tasks end.

What the liveness properties except, because the code does not give it:

* `InstalledRuns`, `AllCompletes`, `AnyCompletes` and `SuspendedResumes` assume an executor that runs
  what it accepted. That is what `add_then` needs to mean for a future to be of use, but `pool_runs`
  shows that the default executor does not always do it: a continuation whose worker misses
  the notification is run when the next task comes. The four properties are about the futures and
  the combinators, for an executor that keeps its promise (`TaskBag`, with fairness).
* `AddTaskReturns`, `BusyWorkerKeepsUp` and `BusyWorkerStops` except a thread that is `Stuck` for ever in
  `AddTask`: it waits for room in the queue of a worker that sleeps through its notification, or
  for `workerMtx_` while `DestoryPool` holds it and joins. `BusyWorkerStops` is about a busy worker;
  an idle one may sleep through `Stop` (`ThreadPool.h:320`).
* `DueRuns`: the heap has the latest timer first, so a periodic timer whose runs last its period is
  always due and always first, and the others starve (`ThreadPool.h:376, 519`); `GoesOn` is
  this case. Its second conjunct says what holds even then: of two timers, the due one runs after the
  thread has found the other not due. With three it would be false, as two periodic timers may
  starve the third.
* `AnyCompletes` and `GivingUpIsSafe` except a continuation that is `unlucky`: its `try_lock` failed by itself
  (`FutureAlgorithm.inl:274`), it gave up, and perhaps nobody else is to come.

### What the violations show

1. `AcceptedRuns`: `then` never looks at `is_ready_`, so a continuation on a future that is
   ready is accepted and never runs (`Future.h:74`).
2. `MaxThreads`: `AddTask` tests the size of the pool without the lock (`ThreadPool.h:736`), so
   that two callers exceed `maxThreadSize_`.
3. `DestroyedEmpty`: a task is pushed to a worker that its keep-alive check is about to end
   (`ThreadPool.h:679`), and is lost. The worker is not destroyed there. `fn` is an lvalue
   (`ThreadPool.h:687`), so that the call takes the overload `AddPeriodTask(Task&&)`, whose wrapper returns
   true whatever `fn` returns (`ThreadPool.h:431-437`): the check is run again and again, also for a
   worker that has ended, and holds the `shared_ptr` until `timer_` is destroyed. The assertion of
   `~Worker` fails then. `TasksConserved` excepts exactly such a task (`Stranded`).
4. `SubmittedRuns`: `Worker::Run` looks for work, then sleeps without a predicate
   (`ThreadPool.h:904`); a task pushed in between waits for the next notification.
5. `EarliestFirst`: the order of `TimerTaskImpl::less` puts the latest timer first
   (`ThreadPool.h:519`).

One more disagreement is stated by a theorem and not by a run. The comment at `FutureAsio.h:116-117` says
"Ensure any exceptions thrown from the handler are propagated back to the caller via the future". When
`set_value` throws because the executor refused the continuation, the result is stored already;
`set_exception` in the catch clause then throws `promise_already_satisfied`, which escapes, and the
future holds a value. `ChainFaultsEscape` says that this is the only way in which an exception leaves a
guarded call, and that the future does not hold it; `GuardedStores` claims only that the future
is complete.

## Proofs

The theorems hold for every value of the constants that the named assumptions of the modules
admit; the assumptions only say that sets which must be told apart are disjoint, that there is at
least one input, that a link is attached to a future with a smaller number, and that `size_t` can
count the characters of a literal.

`FutureStateProofs`. `IInv` is the conjunction of: `LockInv` (the mutex is held between steps
exactly by the producer inside `do_notify`), `StoreInv` (flags and fields agree), `ClaimInv` (one
claimant, who is not answered yet, and nobody else has the value), `SleepInv` (with the lock free
and a result there, nobody sleeps), `ContinuationInv` (what was posted comes from one
`do_notify`), and the properties themselves. None of the properties is inductive alone:
`DeliveredOnce` needs that a sleeping `get` is the only claimant, `NoStrandedWaiter` that only the
holder of the lock changes `is_ready_`, `OneContinuation` that `do_notify` runs once, which is
`StoreInv`. There is a lemma per conjunct with a step per action. `Invariance`, `TypeCorrect`,
`ValueDeliveredOnce`, `AnswersComeFromStore`, `NoWaiterStranded`, `AtMostOneContinuation` and the
action property `StoredOnce` (`SingleAssignment`, which `OneShot` contains and no run repeats)
follow; `ImplementsOneShot` maps the initial states and every step. `AcceptedNotLost`
(`NoContinuationLost`) is about the callback that `then` reads and writes without the mutex. It needs
`FateInv`: whoever is about to clear the callback has handed one over, so that the clearing drops
either a callback that was called or one that overwrote an accepted one. `ImplementsNotifier` maps
the same steps to `Notifier`, with the `pc` of the holder of the mutex as the place of the producer.

`WhenAllProofs`. `AllInputsReady` (`AllMeansAll`) and `CompletedOnce` (`NoRevival`). The
strengthening says who holds the helper: the call while it registers (`CallerInv`), the callback of
a registered input that is neither ready nor replaced (`RegisteredInv`), and that a callback that is
still installed holds it until it is called (`CallbackInv`), without which `InvokeCallback` could
revive a destroyed helper. `AllInputsSettle` (`AllSettled`) says that the helper is not kept alive for
ever: when the call has returned and all continuations have run and cleared their callbacks, the future
is complete. `PostedInv`, its invariant, follows a continuation from the callback to the executor.
`InputsImplementNotifier`: the four steps to which `WhenAll` reduces an input are those of `Notifier`.

`WhenAnyProofs`. `AnyIndexIsReady`, `AnyDeliveredOnce`, `AnyGivingUpIsSafe` and
`AnyFailsOnlyInDelivery`: `when_any` throws, or follows a null pointer, only when a completed input
claimed the index and its continuation has delivered the result or moved the futures and is about to.
`LockInv` says that whoever is between `locked` and `unlock` holds the
mutex, so that only one continuation can find `has_index_` unset under it; `IndexInv` that an index
which is claimed and not delivered has a continuation about to deliver it, and that the futures are
moved by that one; `OrderInv` that a continuation runs only on a completed input on which the call has
registered. `AnySettles` (`AnySettled`): when all continuations that began have ended, and there was one
that was not `unlucky`, the result was delivered.

`AnyOfAllProofs`. Each step of the composition is a step of one combinator and a stutter of the other
(`AllAlone`, `AnyAlone`), so that every theorem about one of them holds of it inside the composition,
by an instance of the module that proves it. `ComposedAnyMeansAll` needs, besides `AllMeansAll` and
`IndexIsReady`, that `when_any` begins when `when_all` has returned and that its first input completes
after the helper's destruction (`OrderInv`).

`FutureChainProofs`. `ChainNeverBlocks`, `ChainErrorsTravel`, `ChainClaimedByOne`,
`ChainGuardedStores`, `ChainFaultsEscape` and `ChainResumedSuspended`, for every number of links, every tree of
attachments and every kind of link. `StoredInv` and `ExcInv` say what a result and a caught exception
can be at each `pc`, which makes `GuardedStores` and `FaultsEscape` inductive; `CallbackInv`, `PostedInv` and `HandedInv`
follow a callback from `then()` to the executor: a callback that is installed belongs to a suspended
link of that future, and what is posted came out of a `do_notify` that has not cleared it or has
ended. Without `CallbackInv` a second hand-over could not be excluded, since `then()` may install a
callback while `do_notify` runs. `ClaimInv`, `RefusedInv` and `PlainInv` say who claimed a retrieved
future and who was given it, for `ClaimedByOne`; `ClaimInv` also says that a body runs with the value it
needs or, in a coroutine, after an exception that it caught, for `ErrorsTravel`. `NoSleeperLost`
(`SleepersAccounted`) is `AcceptedNotLost` for a tree of links: a suspended link is posted or installed,
unless a rival was given the result; `EmptiedInv` says that a `do_notify` about to clear its callback has
handed one over. `FuturesImplementNotifier`: each future of the chain implements `Notifier`, so that
`WhenAll`, `FutureChain` and `FutureState` agree about when a continuation starts.

`LiteralSplitProofs`. `SplitFieldsAreRight`, `SplitReadsInside` and `SplitCountSuffices`, for every
text, delimiter, result length and width of `size_t`. The loop invariant says that `start` is the
position after the `i`-th delimiter, `end` the next delimiter or `npos`, and that the strings stored so
far are their fields; the number of delimiters before a position is a cardinality, and the lemmas
about it stand for the induction over the loop of `count`.

`WorkerPoolProofs`. `IInv` is `TypeOK`, `CallInv` (a thread in `AddTask` carries the task, and the
worker it created, that its `pc` says it carries) and `LockInv` (while `DestoryPool` writes nobody
reads, and no iteration holds an erased worker). `TypeOK` needs `CallInv`, since a queue would be
given what is in an empty hand. `TypeCorrect`, `ScansValid` and `ChangesLocked`
(`NoChangeUnderReader`: `workers_` changes only when nobody iterates over it, of which `ScansStayValid` is
the consequence that the run checks) follow. For
`WithinLimit` (`ThreadsBounded`, which no run checks: with few threads there are not enough workers to
reach the limit) the invariant counts, besides the workers, the callers that have passed the test of
the size and not added their worker yet (`InFlight`).

In its second part, about tasks: where in its queue a task is does not matter for whether it is lost, so the argument is
about the sets of tasks in the queues (`Elems`), which hold nothing twice (`Distinct`). `Sole` says
that the shared queue, the queues of the workers, the hands and the running tasks are disjoint and
together hold what is submitted and not done. There is a lemma for each way a task moves: from a hand
to a queue, from a queue to a worker, from a stopped worker to the shared queue, and so on. `EmptyInv`
(hands are empty outside `AddTask`; a worker that looks for work runs nothing) is what makes a place
free before a task is put there. `NoTaskLost` (`TasksConserved`) and `ImplementsTaskBag`
(`TaskBagSpec`) follow for any threads, tasks, capacities and limits, hence for the sizes of the
code, which TLC cannot reach. `TasksConserved` does not count the queue of a worker that has ended and
that nobody can find; that such a worker was ended by its keep-alive check, and its tasks are
`Stranded`, comes from the invariant `StopInv` of the third part.

The third part is about what is left of the pool when it has been destroyed.

* `NoThreadOutlives` (`AllJoined`). A lemma (`LifeCases`) puts the steps of the pool into five classes by
  what they do to the life of a worker, and the invariants are proved against these. `FoundInv`: a worker
  that lives is in `workers_`, or is held by the call that created it, or is being joined by the
  keep-alive check. That is not enough: workers that hold one another, each created by a task of the next,
  would be alive and out of reach. `RingInv` excludes them, since among any workers there is one that none
  of them created.
* `CoreWorkersDrained` (`CoreDrained`). A worker returns its tasks when it is stopped, and a task may be
  pushed to it after that. For the workers that `DestoryPool` joins this cannot happen as long as no task
  was submitted that may submit others, since nobody calls `AddTask` by then and the timer thread has ended (`TimerInv`); `FreshInv` and
  `StopInv` say that a worker is stopped only by who is responsible for it.
* What is broken in general and right in some pools. `FixedPoolDrained`: the assertion of `~Worker`
  (violation `DestroyedEmpty`) holds if there are no temporary workers, `maxThreadSize_ <=
  coreThreadSize_`, and no task submits another. `OneCallerKeepsLimit` and `OneCallerSurvives`: with one caller
  of `AddTask`, the limit (violation `MaxThreads`) is kept and `timer_` is created once. The
  hypotheses are those under which the causes named below `What the violations show` cannot occur.
* `DestoryPoolBlocks`: a worker whose task has created another and wants to insert it, while `DestoryPool`
  holds the lock and joins, stays there, and so does `DestoryPool`. The deadlock of `ThreadPool.h:652` is
  thus one that no step of anybody resolves; its opposite is a liveness property that does not hold.

`TimerWorkerProofs`. `TypeCorrect`, `TimersKept`, `TimersQueuedOnce` and `AtMostOneLateRun`. The lemmas
about vectors say that the heap functions and the erasure keep what is in the vector, each timer once
(`Arranged`, from the pigeonhole of finite sets). `QueueInv`: a timer is in the vector at most once, not
in the hand of the timer thread as well, and not before it is added. `HandleInv`: whoever erases a handle
stops its timer afterwards. `KeptInv`: a timer with a handle is in the vector or with somebody who has to
put it back or to erase the handle, hence `TimersNotLost`. `LateInv`: a timer that ran late is stopped and
is not about to be called; it needs `HandleInv`, since `RemoveTask` returns without looking further when
it does not find the handle, which the timer thread may have erased and not yet stopped.
`NeverSleepsOverTimers` (`NoTimerSleptOver`) excludes the lost wakeup of `AddTask`: the timer thread sleeps
without a deadline only when the vector is empty (`SleepInv`), because `AddTask` pushes under the mutex.

`IInv` of each module, and every strengthening of it, was checked by TLC on small instances before it was
proved. Every safety property that a run checks is a theorem, but for those that the code breaks.
Theorems without a run of their own: the type correctness of each module, `StoredOnce`, `ChangesLocked`,
`WithinLimit`, `OneCallerSurvives`, `DestoryPoolBlocks`, `ChainFaultsEscape` and, as the safety part of a liveness property
that a run does check, `AllInputsSettle` (of `AllCompletes`), `AnySettles` (of `AnyCompletes`),
`NoSleeperLost` (of `SuspendedResumes`) and `NeverSleepsOverTimers` (of `DueRuns`): that nothing is left
undone when all have stopped is proved for every instance, that they get there is checked on small ones.
`InputsImplementNotifier` and `FuturesImplementNotifier` have no run because TLC takes no temporal formula
of an instance with a parameter.

Only model-checked: liveness, since fairness and ENABLED are beyond the prover.

## Not modelled, and why

* `FutureImpl`'s move operations and `packaged_task::reset` do not compile when they are used; the
  overloads of `when_all` and `when_any` on iterators do not either.
* `is_running_` is never changed, so `wait_for` never returns `deferred`. `FutureImpl<void>`
  is `FutureImpl<size_t>` with the value 1. Storing a null `exception_ptr` is a mistake of the
  caller.
* A thread that cannot be created, and memory that cannot be allocated, except as an executor that
  throws in `FutureState`.
* The pool's owner destroys it when no call from outside is in progress. Tasks that are running may
  call it, and do in the run `pool`.
* `WaitTimer` and `WaitAllTimer` poll without changing anything, and read containers without their
  lock.
* The v1 pool has no user and cannot be used: `enable_shared_from_this` is a private base, so that
  `shared_from_this` throws in the first worker thread, where nothing catches it, and the test of
  `stop_` in its `Run` is inverted. A model would have no step after the first.
* `set_future_execator` has no caller in the repository. Swapping while `add_then` runs is a data race
  on a pointer that is then deleted.
* An executor that runs a continuation inside `add_then`: the default one never does, and with
  `then`'s `get` under the same mutex it would deadlock.
* `FutureError.h`, `FunctionInfo.h`, the conversions of `FutureThenHelp.h`, the allocators and type
  traits of `FutureAsio.h`: tables and computations of the compiler. `Class_Meta.hpp` pairs the strings
  of `literal_split` with references to members; the pointers it returns dangle.
  `optional.*` is a value with a flag.
* `then` on a future that was moved from (a null `impl_`).

## Plan

Done: `FutureState` and `WorkerPool`, each with its refinements and proofs; `TimerWorker`, `WhenAll`,
`WhenAny`, `FutureChain` and `LiteralSplit` with proofs; the composition `AnyOfAll` with proofs.

To model next:

1. `FutureOnPool`: `FutureState` with its executor replaced by an instance of the queue and wakeup
   part of `WorkerPool`, to state when a continuation runs, end to end.
2. `Executor`: `set_future_execator` while `add_then` runs, if it gets a caller.
3. `ThreadPoolV1`, if it gets a user.

To prove next: that `OneShot` and `Notifier` together are all that `WhenAll`, `WhenAny` and `FutureChain`
use of a future (the stores of `FutureChain` against `OneShot`, the inputs of `WhenAny` against
`Notifier`).
