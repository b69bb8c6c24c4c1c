----------------------------- MODULE WorkerPool -----------------------------
(***************************************************************************)
(* The executor of GlacierLib: v2::ThreadPool and its Workers              *)
(* (ThreadPool.h:274-926), on which continuations run by default.          *)
(*                                                                         *)
(* Threads.  Submitters call AddTask, Waiters call Wait, every worker runs *)
(* Worker::Run, the timer thread runs the keep-alive check of the workers  *)
(* that were created because of a backlog, and the owner of the pool calls *)
(* DestoryPool.  A task in Spawning may call AddTask while it runs, which  *)
(* makes its worker a submitter.                                           *)
(*                                                                         *)
(* Grain of atomicity.  One step is one access to a queue, an atomic or a  *)
(* condition variable.  A push and the notification that follows it are    *)
(* one step: a notification that comes later wakes its worker as a         *)
(* spurious wakeup does, which may happen at any time.  The pop of the     *)
(* shared queue and the test whether it is empty now are one step.         *)
(* RandFind holds workerMtx_ while it visits the workers one by one.       *)
(***************************************************************************)
EXTENDS Naturals, Sequences, FiniteSets

CONSTANTS
  Submitters, Waiters,   \* threads outside the pool
  Workers,               \* the Worker objects that may come to exist
  Tasks,
  Spawning,              \* the tasks that may submit others while they run
  None,                  \* no task, no worker
  coreThreadSize_, maxThreadSize_,
  QueueCapacity,         \* of a worker's own queue (defaultQueueSize)
  BacklogLimit           \* tasks queued before a temporary worker is created

Actors == Submitters \cup Waiters \cup Workers

ASSUME ActorsAssumption ==
  /\ Submitters \cap Workers = {} /\ Waiters \cap Workers = {}
  /\ Submitters \cap Waiters = {}
  /\ None \notin Workers \cup Tasks
  /\ IsFiniteSet(Actors)
ASSUME SizesAssumption ==
  /\ coreThreadSize_ \in Nat \ {0} /\ maxThreadSize_ \in Nat \ {0}
  /\ QueueCapacity \in Nat \ {0} /\ BacklogLimit \in Nat
ASSUME SpawningAssumption == Spawning \subseteq Tasks

VARIABLES
  tasksQueue_,   \* the queue shared by all workers
  taskQueue_,    \* the queue of each worker
  workers_,      \* the workers that others can find
  reading,       \* who holds workerMtx_ for reading
  scan,          \* the workers a holder has still to visit
  stop_,         \* per worker: has Stop been called?
  cv_,           \* the workers asleep on their condition variable
  noTaskCv_,     \* the waiters asleep on noTaskCv_
  pc,            \* where each thread is
  item,          \* the task a thread is handing over
  grow,          \* did AddTask find room for one more worker?
  target,        \* the worker a thread has just created
  running,       \* the task each worker runs
  submitted, done,
  timer_,        \* the timer thread: absent, idle, or inside a keep-alive check
  checked,       \* the worker it checks
  keepAlive,     \* the workers it has to check, now and again
  phase,         \* how far DestoryPool has come
  aborted        \* did the program end in std::terminate?

queues == <<tasksQueue_, taskQueue_>>
lock   == <<reading, scan>>
call   == <<item, grow, target>>
ledger == <<submitted, done>>
timer  == <<timer_, checked, keepAlive>>
vars   == <<queues, workers_, lock, stop_, cv_, noTaskCv_, pc, call, running,
            ledger, timer, phase, aborted>>

\* Everything that most steps leave alone.
calm == <<workers_, stop_, timer, phase, aborted>>

Goto(p, l) == pc' = [pc EXCEPT ![p] = l]

\* FlagLock raises isWaitTask_ for as long as the worker is in cv_.wait.
isWaitTask_(w) == pc[w] = "sleep"
sleepWorkerSize_ == Cardinality({w \in Workers : isWaitTask_(w)})

\* Where a thread goes on when AddTask returns.
Resume(p) == IF p \in Workers THEN "run" ELSE "idle"

\* The pool has its core workers (strategy immediately) or none (delay).
Init ==
  /\ tasksQueue_ = <<>>
  /\ taskQueue_ = [w \in Workers |-> <<>>]
  /\ \/ workers_ = {}
     \/ workers_ \in SUBSET Workers /\ Cardinality(workers_) = coreThreadSize_
  /\ reading = {}
  /\ scan = [p \in Actors |-> {}]
  /\ stop_ = [w \in Workers |-> FALSE]
  /\ cv_ = {}
  /\ noTaskCv_ = {}
  /\ pc = [p \in Actors |-> IF p \in workers_ THEN "loop"
                            ELSE IF p \in Workers THEN "none" ELSE "idle"]
  /\ item = [p \in Actors |-> None]
  /\ grow = [p \in Actors |-> FALSE]
  /\ target = [p \in Actors |-> None]
  /\ running = [w \in Workers |-> None]
  /\ submitted = {}
  /\ done = {}
  /\ timer_ = "absent"
  /\ checked = None
  /\ keepAlive = {}
  /\ phase = "open"
  /\ aborted = FALSE

-----------------------------------------------------------------------------
(* workerMtx_ and RandFind *)

Writing == phase \in {"stop", "join"}     \* DestoryPool holds the lock
LockFree == reading = {} /\ ~Writing

Scanning == {"pushSleeping", "pushAny", "weak", "steal"}

\* Somebody else holds the lock or is queued for it, so that try_acquire may
\* fail.  One failure is enough: `if (--try_count) return false' gives up at once.
Contended(p) ==
  \/ \E q \in Actors \ {p} :
       q \in reading \/ pc[q] \in {"insert", "insertTemporary", "wakeAll", "waitScan"}
  \/ timer_ = "erase"
  \/ phase \in {"lock", "stop", "join"}

HasRoom(w) == Len(taskQueue_[w]) < QueueCapacity

\* The predicate with which each caller of RandFind looks for a worker.
Fits(p, w) ==
  CASE pc[p] = "pushSleeping" -> isWaitTask_(w) /\ HasRoom(w)
    [] pc[p] = "pushAny"      -> HasRoom(w)
    [] pc[p] = "weak"         -> isWaitTask_(w)
    [] pc[p] = "steal"        -> taskQueue_[w] # <<>>

ScanBegin(p) ==
  /\ pc[p] \in Scanning
  /\ p \notin reading
  /\ LockFree
  /\ reading' = reading \cup {p}
  /\ scan' = [scan EXCEPT ![p] = workers_]
  /\ UNCHANGED <<queues, cv_, noTaskCv_, pc, call, running, ledger, calm>>

\* The visited worker does not fit.
ScanSkip(p) ==
  /\ pc[p] \in Scanning
  /\ \E w \in scan[p] :
       ~Fits(p, w) /\ scan' = [scan EXCEPT ![p] = @ \ {w}]
  /\ UNCHANGED <<queues, reading, cv_, noTaskCv_, pc, call, running, ledger, calm>>

ScanEnd(p) ==
  /\ reading' = reading \ {p}
  /\ scan' = [scan EXCEPT ![p] = {}]

\* RandFind returns true with w, or false.
Found(p, w) == w \in scan[p] /\ Fits(p, w) /\ ScanEnd(p)
NotFound(p) ==
  /\ IF p \in reading THEN scan[p] = {} ELSE Contended(p)
  /\ ScanEnd(p)

-----------------------------------------------------------------------------
(* AddTask, called by a submitter or by a task that runs on a worker *)

\* Nobody outside uses a pool whose destruction has begun.
Submit(p, t) ==
  /\ \/ p \in Submitters /\ pc[p] = "idle" /\ phase = "open"
     \/ p \in Workers /\ pc[p] = "run" /\ running[p] \in Spawning
  /\ t \notin submitted
  /\ submitted' = submitted \cup {t}
  /\ item' = [item EXCEPT ![p] = t]
  /\ Goto(p, "add")
  /\ UNCHANGED <<queues, lock, cv_, noTaskCv_, grow, target, running, done, calm>>

\* AddTask reads the number of workers without the lock, once ...
ChooseBranch(p) ==
  /\ pc[p] = "add"
  /\ Goto(p, IF Cardinality(workers_) < coreThreadSize_ THEN "create" ELSE "room")
  /\ UNCHANGED <<queues, lock, cv_, noTaskCv_, call, running, ledger, calm>>

\* ... and once more.
TestRoom(p) ==
  /\ pc[p] = "room"
  /\ grow' = [grow EXCEPT ![p] = Cardinality(workers_) \in coreThreadSize_ .. maxThreadSize_ - 1]
  /\ Goto(p, "push")
  /\ UNCHANGED <<queues, lock, cv_, noTaskCv_, item, target, running, ledger, calm>>

\* A Worker is constructed, and with it its thread, before others can find it.
CreateWorker(p) ==
  /\ pc[p] \in {"create", "createTemporary"}
  /\ \E w \in Workers :
       /\ pc[w] = "none"
       /\ target' = [target EXCEPT ![p] = w]
       /\ pc' = [pc EXCEPT ![w] = "loop",
                           ![p] = IF pc[p] = "create" THEN "insert"
                                  ELSE "insertTemporary"]
  /\ UNCHANGED <<queues, lock, cv_, noTaskCv_, item, grow, running, ledger, calm>>

AddWorker(p) ==
  /\ pc[p] \in {"insert", "insertTemporary"}
  /\ LockFree
  /\ workers_' = workers_ \cup {target[p]}
  /\ Goto(p, IF pc[p] = "insert" THEN "give" ELSE "timerTest")
  /\ UNCHANGED <<queues, lock, stop_, cv_, noTaskCv_, call, running, ledger,
                 timer, phase, aborted>>

\* The task in p's hand goes to w's own queue, and w is notified.
PushTo(p, w) ==
  /\ taskQueue_' = [taskQueue_ EXCEPT ![w] = Append(@, item[p])]
  /\ item' = [item EXCEPT ![p] = None]
  /\ cv_' = cv_ \ {w}
  /\ UNCHANGED tasksQueue_

\* AddTask of the new worker blocks while its queue is full.
Give(p) ==
  /\ pc[p] = "give"
  /\ HasRoom(target[p])
  /\ PushTo(p, target[p])
  /\ Goto(p, Resume(p))
  /\ target' = [target EXCEPT ![p] = None]
  /\ UNCHANGED <<lock, noTaskCv_, grow, running, ledger, calm>>

\* RandPushTaskToWorker looks for a sleeping worker only if there is one.
CountSleeping(p) ==
  /\ pc[p] = "push"
  /\ Goto(p, IF sleepWorkerSize_ > 0 THEN "pushSleeping" ELSE "pushAny")
  /\ UNCHANGED <<queues, lock, cv_, noTaskCv_, call, running, ledger, calm>>

\* Mutant: AddTask looks for a worker with room until it has found one.
PushToWorkerInsists(p) ==
  /\ pc[p] \in {"pushSleeping", "pushAny"}
  /\ \/ \E w \in scan[p] :
          Found(p, w) /\ PushTo(p, w) /\ Goto(p, Resume(p))
     \/ /\ NotFound(p)
        /\ Goto(p, "pushAny")
        /\ UNCHANGED <<queues, item, cv_>>
  /\ UNCHANGED <<noTaskCv_, grow, target, running, ledger, calm>>

PushToWorker(p) ==
  /\ pc[p] \in {"pushSleeping", "pushAny"}
  /\ \/ \E w \in scan[p] :
          Found(p, w) /\ PushTo(p, w) /\ Goto(p, Resume(p))
     \/ /\ NotFound(p)
        /\ Goto(p, IF pc[p] = "pushSleeping" THEN "pushAny" ELSE "enqueue")
        /\ UNCHANGED <<queues, item, cv_>>
  /\ UNCHANGED <<noTaskCv_, grow, target, running, ledger, calm>>

\* With all its workers created, the pool queues the task and wakes nobody.
Enqueue(p) ==
  /\ pc[p] = "enqueue"
  /\ tasksQueue_' = Append(tasksQueue_, item[p])
  /\ item' = [item EXCEPT ![p] = None]
  /\ Goto(p, IF grow[p] THEN "countWeak" ELSE Resume(p))
  /\ UNCHANGED <<taskQueue_, lock, cv_, noTaskCv_, grow, target, running, ledger, calm>>

\* WeakRandomWoker wakes a sleeping worker, if it finds one.
CountWeak(p) ==
  /\ pc[p] = "countWeak"
  /\ Goto(p, IF sleepWorkerSize_ > 0 THEN "weak" ELSE "backlog")
  /\ UNCHANGED <<queues, lock, cv_, noTaskCv_, call, running, ledger, calm>>

WeakRandomWoker(p) ==
  /\ pc[p] = "weak"
  /\ \/ \E w \in scan[p] :
          Found(p, w) /\ cv_' = cv_ \ {w} /\ Goto(p, Resume(p))
     \/ NotFound(p) /\ Goto(p, "backlog") /\ UNCHANGED cv_
  /\ UNCHANGED <<queues, noTaskCv_, call, running, ledger, calm>>

TestBacklog(p) ==
  /\ pc[p] = "backlog"
  /\ Goto(p, IF Len(tasksQueue_) > BacklogLimit THEN "createTemporary" ELSE Resume(p))
  /\ UNCHANGED <<queues, lock, cv_, noTaskCv_, call, running, ledger, calm>>

\* timer_ is tested and set without a lock.
TestTimer(p) ==
  /\ pc[p] = "timerTest"
  /\ Goto(p, IF timer_ = "absent" THEN "timerNew" ELSE "keepAlive")
  /\ UNCHANGED <<queues, lock, cv_, noTaskCv_, call, running, ledger, calm>>

\* Setting timer_ a second time destroys a TimerWorker whose thread runs.
NewTimer(p) ==
  /\ pc[p] = "timerNew"
  /\ IF timer_ = "absent"
     THEN timer_' = "idle" /\ Goto(p, "keepAlive") /\ UNCHANGED aborted
     ELSE aborted' = TRUE /\ UNCHANGED <<timer_, pc>>
  /\ UNCHANGED <<queues, workers_, lock, stop_, cv_, noTaskCv_, call, running,
                 ledger, checked, keepAlive, phase>>

\* The check is a period task that nothing removes: the lambda is passed as an
\* lvalue std::function, so that AddPeriodTask(Task&&) is called, whose wrapper
\* returns true whatever the check returns.  It holds the worker, too.
AddKeepAlive(p) ==
  /\ pc[p] = "keepAlive"
  /\ keepAlive' = keepAlive \cup {target[p]}
  /\ target' = [target EXCEPT ![p] = None]
  /\ Goto(p, Resume(p))
  /\ UNCHANGED <<queues, workers_, lock, stop_, cv_, noTaskCv_, item, grow,
                 running, ledger, timer_, checked, phase, aborted>>

-----------------------------------------------------------------------------
(* Worker::Run *)

\* Mutant: Run does not test stop_.
TestStopIgnored(w) ==
  /\ pc[w] = "loop"
  /\ Goto(w, "own")
  /\ UNCHANGED <<queues, lock, cv_, noTaskCv_, call, running, ledger, calm>>

\* Mutant: a stopped worker ends at once, with its tasks in its queue.
TestStopNoDrain(w) ==
  /\ pc[w] = "loop"
  /\ Goto(w, IF stop_[w] THEN "exited" ELSE "own")
  /\ UNCHANGED <<queues, lock, cv_, noTaskCv_, call, running, ledger, calm>>

TestStop(w) ==
  /\ pc[w] = "loop"
  /\ Goto(w, IF stop_[w] THEN "drain" ELSE "own")
  /\ UNCHANGED <<queues, lock, cv_, noTaskCv_, call, running, ledger, calm>>

Take(w, t) == running' = [running EXCEPT ![w] = t] /\ Goto(w, "run")

\* w takes the first task of v's queue.
TakeFrom(w, v) ==
  /\ Take(w, Head(taskQueue_[v]))
  /\ taskQueue_' = [taskQueue_ EXCEPT ![v] = Tail(@)]
  /\ UNCHANGED <<tasksQueue_, noTaskCv_>>

PopOwn(w) ==
  /\ pc[w] = "own"
  /\ \/ taskQueue_[w] # <<>> /\ TakeFrom(w, w)
     \/ /\ taskQueue_[w] = <<>>
        /\ Goto(w, "shared")
        /\ UNCHANGED <<queues, noTaskCv_, running>>
  /\ UNCHANGED <<lock, cv_, call, ledger, calm>>

\* TryGetTask tries the shared queue, and tells Wait when it becomes empty.
PopShared(w) ==
  /\ pc[w] = "shared"
  /\ \/ /\ tasksQueue_ # <<>>
        /\ Take(w, Head(tasksQueue_))
        /\ tasksQueue_' = Tail(tasksQueue_)
        /\ noTaskCv_' = IF Tail(tasksQueue_) = <<>> THEN {} ELSE noTaskCv_
     \/ /\ tasksQueue_ = <<>>
        /\ Goto(w, "steal")
        /\ UNCHANGED <<tasksQueue_, noTaskCv_, running>>
  /\ UNCHANGED <<taskQueue_, lock, cv_, call, ledger, calm>>

\* Mutant: a stolen task stays in the queue it was stolen from.
StealCopy(w) ==
  /\ pc[w] = "steal"
  /\ \/ \E v \in scan[w] :
          /\ Found(w, v)
          /\ Take(w, Head(taskQueue_[v]))
          /\ UNCHANGED noTaskCv_
     \/ NotFound(w) /\ noTaskCv_' = {} /\ Goto(w, "enter") /\ UNCHANGED running
  /\ UNCHANGED <<queues, cv_, call, ledger, calm>>

\* ... then the queues of the workers it can find.
Steal(w) ==
  /\ pc[w] = "steal"
  /\ \/ \E v \in scan[w] : Found(w, v) /\ TakeFrom(w, v)
     \/ /\ NotFound(w)
        /\ noTaskCv_' = {}
        /\ Goto(w, "enter")
        /\ UNCHANGED <<queues, running>>
  /\ UNCHANGED <<cv_, call, ledger, calm>>

\* cv_.wait without a predicate: what was pushed, or stopped, since the worker
\* looked has been notified already.
EnterSleep(w) ==
  /\ pc[w] = "enter"
  /\ Goto(w, "sleep")
  /\ cv_' = cv_ \cup {w}
  /\ UNCHANGED <<queues, lock, noTaskCv_, call, running, ledger, calm>>

WakeUp(w) ==
  /\ pc[w] = "sleep"
  /\ w \notin cv_
  /\ Goto(w, "loop")
  /\ UNCHANGED <<queues, lock, cv_, noTaskCv_, call, running, ledger, calm>>

\* A task returns or throws; Run does not care which.
FinishTask(w) ==
  /\ pc[w] = "run"
  /\ done' = done \cup {running[w]}
  /\ running' = [running EXCEPT ![w] = None]
  /\ Goto(w, "loop")
  /\ UNCHANGED <<queues, lock, cv_, noTaskCv_, call, submitted, calm>>

\* Mutant: a stopped worker does not give its tasks back.
DrainNothing(w) ==
  /\ pc[w] = "drain"
  /\ \/ /\ taskQueue_[w] # <<>>
        /\ taskQueue_' = [taskQueue_ EXCEPT ![w] = Tail(@)]
        /\ UNCHANGED <<tasksQueue_, pc>>
     \/ /\ taskQueue_[w] = <<>>
        /\ Goto(w, "exited")
        /\ UNCHANGED queues
  /\ UNCHANGED <<lock, cv_, noTaskCv_, call, running, ledger, calm>>

\* A stopped worker returns its tasks to the shared queue, and wakes nobody.
Drain(w) ==
  /\ pc[w] = "drain"
  /\ \/ /\ taskQueue_[w] # <<>>
        /\ tasksQueue_' = Append(tasksQueue_, Head(taskQueue_[w]))
        /\ taskQueue_' = [taskQueue_ EXCEPT ![w] = Tail(@)]
        /\ UNCHANGED pc
     \/ /\ taskQueue_[w] = <<>>
        /\ Goto(w, "exited")
        /\ UNCHANGED queues
  /\ UNCHANGED <<lock, cv_, noTaskCv_, call, running, ledger, calm>>

-----------------------------------------------------------------------------
(* The keep-alive check that the timer thread runs for a temporary worker *)

quiet == <<queues, lock, noTaskCv_, call, running, ledger, phase, aborted>>

\* The check is due.  A worker with a task, and not stopped, is kept; one that
\* was stopped is stopped, erased and joined again, which changes nothing.
CheckKeepAlive(w) ==
  /\ timer_ = "idle"
  /\ w \in keepAlive
  /\ taskQueue_[w] = <<>> \/ stop_[w]
  /\ timer_' = "stop"
  /\ checked' = w
  /\ UNCHANGED <<quiet, workers_, stop_, cv_, pc, keepAlive>>

StopChecked ==
  /\ timer_ = "stop"
  /\ stop_' = [stop_ EXCEPT ![checked] = TRUE]
  /\ cv_' = cv_ \ {checked}
  /\ timer_' = "erase"
  /\ UNCHANGED <<quiet, workers_, pc, checked, keepAlive>>

\* Mutant: DestoryWorker erases without workerMtx_.
EraseUnlocked ==
  /\ timer_ = "erase"
  /\ workers_' = workers_ \ {checked}
  /\ timer_' = "join"
  /\ UNCHANGED <<quiet, stop_, cv_, pc, checked, keepAlive>>

\* DestoryWorker: the worker can no longer be found ...
EraseChecked ==
  /\ timer_ = "erase"
  /\ LockFree
  /\ workers_' = workers_ \ {checked}
  /\ timer_' = "join"
  /\ UNCHANGED <<quiet, stop_, cv_, pc, checked, keepAlive>>

\* ... and its thread has ended.  The check, and so the Worker, stays with the
\* timer.
JoinChecked ==
  /\ timer_ = "join"
  /\ pc[checked] = "exited"
  /\ timer_' = "idle"
  /\ checked' = None
  /\ UNCHANGED <<quiet, workers_, stop_, cv_, pc, keepAlive>>

-----------------------------------------------------------------------------
(* DestoryPool, called by the destructor of the pool *)

still == <<queues, workers_, noTaskCv_, call, running, ledger, aborted>>

\* The owner lets every call from outside return first.
BeginDestory ==
  /\ phase = "open"
  /\ \A p \in Submitters \cup Waiters : pc[p] = "idle"
  /\ phase' = IF timer_ = "absent" THEN "lock" ELSE "stopTimer"
  /\ UNCHANGED <<still, lock, stop_, cv_, pc, timer>>

\* Mutant: DestoryPool does not wait for the check the timer thread is in.
StopTimerNoJoin ==
  /\ phase = "stopTimer"
  /\ timer_' = "stopped"
  /\ phase' = "lock"
  /\ UNCHANGED <<still, lock, stop_, cv_, pc, checked, keepAlive>>

\* TimerWorker::Stop joins the timer thread, which finishes its check first.
StopTimer ==
  /\ phase = "stopTimer"
  /\ timer_ = "idle"
  /\ timer_' = "stopped"
  /\ phase' = "lock"
  /\ UNCHANGED <<still, lock, stop_, cv_, pc, checked, keepAlive>>

LockPool ==
  /\ phase = "lock"
  /\ LockFree
  /\ phase' = "stop"
  /\ UNCHANGED <<still, lock, stop_, cv_, pc, timer>>

\* Every worker is stopped, one after the other, before any is joined.
StopWorker(w) ==
  /\ phase = "stop"
  /\ w \in workers_
  /\ ~stop_[w]
  /\ stop_' = [stop_ EXCEPT ![w] = TRUE]
  /\ cv_' = cv_ \ {w}
  /\ UNCHANGED <<still, lock, pc, timer, phase>>

BeginJoin ==
  /\ phase = "stop"
  /\ \A w \in workers_ : stop_[w]
  /\ phase' = "join"
  /\ UNCHANGED <<still, lock, stop_, cv_, pc, timer>>

\* When all threads have ended the lock is released and the pool destroyed.
JoinWorkers ==
  /\ phase = "join"
  /\ \A w \in workers_ : pc[w] = "exited"
  /\ phase' = "destroyed"
  /\ UNCHANGED <<still, lock, stop_, cv_, pc, timer>>

-----------------------------------------------------------------------------
(* Wait: noTaskCv_.wait with a predicate, under a lock that locks nothing *)

rest == <<queues, call, running, ledger, calm>>

BeginWait(c) ==
  /\ pc[c] = "idle" /\ phase = "open"
  /\ Goto(c, "waitTest")
  /\ UNCHANGED <<rest, lock, cv_, noTaskCv_>>

WaitTest(c) ==
  /\ pc[c] = "waitTest"
  /\ Goto(c, IF tasksQueue_ # <<>> THEN "wakeAll" ELSE "waitScan")
  /\ UNCHANGED <<rest, lock, cv_, noTaskCv_>>

\* WeakAllWorker, after which the predicate is false.
WeakAllWorker(c) ==
  /\ pc[c] = "wakeAll"
  /\ ~Writing
  /\ cv_' = cv_ \ workers_
  /\ Goto(c, "waitEnter")
  /\ UNCHANGED <<rest, lock, noTaskCv_>>

WaitScanBegin(c) ==
  /\ pc[c] = "waitScan"
  /\ ~Writing
  /\ reading' = reading \cup {c}
  /\ scan' = [scan EXCEPT ![c] = workers_]
  /\ Goto(c, "waitClean")
  /\ UNCHANGED <<rest, cv_, noTaskCv_>>

\* A worker that has tasks is woken, and makes the predicate false.
WaitVisit(c) ==
  /\ pc[c] \in {"waitClean", "waitDirty"}
  /\ \E w \in scan[c] :
       /\ scan' = [scan EXCEPT ![c] = @ \ {w}]
       /\ IF taskQueue_[w] # <<>>
          THEN cv_' = cv_ \ {w} /\ Goto(c, "waitDirty")
          ELSE UNCHANGED <<cv_, pc>>
  /\ UNCHANGED <<rest, reading, noTaskCv_>>

WaitScanEnd(c) ==
  /\ pc[c] \in {"waitClean", "waitDirty"}
  /\ scan[c] = {}
  /\ ScanEnd(c)
  /\ Goto(c, IF pc[c] = "waitClean" THEN "idle" ELSE "waitEnter")
  /\ UNCHANGED <<rest, cv_, noTaskCv_>>

WaitEnter(c) ==
  /\ pc[c] = "waitEnter"
  /\ Goto(c, "waitSleep")
  /\ noTaskCv_' = noTaskCv_ \cup {c}
  /\ UNCHANGED <<rest, lock, cv_>>

WaitWake(c) ==
  /\ pc[c] = "waitSleep"
  /\ c \notin noTaskCv_
  /\ Goto(c, "waitTest")
  /\ UNCHANGED <<rest, lock, cv_, noTaskCv_>>

-----------------------------------------------------------------------------

\* A condition variable may wake a thread that nobody notified.
SpuriousWakeup(p) ==
  /\ \/ p \in cv_ /\ cv_' = cv_ \ {p} /\ UNCHANGED noTaskCv_
     \/ p \in noTaskCv_ /\ noTaskCv_' = noTaskCv_ \ {p} /\ UNCHANGED cv_
  /\ UNCHANGED <<rest, lock, pc>>

\* Who may call AddTask.
Callers == Submitters \cup (IF Spawning = {} THEN {} ELSE Workers)

\* The steps of an iteration, for whichever caller.
RandFind(p) == ScanBegin(p) \/ ScanSkip(p)

\* What p does inside AddTask.
AddTask(p) ==
  \/ ChooseBranch(p) \/ TestRoom(p)
  \/ CreateWorker(p) \/ AddWorker(p) \/ Give(p)
  \/ CountSleeping(p) \/ PushToWorker(p) \/ Enqueue(p)
  \/ CountWeak(p) \/ WeakRandomWoker(p) \/ TestBacklog(p)
  \/ TestTimer(p) \/ NewTimer(p) \/ AddKeepAlive(p)
  \/ RandFind(p)

Run(w) ==
  \/ TestStop(w) \/ PopOwn(w) \/ PopShared(w) \/ Steal(w) \/ RandFind(w)
  \/ EnterSleep(w) \/ WakeUp(w) \/ FinishTask(w) \/ Drain(w)

Wait(c) ==
  \/ WaitTest(c) \/ WeakAllWorker(c) \/ WaitScanBegin(c) \/ WaitVisit(c)
  \/ WaitScanEnd(c) \/ WaitEnter(c) \/ WaitWake(c)

Timer == StopChecked \/ EraseChecked \/ JoinChecked

DestoryPool ==
  \/ StopTimer \/ LockPool \/ BeginJoin \/ JoinWorkers
  \/ \E w \in Workers : StopWorker(w)

\* The steps of threads that have something to do.
ThreadStep ==
  \/ \E p \in Callers : AddTask(p)
  \/ \E w \in Workers : Run(w)
  \/ \E c \in Waiters : Wait(c)
  \/ Timer
  \/ DestoryPool

\* What the program and the passing of time may begin.
Event ==
  \/ \E p \in Callers, t \in Tasks : Submit(p, t)
  \/ \E c \in Waiters : BeginWait(c)
  \/ \E w \in Workers : CheckKeepAlive(w)
  \/ BeginDestory
  \/ \E p \in Workers \cup Waiters : SpuriousWakeup(p)

Next == ~aborted /\ (ThreadStep \/ Event)

Spec == Init /\ [][Next]_vars

\* Threads run, and tasks end.  A writer that is queued on workerMtx_ gets it:
\* the mutex serves its queue in order (tbb::queuing_rw_mutex).  The timer
\* thread tests before every check whether it was stopped.
Fairness ==
  /\ \A p \in Callers :
       WF_vars(~aborted /\ AddTask(p)) /\ SF_vars(~aborted /\ AddWorker(p))
  /\ \A w \in Workers : WF_vars(~aborted /\ Run(w))
  /\ \A c \in Waiters : WF_vars(~aborted /\ Wait(c))
  /\ WF_vars(~aborted /\ Timer) /\ SF_vars(~aborted /\ EraseChecked)
  /\ WF_vars(~aborted /\ DestoryPool)
  /\ SF_vars(~aborted /\ StopTimer) /\ SF_vars(~aborted /\ LockPool)

FairSpec == Spec /\ Fairness

-----------------------------------------------------------------------------
(* Properties *)

TypeOK ==
  /\ tasksQueue_ \in Seq(Tasks)
  /\ taskQueue_ \in [Workers -> Seq(Tasks)]
  /\ workers_ \in SUBSET Workers
  /\ reading \in SUBSET Actors
  /\ scan \in [Actors -> SUBSET Workers]
  /\ stop_ \in [Workers -> BOOLEAN]
  /\ cv_ \in SUBSET Workers
  /\ noTaskCv_ \in SUBSET Waiters
  /\ DOMAIN pc = Actors
  /\ item \in [Actors -> Tasks \cup {None}]
  /\ grow \in [Actors -> BOOLEAN]
  /\ target \in [Actors -> Workers \cup {None}]
  /\ running \in [Workers -> Tasks \cup {None}]
  /\ submitted \in SUBSET Tasks /\ done \in SUBSET Tasks
  /\ timer_ \in {"absent", "idle", "stop", "erase", "join", "stopped"}
  /\ checked \in Workers \cup {None}
  /\ keepAlive \in SUBSET Workers
  /\ phase \in {"open", "stopTimer", "lock", "stop", "join", "destroyed"}
  /\ aborted \in BOOLEAN

\* A worker that ended after its keep-alive check had erased it: nobody can take
\* a task out of its queue any more.
OutOfReach(w) == w \notin workers_ /\ pc[w] = "exited"

\* The places of task t: the shared queue, the queues of the workers, the hand
\* of a thread that carries it, and the worker that runs it.
SharedPlaces(t) == {<<"shared", i>> : i \in {j \in DOMAIN tasksQueue_ : tasksQueue_[j] = t}}
QueuePlaces(t) ==
  UNION {{<<w, i>> : i \in {j \in DOMAIN taskQueue_[w] : taskQueue_[w][j] = t}}
           : w \in {v \in Workers : ~OutOfReach(v)}}
HandPlaces(t) == {<<"hand", p>> : p \in {q \in Actors : item[q] = t}}
RunPlaces(t) == {<<"run", w>> : w \in {v \in Workers : running[v] = t}}

Places(t) == SharedPlaces(t) \cup QueuePlaces(t) \cup HandPlaces(t) \cup RunPlaces(t)

\* Pushed to a temporary worker after it had drained its queue, t is lost: this
\* is what the run pool_assert shows of ThreadPool.h:679.
Stranded(t) ==
  \E w \in keepAlive : OutOfReach(w) /\ \E i \in DOMAIN taskQueue_[w] : taskQueue_[w][i] = t

\* A task that was submitted is in one place where somebody can take it until
\* it is done, and in none after that: submitting, stealing, falling back from a
\* full queue and draining a stopped worker neither lose a task nor double it.
\* The one exception is a task that is stranded, which is in no other place.
TasksConserved ==
  \A t \in Tasks :
    IF t \in submitted \ done
    THEN Cardinality(Places(t)) = 1 \/ (Stranded(t) /\ Places(t) = {})
    ELSE Places(t) = {} /\ ~Stranded(t)

\* Nobody looks at workers_ while it changes: an iteration of RandFind or Wait
\* never holds a worker that was erased meanwhile.
ScansStayValid == \A p \in reading : scan[p] \subseteq workers_

\* A writer excludes every reader and DestoryPool: workers_ changes only when
\* nobody iterates over it.
NoChangeUnderReader ==
  [][workers_' # workers_ => reading = {} /\ phase \notin {"stop", "join"}]_vars

\* AddTask tests the number of workers without the lock, so that more than
\* maxThreadSize_ may come to exist: at most one more per concurrent AddTask.
Limit == IF coreThreadSize_ > maxThreadSize_ THEN coreThreadSize_ ELSE maxThreadSize_

ThreadsBounded == Cardinality(workers_) <= Limit + Cardinality(Callers) - 1

\* When DestoryPool returns no worker thread is left, not even one that a
\* running task was about to add.  The exception is a task that created the
\* timer after DestoryPool had looked for it: nobody stops that timer.
AllJoined ==
  phase = "destroyed" /\ timer_ \in {"absent", "stopped"}
    => \A w \in Workers : pc[w] \in {"none", "exited"}

\* The assertion of ~Worker (ThreadPool.h:300-303) for the workers that
\* DestoryPool joins, as long as no task was submitted that may submit others:
\* each of them has emptied its queue.
CoreDrained ==
  phase = "destroyed" /\ submitted \cap Spawning = {}
    => \A w \in workers_ : taskQueue_[w] = <<>>

\* The tasks go through the states of TaskBag.
Bag ==
  INSTANCE TaskBag WITH
    status <- [t \in Tasks |->
                 IF \E w \in Workers : running[w] = t THEN "running"
                 ELSE IF t \in done THEN "done"
                 ELSE IF t \in submitted THEN "waiting"
                 ELSE "new"]

\* WorkerPool implements TaskBag: no interleaving of workers, thieves and
\* submitters starts a task twice.
TaskBagSpec == Bag!Spec

\* AddTask waits in p, or cannot go on: for room in the queue of the worker it
\* created, which another AddTask filled while that worker slept; or for
\* workerMtx_ while DestoryPool holds it and joins.  (The instance may run out of
\* Worker objects, which the program does not.)
Stuck(p) ==
  \/ pc[p] = "give" /\ ~HasRoom(target[p])
  \/ pc[p] \in {"insert", "insertTemporary"} /\ Writing
  \/ pc[p] \in {"create", "createTemporary"} /\ \A w \in Workers : pc[w] # "none"
  \/ aborted

\* A task in the queue of a worker that is busy is not left behind: the worker
\* looks at its queue before it sleeps, and returns what is there when stopped.
\* The exception is a worker whose task called AddTask and waits in it for ever.
BusyWorkerKeepsUp ==
  \A w \in Workers, t \in Tasks :
    (pc[w] \in {"run", "loop"} /\ \E i \in DOMAIN taskQueue_[w] : taskQueue_[w][i] = t)
      ~> (~(\E i \in DOMAIN taskQueue_[w] : taskQueue_[w][i] = t) \/ []Stuck(w))

\* A worker that is stopped while it runs a task, or before it has looked for
\* one, ends, with the same exception.  An idle worker may miss the notification
\* of Stop and sleep on (ThreadPool.h:320).
BusyWorkerStops ==
  \A w \in Workers :
    (pc[w] \in {"run", "loop"} /\ stop_[w]) ~> (pc[w] = "exited" \/ []Stuck(w))

\* AddTask of a submitter returns, unless it waits for ever as Stuck says.
AddTaskReturns ==
  \A p \in Submitters : pc[p] = "add" ~> (pc[p] = "idle" \/ []Stuck(p))

\* The comment on maxThreadSize_ (ThreadPool.h:595): the largest number of
\* threads.  The code breaks it.
MaxThreads == Cardinality(workers_) <= maxThreadSize_

\* The assertion of ~Worker (ThreadPool.h:300-303): a worker that is destroyed
\* has an empty queue.  Workers live as long as the pool, those that a keep-alive
\* check has ended because the check, which timer_ keeps, holds them.  The code
\* breaks it.
DestroyedEmpty ==
  phase = "destroyed" => \A w \in Workers : taskQueue_[w] = <<>>

\* What FutureTest.cpp:84-86 asserts: a task that was submitted runs, without
\* further calls from outside and before the pool is destroyed.  The code
\* breaks it.
SubmittedRuns ==
  \A t \in Tasks : t \in submitted ~> (t \in done \/ phase # "open")
=============================================================================
