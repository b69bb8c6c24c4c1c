---------------------------- MODULE TimerWorker ----------------------------
(***************************************************************************)
(* v2::detail::TimerWorker (ThreadPool.h:334-572): the thread on which the *)
(* pool runs its keep-alive checks and a program its delayed tasks.        *)
(*                                                                         *)
(* Each timer has a client, which adds it, may remove it, and does so      *)
(* concurrently with the timer thread and with the other clients.          *)
(* timerQueue_ is a vector that push_heap and pop_heap arrange.  They are  *)
(* modelled by their contract: on a heap any arrangement the contract      *)
(* allows, on a vector that is no heap any arrangement at all, except that *)
(* pop_heap always moves the first element to the end.                     *)
(***************************************************************************)
EXTENDS Naturals, Sequences, FiniteSets

CONSTANTS
  Timers,
  FirstPoint,    \* when each timer is due for the first time
  delay,         \* its period, 0 for a timer that is due once
  LastTick,      \* bound on the clock
  None           \* no timer

ASSUME TimersAssumption ==
  /\ IsFiniteSet(Timers) /\ None \notin Timers
  /\ FirstPoint \in [Timers -> Nat] /\ delay \in [Timers -> Nat]
  /\ LastTick \in Nat

VARIABLES
  clock,
  memoryTimers_,  \* the timers that are known by their handle
  timerQueue_,    \* the vector that should be a heap
  point,          \* per timer: when it is due next
  inTimerQueue,   \* per timer: the flag RemoveTask looks at
  stop,           \* per timer: the flag Run looks at
  stop_,          \* has Stop been called?
  asleep,         \* is the timer thread asleep on cv_?
  pc,             \* where the timer thread is
  now,            \* when it last looked at the clock
  task,           \* the timer in its hand
  client,         \* per timer: where its client is
  late,           \* per timer: how often it ran after RemoveTask returned
  corrupt         \* was an iterator used that another thread had erased?

flags == <<point, inTimerQueue, stop>>
thread == <<asleep, pc, now, task>>
vars == <<clock, memoryTimers_, timerQueue_, flags, stop_, thread, client, late, corrupt>>

Init ==
  /\ clock = 0
  /\ memoryTimers_ = {}
  /\ timerQueue_ = <<>>
  /\ point = FirstPoint
  /\ inTimerQueue = [t \in Timers |-> FALSE]
  /\ stop = [t \in Timers |-> FALSE]
  /\ stop_ = FALSE
  /\ asleep = FALSE
  /\ pc = "loop"
  /\ now = 0
  /\ task = None
  /\ client = [t \in Timers |-> "none"]
  /\ late = [t \in Timers |-> 0]
  /\ corrupt = FALSE

-----------------------------------------------------------------------------
(* Vectors and heaps *)

Elements(q) == {q[i] : i \in DOMAIN q}

Arrangements(S) ==
  {q \in [1 .. Cardinality(S) -> S] : \A i, j \in DOMAIN q : q[i] = q[j] => i = j}

\* TimerTaskImpl::less puts the latest timer first.
IsHeap(q, due) == \A i \in 2 .. Len(q) : due[q[i]] <= due[q[i \div 2]]

\* What push_heap makes of q after t was pushed back.
PushHeap(q, t, due) ==
  {r \in Arrangements(Elements(q) \cup {t}) : IsHeap(q, due) => IsHeap(r, due)}

\* What pop_heap makes of q: its first element is the last one now.
PopHeap(q, due) ==
  {Append(r, Head(q)) :
     r \in {s \in Arrangements(Elements(q) \ {Head(q)}) : IsHeap(q, due) => IsHeap(s, due)}}

\* q after the first t in it was erased, if there is one (find_if, erase).
Without(q, t) ==
  IF t \notin Elements(q) THEN q
  ELSE LET i == CHOOSE i \in DOMAIN q : q[i] = t /\ \A j \in 1 .. i - 1 : q[j] # t
       IN  SubSeq(q, 1, i - 1) \o SubSeq(q, i + 1, Len(q))

-----------------------------------------------------------------------------
(* AddTask, by the client of t *)

Goto(t, l) == client' = [client EXCEPT ![t] = l]

AddHandle(t) ==
  /\ client[t] = "none"
  /\ memoryTimers_' = memoryTimers_ \cup {t}
  /\ Goto(t, "push")
  /\ UNCHANGED <<clock, timerQueue_, flags, stop_, thread, late, corrupt>>

\* Mutant: AddTask does not notify the timer thread.
AddToQueueSilently(t) ==
  /\ client[t] = "push"
  /\ inTimerQueue' = [inTimerQueue EXCEPT ![t] = TRUE]
  /\ timerQueue_' \in PushHeap(timerQueue_, t, point)
  /\ Goto(t, "added")
  /\ UNCHANGED <<clock, memoryTimers_, point, stop, stop_, thread, late, corrupt>>

AddToQueue(t) ==
  /\ client[t] = "push"
  /\ inTimerQueue' = [inTimerQueue EXCEPT ![t] = TRUE]
  /\ timerQueue_' \in PushHeap(timerQueue_, t, point)
  /\ asleep' = FALSE
  /\ Goto(t, "added")
  /\ UNCHANGED <<clock, memoryTimers_, point, stop, stop_, pc, now, task, late, corrupt>>

-----------------------------------------------------------------------------
(* RemoveTask, by the client of t or by the timer thread *)

\* The iterator found under the reader lock is erased under the writer lock,
\* which upgrade_to_writer may give to another thread first.
Erase(t) ==
  /\ memoryTimers_' = memoryTimers_ \ {t}
  /\ corrupt' = (t \notin memoryTimers_)

FindHandle(t) ==
  /\ client[t] = "added"
  /\ Goto(t, IF t \in memoryTimers_ THEN "erase" ELSE "removed")
  /\ UNCHANGED <<clock, memoryTimers_, timerQueue_, flags, stop_, thread, late, corrupt>>

EraseHandle(t) ==
  /\ client[t] = "erase"
  /\ Erase(t)
  /\ Goto(t, "stop")
  /\ UNCHANGED <<clock, timerQueue_, flags, stop_, thread, late>>

\* Mutant: RemoveTask does not raise stop.
StopTaskForgotten(t) ==
  /\ client[t] = "stop"
  /\ Goto(t, "test")
  /\ UNCHANGED <<clock, memoryTimers_, timerQueue_, flags, stop_, thread, late, corrupt>>

StopTask(t) ==
  /\ client[t] = "stop"
  /\ stop' = [stop EXCEPT ![t] = TRUE]
  /\ Goto(t, "test")
  /\ UNCHANGED <<clock, memoryTimers_, timerQueue_, point, inTimerQueue, stop_,
                 thread, late, corrupt>>

TestQueued(t) ==
  /\ client[t] = "test"
  /\ Goto(t, IF inTimerQueue[t] THEN "dequeue" ELSE "removed")
  /\ UNCHANGED <<clock, memoryTimers_, timerQueue_, flags, stop_, thread, late, corrupt>>

\* Mutant: the last timer of the vector is erased, whichever it is.
DequeueLast(t) ==
  /\ client[t] = "dequeue"
  /\ timerQueue_' = IF t \in Elements(timerQueue_)
                    THEN SubSeq(timerQueue_, 1, Len(timerQueue_) - 1) ELSE timerQueue_
  /\ Goto(t, "removed")
  /\ UNCHANGED <<clock, memoryTimers_, flags, stop_, thread, late, corrupt>>

\* The timer is erased from the middle of the vector; nothing restores the heap.
Dequeue(t) ==
  /\ client[t] = "dequeue"
  /\ timerQueue_' = Without(timerQueue_, t)
  /\ Goto(t, "removed")
  /\ UNCHANGED <<clock, memoryTimers_, flags, stop_, thread, late, corrupt>>

\* The rest of the call, as the timer thread makes it.
RemoveOwn ==
  \/ /\ pc = "find"
     /\ pc' = IF task \in memoryTimers_ THEN "erase" ELSE "loop"
     /\ UNCHANGED <<clock, memoryTimers_, timerQueue_, flags, stop_, asleep, now,
                    task, client, late, corrupt>>
  \/ /\ pc = "erase"
     /\ Erase(task)
     /\ pc' = "stop"
     /\ UNCHANGED <<clock, timerQueue_, flags, stop_, asleep, now, task, client, late>>
  \/ /\ pc = "stop"
     /\ stop' = [stop EXCEPT ![task] = TRUE]
     /\ pc' = "loop"
     /\ UNCHANGED <<clock, memoryTimers_, timerQueue_, point, inTimerQueue, stop_,
                    asleep, now, task, client, late, corrupt>>

-----------------------------------------------------------------------------
(* TimerWorker::Run *)

own == <<clock, memoryTimers_, stop_, client, corrupt>>

\* Mutant: Run does not look at stop_.
LoopIgnoresStop ==
  /\ pc = "loop"
  /\ pc' = "pick"
  /\ now' = clock
  /\ task' = None
  /\ UNCHANGED <<own, timerQueue_, flags, asleep, late>>

\* The clock is read before mtx_ is taken.
Loop ==
  /\ pc = "loop"
  /\ pc' = IF stop_ THEN "exited" ELSE "pick"
  /\ now' = clock
  /\ task' = None
  /\ UNCHANGED <<own, timerQueue_, flags, asleep, late>>

WaitEmpty ==
  /\ pc = "pick"
  /\ timerQueue_ = <<>>
  /\ pc' = "wait"
  /\ asleep' = TRUE
  /\ UNCHANGED <<own, timerQueue_, flags, now, task, late>>

\* pop_heap, then: a timer that is due is taken out, one that is not is left
\* at the end of the vector, where no heap has it.
Pick ==
  /\ pc = "pick"
  /\ timerQueue_ # <<>>
  /\ \E q \in PopHeap(timerQueue_, point) :
       LET t == q[Len(q)] IN
       /\ task' = t
       /\ IF now > point[t]
          THEN /\ timerQueue_' = SubSeq(q, 1, Len(q) - 1)
               /\ inTimerQueue' = [inTimerQueue EXCEPT ![t] = FALSE]
               /\ pc' = "test"
               /\ UNCHANGED asleep
          ELSE /\ timerQueue_' = q
               /\ pc' = "waitUntil"
               /\ asleep' = TRUE
               /\ UNCHANGED inTimerQueue
  /\ UNCHANGED <<own, point, stop, now, late>>

\* cv_.wait_until gives up when the timer it looked at is due.  A timer that is
\* due after LastTick is due too: the clock of the model stops, time does not.
Timeout ==
  /\ pc = "waitUntil"
  /\ asleep
  /\ clock >= point[task] \/ clock = LastTick
  /\ asleep' = FALSE
  /\ UNCHANGED <<own, timerQueue_, flags, pc, now, task, late>>

SpuriousWakeup ==
  /\ asleep
  /\ asleep' = FALSE
  /\ UNCHANGED <<own, timerQueue_, flags, pc, now, task, late>>

WakeUp ==
  /\ pc \in {"wait", "waitUntil"}
  /\ ~asleep
  /\ pc' = "loop"
  /\ UNCHANGED <<own, timerQueue_, flags, asleep, now, task, late>>

TestTask ==
  /\ pc = "test"
  /\ pc' = IF stop[task] THEN "find" ELSE "call"
  /\ UNCHANGED <<own, timerQueue_, flags, asleep, now, task, late>>

\* The task runs: it returns true, or it returns false or throws.
Call ==
  /\ pc = "call"
  /\ late' = [late EXCEPT ![task] = IF client[task] = "removed" THEN @ + 1 ELSE @]
  /\ pc' \in {"update", "find"}
  /\ UNCHANGED <<own, timerQueue_, flags, asleep, now, task>>

\* A timer that may run again is due one period after it was due, however long
\* it ran.
UpdateNextTimer ==
  /\ pc = "update"
  /\ IF ~stop[task] /\ delay[task] # 0
     THEN /\ point' = [point EXCEPT ![task] = @ + delay[task]]
          /\ pc' = "mark"
     ELSE /\ pc' = "find"
          /\ UNCHANGED point
  /\ UNCHANGED <<own, timerQueue_, inTimerQueue, stop, asleep, now, task, late>>

MarkQueued ==
  /\ pc = "mark"
  /\ inTimerQueue' = [inTimerQueue EXCEPT ![task] = TRUE]
  /\ pc' = "push"
  /\ UNCHANGED <<own, timerQueue_, point, stop, asleep, now, task, late>>

\* Mutant: the timer is pushed back twice.
PushAgainTwice ==
  /\ pc = "push"
  /\ timerQueue_' \in PushHeap(timerQueue_, task, point)
  /\ pc' \in {"loop", "push"}
  /\ UNCHANGED <<own, flags, asleep, now, task, late>>

PushAgain ==
  /\ pc = "push"
  /\ timerQueue_' \in PushHeap(timerQueue_, task, point)
  /\ pc' = "loop"
  /\ UNCHANGED <<own, flags, asleep, now, task, late>>

\* Stop, as DestoryPool calls it; it joins the thread.
Stop ==
  /\ ~stop_
  /\ stop_' = TRUE
  /\ asleep' = FALSE
  /\ UNCHANGED <<clock, memoryTimers_, timerQueue_, flags, pc, now, task, client,
                 late, corrupt>>

Tick ==
  /\ clock < LastTick
  /\ clock' = clock + 1
  /\ UNCHANGED <<memoryTimers_, timerQueue_, flags, stop_, thread, client, late, corrupt>>

-----------------------------------------------------------------------------

Run ==
  \/ Loop \/ WaitEmpty \/ Pick \/ Timeout \/ WakeUp \/ TestTask \/ Call
  \/ UpdateNextTimer \/ MarkQueued \/ PushAgain \/ RemoveOwn

Remove(t) == EraseHandle(t) \/ StopTask(t) \/ TestQueued(t) \/ Dequeue(t)

\* Nothing is said of a program that used an erased iterator.
Next ==
  /\ ~corrupt
  /\ \/ \E t \in Timers :
          AddHandle(t) \/ AddToQueue(t) \/ FindHandle(t) \/ Remove(t)
     \/ Run
     \/ SpuriousWakeup
     \/ Stop
     \/ Tick

Spec == Init /\ [][Next]_vars

\* Time passes, the timer thread runs, and a client ends what it began.
FairSpec ==
  /\ Spec
  /\ WF_vars(~corrupt /\ Run) /\ WF_vars(~corrupt /\ Tick)
  /\ \A t \in Timers : WF_vars(~corrupt /\ (AddToQueue(t) \/ Remove(t)))

-----------------------------------------------------------------------------
(* Properties *)

\* Types of the variables; a periodic timer is due at multiples of its period.
TypeOK ==
  /\ clock \in 0 .. LastTick
  /\ memoryTimers_ \in SUBSET Timers
  /\ timerQueue_ \in Seq(Timers) /\ Len(timerQueue_) <= Cardinality(Timers)
  /\ DOMAIN point = Timers
  /\ \A t \in Timers :
       point[t] \in {FirstPoint[t] + k * delay[t] : k \in 0 .. LastTick}
  /\ inTimerQueue \in [Timers -> BOOLEAN]
  /\ stop \in [Timers -> BOOLEAN]
  /\ stop_ \in BOOLEAN
  /\ asleep \in BOOLEAN
  /\ pc \in {"loop", "pick", "wait", "waitUntil", "test", "call", "update", "mark",
             "push", "find", "erase", "stop", "exited"}
  /\ now \in 0 .. LastTick
  /\ task \in Timers \cup {None}
  /\ client \in [Timers -> {"none", "push", "added", "erase", "stop", "test",
                            "dequeue", "removed"}]
  /\ late \in [Timers -> Nat]
  /\ corrupt \in BOOLEAN

\* A timer that was added and not removed is never lost: it is in the queue or
\* in the hand of the timer thread, whatever broke the heap meanwhile.
TimersNotLost ==
  \A t \in memoryTimers_ :
    client[t] = "push" \/ t \in Elements(timerQueue_) \/ task = t

\* A timer is never in the queue twice, nor in the queue while it runs.
QueuedOnce ==
  /\ \A i, j \in DOMAIN timerQueue_ : timerQueue_[i] = timerQueue_[j] => i = j
  /\ pc \in {"test", "call", "update", "mark", "push"} => task \notin Elements(timerQueue_)

\* When RemoveTask has returned, the timer runs at most once more: a run that
\* had seen stop before it was raised.
OneLateRun == \A t \in Timers : late[t] <= 1

\* The timer thread sleeps without a deadline only while there is no timer to
\* wait for: one that has a handle by then is about to be pushed by its client,
\* which wakes the thread.
NoTimerSleptOver ==
  pc = "wait" /\ asleep =>
    timerQueue_ = <<>> /\ \A t \in memoryTimers_ : client[t] = "push"

\* p is due again and again until the clock of the model stops.
GoesOn(p) == delay[p] # 0 /\ point[p] >= LastTick

\* A queued timer that nobody removes runs, each time it is queued, or the thread
\* is stopped, or a periodic timer goes on: one whose runs last its period is
\* always due and, being the later one, always first, and the others wait for
\* ever (ThreadPool.h:376, 519).  Of two timers, the one that is due runs when the
\* thread has found the other not due, even if that goes on.
DueRuns ==
  \A t \in Timers :
    LET Queued == client[t] = "added" /\ t \in Elements(timerQueue_)
        Served == task = t /\ pc = "call"
        Over   == client[t] # "added" \/ stop_ \/ corrupt
    IN  /\ Queued ~> Served \/ Over \/ \E p \in Timers : GoesOn(p)
        /\ Queued /\ clock > point[t] /\ pc = "waitUntil" /\ task # t ~> Served \/ Over

\* Stop, which joins the thread, returns when the queue holds a timer that
\* nobody removes.  (With an empty queue the thread may fall asleep after it
\* read stop_ and before Stop notifies, and Stop never returns.)
StopsWithTimers ==
  \A t \in Timers :
    stop_ /\ client[t] = "added" /\ t \in Elements(timerQueue_) ~>
      pc = "exited" \/ client[t] # "added" \/ corrupt

\* The comment at ThreadPool.h:518 (find the timer with the smallest time in the
\* minimum heap): Run takes the earliest timer of its queue.  The code breaks it.
EarliestFirst ==
  [][pc = "pick" /\ task' # None =>
       \A t \in Elements(timerQueue_) : point[task'] <= point[t]]_vars
=============================================================================
