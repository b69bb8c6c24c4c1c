-------------------------- MODULE WorkerPoolProofs --------------------------
(***************************************************************************)
(* Proofs about WorkerPool, for any sets of threads, workers and tasks and *)
(* any sizes.                                                              *)
(***************************************************************************)
EXTENDS WorkerPool, FiniteSetTheorems, TLAPS

\* A thread is in AddTask with a task to hand over ...
Handing == {"add", "room", "create", "insert", "give", "push", "pushSleeping",
            "pushAny", "enqueue"}

\* ... or has handed it over and may create a temporary worker.
Growing == {"countWeak", "weak", "backlog", "createTemporary", "insertTemporary"}

\* A thread holds a worker that it has created.
Holding == {"insert", "give", "insertTemporary", "timerTest", "timerNew", "keepAlive"}

Adding == Handing \cup Growing \cup Holding

\* What a thread carries through AddTask: the task, the worker it created, and
\* for a worker the task from which it called.
CallInv ==
  /\ \A p \in Actors : pc[p] \in Handing => item[p] \in Tasks
  /\ \A p \in Actors : pc[p] \in Holding => target[p] \in Workers
  /\ \A p \in Actors : pc[p] \in Growing => grow[p]
  /\ \A p \in Actors : pc[p] \in Adding => p \in Callers
  /\ \A w \in Workers : pc[w] \in Adding \cup {"run"} => running[w] \in Tasks

\* The timer thread checks a worker, and DestoryPool excludes readers.
LockInv ==
  /\ timer_ \in {"stop", "erase", "join"} => checked \in Workers
  /\ Writing => reading = {}
  /\ ScansStayValid

IInv == TypeOK /\ CallInv /\ LockInv

-----------------------------------------------------------------------------

\* Who calls AddTask, and that no value is a worker or a task by accident.
LEMMA ActorTypes ==
  /\ Callers \subseteq Submitters \cup Workers
  /\ Callers \subseteq Actors /\ Workers \subseteq Actors
  /\ Submitters \subseteq Actors /\ Waiters \subseteq Actors
  /\ Submitters \cap Workers = {} /\ Waiters \cap Workers = {}
  /\ Submitters \cap Waiters = {} /\ Waiters \cap Callers = {}
  /\ None \notin Workers /\ None \notin Tasks
BY ActorsAssumption DEF Callers, Actors

\* What is taken from a queue of tasks, and what is left.
LEMMA Dequeued ==
  ASSUME NEW S, NEW q \in Seq(S), q # <<>>
  PROVE  Head(q) \in S /\ Tail(q) \in Seq(S)
OBVIOUS

\* The steps of the pool, one by one.
LEMMA NextCases ==
  ASSUME [Next]_vars
  PROVE
    \/ \E p \in Callers :
         \/ ChooseBranch(p) \/ TestRoom(p) \/ CreateWorker(p) \/ AddWorker(p)
         \/ Give(p) \/ CountSleeping(p) \/ PushToWorker(p) \/ Enqueue(p)
         \/ CountWeak(p) \/ WeakRandomWoker(p) \/ TestBacklog(p) \/ TestTimer(p)
         \/ NewTimer(p) \/ AddKeepAlive(p)
    \/ \E p \in Actors : ScanBegin(p) \/ ScanSkip(p)
    \/ \E w \in Workers :
         \/ TestStop(w) \/ PopOwn(w) \/ PopShared(w) \/ Steal(w)
         \/ EnterSleep(w) \/ WakeUp(w) \/ FinishTask(w) \/ Drain(w)
    \/ \E c \in Waiters :
         \/ WaitTest(c) \/ WeakAllWorker(c) \/ WaitScanBegin(c) \/ WaitVisit(c)
         \/ WaitScanEnd(c) \/ WaitEnter(c) \/ WaitWake(c) \/ BeginWait(c)
    \/ \/ StopChecked \/ EraseChecked \/ JoinChecked \/ StopTimer
       \/ LockPool \/ BeginJoin \/ JoinWorkers \/ BeginDestory
    \/ \E w \in Workers : StopWorker(w) \/ CheckKeepAlive(w)
    \/ \E p \in Callers, t \in Tasks : Submit(p, t)
    \/ \E p \in Workers \cup Waiters : SpuriousWakeup(p)
    \/ UNCHANGED vars
BY ActorTypes DEF Next, ThreadStep, Event, AddTask, RandFind, Run, Wait, Timer,
   DestoryPool

\* Every step keeps the types of the variables.
LEMMA TypeStep == IInv /\ [Next]_vars => TypeOK'
<1> SUFFICES ASSUME IInv, [Next]_vars PROVE TypeOK'
  OBVIOUS
<1> USE ActorTypes DEF IInv, TypeOK, CallInv, LockInv, Handing, Growing, Holding, Adding, Goto,
   queues, lock, call, ledger, timer, calm, still, rest, quiet
<1>1. ASSUME NEW p \in Callers, ChooseBranch(p) PROVE TypeOK'
  BY <1>1 DEF ChooseBranch
<1>2. ASSUME NEW p \in Callers, TestRoom(p) PROVE TypeOK'
  BY <1>2 DEF TestRoom
<1>3. ASSUME NEW p \in Callers, CreateWorker(p) PROVE TypeOK'
  BY <1>3 DEF CreateWorker
<1>4. ASSUME NEW p \in Callers, AddWorker(p) PROVE TypeOK'
  BY <1>4 DEF AddWorker
<1>5. ASSUME NEW p \in Callers, Give(p) PROVE TypeOK'
  BY <1>5 DEF Give, PushTo
<1>6. ASSUME NEW p \in Callers, CountSleeping(p) PROVE TypeOK'
  BY <1>6 DEF CountSleeping
<1>7. ASSUME NEW p \in Callers, PushToWorker(p) PROVE TypeOK'
  <2>1. CASE \E w \in scan[p] : Found(p, w) /\ PushTo(p, w) /\ Goto(p, Resume(p))
    BY <1>7, <2>1, SMTT(60) DEF PushToWorker, Found, ScanEnd, PushTo
  <2>2. CASE NotFound(p) /\ UNCHANGED <<queues, item, cv_>>
    BY <1>7, <2>2, SMTT(60) DEF PushToWorker, NotFound, ScanEnd
  <2>3. QED
    BY <1>7, <2>1, <2>2 DEF PushToWorker
<1>8. ASSUME NEW p \in Callers, Enqueue(p) PROVE TypeOK'
  BY <1>8 DEF Enqueue
<1>9. ASSUME NEW p \in Callers, CountWeak(p) PROVE TypeOK'
  BY <1>9 DEF CountWeak
<1>10. ASSUME NEW p \in Callers, WeakRandomWoker(p) PROVE TypeOK'
  <2>1. CASE \E w \in scan[p] : Found(p, w) /\ cv_' = cv_ \ {w} /\ Goto(p, Resume(p))
    BY <1>10, <2>1, SMTT(60) DEF WeakRandomWoker, Found, ScanEnd
  <2>2. CASE NotFound(p) /\ Goto(p, "backlog") /\ UNCHANGED cv_
    BY <1>10, <2>2, SMTT(60) DEF WeakRandomWoker, NotFound, ScanEnd
  <2>3. QED
    BY <1>10, <2>1, <2>2 DEF WeakRandomWoker
<1>11. ASSUME NEW p \in Callers, TestBacklog(p) PROVE TypeOK'
  BY <1>11 DEF TestBacklog
<1>12. ASSUME NEW p \in Callers, TestTimer(p) PROVE TypeOK'
  BY <1>12 DEF TestTimer
<1>13. ASSUME NEW p \in Callers, NewTimer(p) PROVE TypeOK'
  BY <1>13 DEF NewTimer
<1>14. ASSUME NEW p \in Callers, AddKeepAlive(p) PROVE TypeOK'
  BY <1>14 DEF AddKeepAlive
<1>15. ASSUME NEW p \in Actors, ScanBegin(p) PROVE TypeOK'
  BY <1>15 DEF ScanBegin
<1>16. ASSUME NEW p \in Actors, ScanSkip(p) PROVE TypeOK'
  BY <1>16 DEF ScanSkip
<1>17. ASSUME NEW w \in Workers, TestStop(w) PROVE TypeOK'
  BY <1>17 DEF TestStop
<1>18. ASSUME NEW w \in Workers, PopOwn(w) PROVE TypeOK'
  <2>1. CASE taskQueue_[w] # <<>> /\ TakeFrom(w, w)
    <3>1. taskQueue_[w] \in Seq(Tasks)
      OBVIOUS
    <3>2. Head(taskQueue_[w]) \in Tasks /\ Tail(taskQueue_[w]) \in Seq(Tasks)
      BY <2>1, <3>1, Dequeued
    <3>3. QED
      BY <1>18, <2>1, <3>2 DEF PopOwn, TakeFrom, Take
  <2>2. CASE taskQueue_[w] = <<>>
    BY <1>18, <2>2 DEF PopOwn, TakeFrom
  <2>3. QED
    BY <1>18, <2>1, <2>2 DEF PopOwn
<1>19. ASSUME NEW w \in Workers, PopShared(w) PROVE TypeOK'
  <2>1. noTaskCv_' \in SUBSET Waiters
    BY <1>19, Z3 DEF PopShared
  <2>2. CASE tasksQueue_ # <<>>
    <3>1. Head(tasksQueue_) \in Tasks /\ Tail(tasksQueue_) \in Seq(Tasks)
      BY <2>2, Dequeued
    <3>2. /\ running' = [running EXCEPT ![w] = Head(tasksQueue_)]
          /\ pc' = [pc EXCEPT ![w] = "run"]
          /\ tasksQueue_' = Tail(tasksQueue_)
          /\ UNCHANGED <<taskQueue_, lock, cv_, call, ledger, calm>>
      BY <1>19, <2>2 DEF PopShared, Take
    <3>3. QED
      BY <2>1, <3>1, <3>2
  <2>3. CASE tasksQueue_ = <<>>
    BY <1>19, <2>3 DEF PopShared
  <2>4. QED
    BY <2>2, <2>3
<1>20. ASSUME NEW w \in Workers, Steal(w) PROVE TypeOK'
  <2>1. CASE \E v \in scan[w] : Found(w, v) /\ TakeFrom(w, v)
    <3>1. PICK v \in Workers : v \in scan[w] /\ Found(w, v) /\ TakeFrom(w, v)
      BY <2>1
    <3>2. taskQueue_[v] \in Seq(Tasks) /\ taskQueue_[v] # <<>>
      BY <1>20, <3>1 DEF Steal, Found, Fits
    <3>3. Head(taskQueue_[v]) \in Tasks /\ Tail(taskQueue_[v]) \in Seq(Tasks)
      BY <3>2, Dequeued
    <3>4. QED
      BY <1>20, <3>1, <3>3 DEF Steal, Found, ScanEnd, TakeFrom, Take
  <2>2. CASE NotFound(w) /\ noTaskCv_' = {} /\ Goto(w, "enter") /\ UNCHANGED <<queues, running>>
    BY <1>20, <2>2 DEF Steal, NotFound, ScanEnd
  <2>3. QED
    BY <1>20, <2>1, <2>2 DEF Steal
<1>21. ASSUME NEW w \in Workers, EnterSleep(w) PROVE TypeOK'
  BY <1>21 DEF EnterSleep
<1>22. ASSUME NEW w \in Workers, WakeUp(w) PROVE TypeOK'
  BY <1>22 DEF WakeUp
<1>23. ASSUME NEW w \in Workers, FinishTask(w) PROVE TypeOK'
  BY <1>23 DEF FinishTask
<1>24. ASSUME NEW w \in Workers, Drain(w) PROVE TypeOK'
  <2>1. CASE taskQueue_[w] # <<>>
    <3>1. taskQueue_[w] \in Seq(Tasks)
      OBVIOUS
    <3>2. Head(taskQueue_[w]) \in Tasks /\ Tail(taskQueue_[w]) \in Seq(Tasks)
      BY <2>1, <3>1, Dequeued
    <3>3. Append(tasksQueue_, Head(taskQueue_[w])) \in Seq(Tasks)
      BY <3>2
    <3>4. /\ tasksQueue_' = Append(tasksQueue_, Head(taskQueue_[w]))
          /\ taskQueue_' = [taskQueue_ EXCEPT ![w] = Tail(taskQueue_[w])]
          /\ UNCHANGED <<pc, lock, cv_, noTaskCv_, call, running, ledger, calm>>
      BY <1>24, <2>1 DEF Drain
    <3>5. QED
      BY <3>2, <3>3, <3>4
  <2>2. CASE taskQueue_[w] = <<>>
    BY <1>24, <2>2 DEF Drain
  <2>3. QED
    BY <2>1, <2>2
<1>25. ASSUME NEW c \in Waiters, WaitTest(c) PROVE TypeOK'
  BY <1>25 DEF WaitTest
<1>26. ASSUME NEW c \in Waiters, WeakAllWorker(c) PROVE TypeOK'
  BY <1>26 DEF WeakAllWorker
<1>27. ASSUME NEW c \in Waiters, WaitScanBegin(c) PROVE TypeOK'
  BY <1>27 DEF WaitScanBegin
<1>28. ASSUME NEW c \in Waiters, WaitVisit(c) PROVE TypeOK'
  BY <1>28 DEF WaitVisit
<1>29. ASSUME NEW c \in Waiters, WaitScanEnd(c) PROVE TypeOK'
  BY <1>29 DEF WaitScanEnd, ScanEnd
<1>30. ASSUME NEW c \in Waiters, WaitEnter(c) PROVE TypeOK'
  BY <1>30 DEF WaitEnter
<1>31. ASSUME NEW c \in Waiters, WaitWake(c) PROVE TypeOK'
  BY <1>31 DEF WaitWake
<1>32. ASSUME NEW c \in Waiters, BeginWait(c) PROVE TypeOK'
  BY <1>32 DEF BeginWait
<1>33. ASSUME StopChecked PROVE TypeOK'
  BY <1>33 DEF StopChecked
<1>34. ASSUME EraseChecked PROVE TypeOK'
  BY <1>34 DEF EraseChecked
<1>35. ASSUME JoinChecked PROVE TypeOK'
  BY <1>35 DEF JoinChecked
<1>36. ASSUME StopTimer PROVE TypeOK'
  BY <1>36 DEF StopTimer
<1>37. ASSUME LockPool PROVE TypeOK'
  BY <1>37 DEF LockPool
<1>38. ASSUME BeginJoin PROVE TypeOK'
  BY <1>38 DEF BeginJoin
<1>39. ASSUME JoinWorkers PROVE TypeOK'
  BY <1>39 DEF JoinWorkers
<1>40. ASSUME BeginDestory PROVE TypeOK'
  BY <1>40 DEF BeginDestory
<1>41. ASSUME NEW w \in Workers, StopWorker(w) PROVE TypeOK'
  BY <1>41 DEF StopWorker
<1>42. ASSUME NEW w \in Workers, CheckKeepAlive(w) PROVE TypeOK'
  BY <1>42 DEF CheckKeepAlive
<1>43. ASSUME NEW p \in Callers, NEW t \in Tasks, Submit(p, t) PROVE TypeOK'
  BY <1>43 DEF Submit
<1>44. ASSUME NEW p \in Workers \cup Waiters, SpuriousWakeup(p) PROVE TypeOK'
  BY <1>44 DEF SpuriousWakeup
<1>45. CASE UNCHANGED vars
  BY <1>45 DEF vars
<1>46. QED
  BY <1>1, <1>2, <1>3, <1>4, <1>5, <1>6, <1>7, <1>8, <1>9, <1>10, <1>11, <1>12, <1>13,
     <1>14, <1>15, <1>16, <1>17, <1>18, <1>19, <1>20, <1>21, <1>22, <1>23, <1>24,
     <1>25, <1>26, <1>27, <1>28, <1>29, <1>30, <1>31, <1>32, <1>33, <1>34, <1>35,
     <1>36, <1>37, <1>38, <1>39, <1>40, <1>41, <1>42, <1>43, <1>44, <1>45, NextCases

\* AddTask carries its task and its worker along.
LEMMA CallStep == IInv /\ [Next]_vars => CallInv'
<1> SUFFICES ASSUME IInv, [Next]_vars PROVE CallInv'
  OBVIOUS
<1> USE ActorTypes DEF IInv, TypeOK, CallInv, LockInv, Handing, Growing, Holding, Adding, Goto,
   Resume, queues, lock, call, ledger, timer, calm, still, rest, quiet
<1>1. ASSUME NEW p \in Callers, ChooseBranch(p) PROVE CallInv'
  BY <1>1 DEF ChooseBranch
<1>2. ASSUME NEW p \in Callers, TestRoom(p) PROVE CallInv'
  BY <1>2 DEF TestRoom
<1>3. ASSUME NEW p \in Callers, CreateWorker(p) PROVE CallInv'
  BY <1>3 DEF CreateWorker
<1>4. ASSUME NEW p \in Callers, AddWorker(p) PROVE CallInv'
  BY <1>4 DEF AddWorker
<1>5. ASSUME NEW p \in Callers, Give(p) PROVE CallInv'
  BY <1>5 DEF Give, PushTo
<1>6. ASSUME NEW p \in Callers, CountSleeping(p) PROVE CallInv'
  BY <1>6 DEF CountSleeping
<1>7. ASSUME NEW p \in Callers, PushToWorker(p) PROVE CallInv'
  BY <1>7 DEF PushToWorker, Found, NotFound, ScanEnd, PushTo
<1>8. ASSUME NEW p \in Callers, Enqueue(p) PROVE CallInv'
  BY <1>8 DEF Enqueue
<1>9. ASSUME NEW p \in Callers, CountWeak(p) PROVE CallInv'
  BY <1>9 DEF CountWeak
<1>10. ASSUME NEW p \in Callers, WeakRandomWoker(p) PROVE CallInv'
  BY <1>10 DEF WeakRandomWoker, Found, NotFound, ScanEnd
<1>11. ASSUME NEW p \in Callers, TestBacklog(p) PROVE CallInv'
  BY <1>11 DEF TestBacklog
<1>12. ASSUME NEW p \in Callers, TestTimer(p) PROVE CallInv'
  BY <1>12 DEF TestTimer
<1>13. ASSUME NEW p \in Callers, NewTimer(p) PROVE CallInv'
  BY <1>13 DEF NewTimer
<1>14. ASSUME NEW p \in Callers, AddKeepAlive(p) PROVE CallInv'
  BY <1>14 DEF AddKeepAlive
<1>15. ASSUME NEW p \in Actors, ScanBegin(p) PROVE CallInv'
  BY <1>15 DEF ScanBegin
<1>16. ASSUME NEW p \in Actors, ScanSkip(p) PROVE CallInv'
  BY <1>16 DEF ScanSkip
<1>17. ASSUME NEW w \in Workers, TestStop(w) PROVE CallInv'
  BY <1>17 DEF TestStop
<1>18. ASSUME NEW w \in Workers, PopOwn(w) PROVE CallInv'
  <2>1. CASE taskQueue_[w] # <<>> /\ TakeFrom(w, w)
    <3>1. taskQueue_[w] \in Seq(Tasks)
      OBVIOUS
    <3>2. Head(taskQueue_[w]) \in Tasks /\ Tail(taskQueue_[w]) \in Seq(Tasks)
      BY <2>1, <3>1, Dequeued
    <3>3. QED
      BY <1>18, <2>1, <3>2 DEF PopOwn, TakeFrom, Take
  <2>2. CASE taskQueue_[w] = <<>>
    BY <1>18, <2>2 DEF PopOwn, TakeFrom
  <2>3. QED
    BY <1>18, <2>1, <2>2 DEF PopOwn
<1>19. ASSUME NEW w \in Workers, PopShared(w) PROVE CallInv'
  <2>1. CASE tasksQueue_ # <<>>
    <3>1. Head(tasksQueue_) \in Tasks
      BY <2>1, Dequeued
    <3>2. /\ running' = [running EXCEPT ![w] = Head(tasksQueue_)]
          /\ pc' = [pc EXCEPT ![w] = "run"]
          /\ UNCHANGED call
      BY <1>19, <2>1 DEF PopShared, Take
    <3>3. QED
      BY <3>1, <3>2
  <2>2. CASE tasksQueue_ = <<>>
    BY <1>19, <2>2 DEF PopShared
  <2>3. QED
    BY <2>1, <2>2
<1>20. ASSUME NEW w \in Workers, Steal(w) PROVE CallInv'
  <2>1. CASE \E v \in scan[w] : Found(w, v) /\ TakeFrom(w, v)
    <3>1. PICK v \in Workers : v \in scan[w] /\ Found(w, v) /\ TakeFrom(w, v)
      BY <2>1
    <3>2. taskQueue_[v] \in Seq(Tasks) /\ taskQueue_[v] # <<>>
      BY <1>20, <3>1 DEF Steal, Found, Fits
    <3>3. Head(taskQueue_[v]) \in Tasks /\ Tail(taskQueue_[v]) \in Seq(Tasks)
      BY <3>2, Dequeued
    <3>4. QED
      BY <1>20, <3>1, <3>3 DEF Steal, Found, ScanEnd, TakeFrom, Take
  <2>2. CASE NotFound(w) /\ noTaskCv_' = {} /\ Goto(w, "enter") /\ UNCHANGED <<queues, running>>
    BY <1>20, <2>2 DEF Steal, NotFound, ScanEnd
  <2>3. QED
    BY <1>20, <2>1, <2>2 DEF Steal
<1>21. ASSUME NEW w \in Workers, EnterSleep(w) PROVE CallInv'
  BY <1>21 DEF EnterSleep
<1>22. ASSUME NEW w \in Workers, WakeUp(w) PROVE CallInv'
  BY <1>22 DEF WakeUp
<1>23. ASSUME NEW w \in Workers, FinishTask(w) PROVE CallInv'
  BY <1>23 DEF FinishTask
<1>24. ASSUME NEW w \in Workers, Drain(w) PROVE CallInv'
  BY <1>24 DEF Drain
<1>25. ASSUME NEW c \in Waiters, WaitTest(c) PROVE CallInv'
  BY <1>25 DEF WaitTest
<1>26. ASSUME NEW c \in Waiters, WeakAllWorker(c) PROVE CallInv'
  BY <1>26 DEF WeakAllWorker
<1>27. ASSUME NEW c \in Waiters, WaitScanBegin(c) PROVE CallInv'
  BY <1>27 DEF WaitScanBegin
<1>28. ASSUME NEW c \in Waiters, WaitVisit(c) PROVE CallInv'
  BY <1>28 DEF WaitVisit
<1>29. ASSUME NEW c \in Waiters, WaitScanEnd(c) PROVE CallInv'
  BY <1>29 DEF WaitScanEnd, ScanEnd
<1>30. ASSUME NEW c \in Waiters, WaitEnter(c) PROVE CallInv'
  BY <1>30 DEF WaitEnter
<1>31. ASSUME NEW c \in Waiters, WaitWake(c) PROVE CallInv'
  BY <1>31 DEF WaitWake
<1>32. ASSUME NEW c \in Waiters, BeginWait(c) PROVE CallInv'
  BY <1>32 DEF BeginWait
<1>33. ASSUME StopChecked PROVE CallInv'
  BY <1>33 DEF StopChecked
<1>34. ASSUME EraseChecked PROVE CallInv'
  BY <1>34 DEF EraseChecked
<1>35. ASSUME JoinChecked PROVE CallInv'
  BY <1>35 DEF JoinChecked
<1>36. ASSUME StopTimer PROVE CallInv'
  BY <1>36 DEF StopTimer
<1>37. ASSUME LockPool PROVE CallInv'
  BY <1>37 DEF LockPool
<1>38. ASSUME BeginJoin PROVE CallInv'
  BY <1>38 DEF BeginJoin
<1>39. ASSUME JoinWorkers PROVE CallInv'
  BY <1>39 DEF JoinWorkers
<1>40. ASSUME BeginDestory PROVE CallInv'
  BY <1>40 DEF BeginDestory
<1>41. ASSUME NEW w \in Workers, StopWorker(w) PROVE CallInv'
  BY <1>41 DEF StopWorker
<1>42. ASSUME NEW w \in Workers, CheckKeepAlive(w) PROVE CallInv'
  BY <1>42 DEF CheckKeepAlive
<1>43. ASSUME NEW p \in Callers, NEW t \in Tasks, Submit(p, t) PROVE CallInv'
  BY <1>43 DEF Submit
<1>44. ASSUME NEW p \in Workers \cup Waiters, SpuriousWakeup(p) PROVE CallInv'
  BY <1>44 DEF SpuriousWakeup
<1>45. CASE UNCHANGED vars
  BY <1>45 DEF vars
<1>46. QED
  BY <1>1, <1>2, <1>3, <1>4, <1>5, <1>6, <1>7, <1>8, <1>9, <1>10, <1>11, <1>12, <1>13,
     <1>14, <1>15, <1>16, <1>17, <1>18, <1>19, <1>20, <1>21, <1>22, <1>23, <1>24,
     <1>25, <1>26, <1>27, <1>28, <1>29, <1>30, <1>31, <1>32, <1>33, <1>34, <1>35,
     <1>36, <1>37, <1>38, <1>39, <1>40, <1>41, <1>42, <1>43, <1>44, <1>45, NextCases

\* The set of workers changes only while nobody iterates over it.
LEMMA LockStep == IInv /\ [Next]_vars => LockInv'
<1> SUFFICES ASSUME IInv, [Next]_vars PROVE LockInv'
  OBVIOUS
<1> USE ActorTypes DEF IInv, TypeOK, CallInv, LockInv, ScansStayValid, Writing, LockFree, Holding,
   queues, lock, call, ledger, timer, calm, still, rest, quiet
<1>1. ASSUME NEW p \in Callers, ChooseBranch(p) PROVE LockInv'
  BY <1>1 DEF ChooseBranch
<1>2. ASSUME NEW p \in Callers, TestRoom(p) PROVE LockInv'
  BY <1>2 DEF TestRoom
<1>3. ASSUME NEW p \in Callers, CreateWorker(p) PROVE LockInv'
  BY <1>3 DEF CreateWorker
<1>4. ASSUME NEW p \in Callers, AddWorker(p) PROVE LockInv'
  BY <1>4 DEF AddWorker
<1>5. ASSUME NEW p \in Callers, Give(p) PROVE LockInv'
  BY <1>5 DEF Give, PushTo
<1>6. ASSUME NEW p \in Callers, CountSleeping(p) PROVE LockInv'
  BY <1>6 DEF CountSleeping
<1>7. ASSUME NEW p \in Callers, PushToWorker(p) PROVE LockInv'
  BY <1>7 DEF PushToWorker, Found, NotFound, ScanEnd, PushTo
<1>8. ASSUME NEW p \in Callers, Enqueue(p) PROVE LockInv'
  BY <1>8 DEF Enqueue
<1>9. ASSUME NEW p \in Callers, CountWeak(p) PROVE LockInv'
  BY <1>9 DEF CountWeak
<1>10. ASSUME NEW p \in Callers, WeakRandomWoker(p) PROVE LockInv'
  BY <1>10 DEF WeakRandomWoker, Found, NotFound, ScanEnd
<1>11. ASSUME NEW p \in Callers, TestBacklog(p) PROVE LockInv'
  BY <1>11 DEF TestBacklog
<1>12. ASSUME NEW p \in Callers, TestTimer(p) PROVE LockInv'
  BY <1>12 DEF TestTimer
<1>13. ASSUME NEW p \in Callers, NewTimer(p) PROVE LockInv'
  BY <1>13 DEF NewTimer
<1>14. ASSUME NEW p \in Callers, AddKeepAlive(p) PROVE LockInv'
  BY <1>14 DEF AddKeepAlive
<1>15. ASSUME NEW p \in Actors, ScanBegin(p) PROVE LockInv'
  BY <1>15 DEF ScanBegin
<1>16. ASSUME NEW p \in Actors, ScanSkip(p) PROVE LockInv'
  BY <1>16 DEF ScanSkip
<1>17. ASSUME NEW w \in Workers, TestStop(w) PROVE LockInv'
  BY <1>17 DEF TestStop
<1>18. ASSUME NEW w \in Workers, PopOwn(w) PROVE LockInv'
  BY <1>18 DEF PopOwn, TakeFrom, Take
<1>19. ASSUME NEW w \in Workers, PopShared(w) PROVE LockInv'
  BY <1>19 DEF PopShared, Take
<1>20. ASSUME NEW w \in Workers, Steal(w) PROVE LockInv'
  BY <1>20 DEF Steal, Found, NotFound, ScanEnd, TakeFrom, Take
<1>21. ASSUME NEW w \in Workers, EnterSleep(w) PROVE LockInv'
  BY <1>21 DEF EnterSleep
<1>22. ASSUME NEW w \in Workers, WakeUp(w) PROVE LockInv'
  BY <1>22 DEF WakeUp
<1>23. ASSUME NEW w \in Workers, FinishTask(w) PROVE LockInv'
  BY <1>23 DEF FinishTask
<1>24. ASSUME NEW w \in Workers, Drain(w) PROVE LockInv'
  BY <1>24 DEF Drain
<1>25. ASSUME NEW c \in Waiters, WaitTest(c) PROVE LockInv'
  BY <1>25 DEF WaitTest
<1>26. ASSUME NEW c \in Waiters, WeakAllWorker(c) PROVE LockInv'
  BY <1>26 DEF WeakAllWorker
<1>27. ASSUME NEW c \in Waiters, WaitScanBegin(c) PROVE LockInv'
  BY <1>27 DEF WaitScanBegin
<1>28. ASSUME NEW c \in Waiters, WaitVisit(c) PROVE LockInv'
  BY <1>28 DEF WaitVisit
<1>29. ASSUME NEW c \in Waiters, WaitScanEnd(c) PROVE LockInv'
  BY <1>29 DEF WaitScanEnd, ScanEnd
<1>30. ASSUME NEW c \in Waiters, WaitEnter(c) PROVE LockInv'
  BY <1>30 DEF WaitEnter
<1>31. ASSUME NEW c \in Waiters, WaitWake(c) PROVE LockInv'
  BY <1>31 DEF WaitWake
<1>32. ASSUME NEW c \in Waiters, BeginWait(c) PROVE LockInv'
  BY <1>32 DEF BeginWait
<1>33. ASSUME StopChecked PROVE LockInv'
  BY <1>33 DEF StopChecked
<1>34. ASSUME EraseChecked PROVE LockInv'
  BY <1>34 DEF EraseChecked
<1>35. ASSUME JoinChecked PROVE LockInv'
  BY <1>35 DEF JoinChecked
<1>36. ASSUME StopTimer PROVE LockInv'
  BY <1>36 DEF StopTimer
<1>37. ASSUME LockPool PROVE LockInv'
  BY <1>37 DEF LockPool
<1>38. ASSUME BeginJoin PROVE LockInv'
  BY <1>38 DEF BeginJoin
<1>39. ASSUME JoinWorkers PROVE LockInv'
  BY <1>39 DEF JoinWorkers
<1>40. ASSUME BeginDestory PROVE LockInv'
  BY <1>40 DEF BeginDestory
<1>41. ASSUME NEW w \in Workers, StopWorker(w) PROVE LockInv'
  BY <1>41 DEF StopWorker
<1>42. ASSUME NEW w \in Workers, CheckKeepAlive(w) PROVE LockInv'
  BY <1>42 DEF CheckKeepAlive
<1>43. ASSUME NEW p \in Callers, NEW t \in Tasks, Submit(p, t) PROVE LockInv'
  BY <1>43 DEF Submit
<1>44. ASSUME NEW p \in Workers \cup Waiters, SpuriousWakeup(p) PROVE LockInv'
  BY <1>44 DEF SpuriousWakeup
<1>45. CASE UNCHANGED vars
  BY <1>45 DEF vars
<1>46. QED
  BY <1>1, <1>2, <1>3, <1>4, <1>5, <1>6, <1>7, <1>8, <1>9, <1>10, <1>11, <1>12, <1>13,
     <1>14, <1>15, <1>16, <1>17, <1>18, <1>19, <1>20, <1>21, <1>22, <1>23, <1>24,
     <1>25, <1>26, <1>27, <1>28, <1>29, <1>30, <1>31, <1>32, <1>33, <1>34, <1>35,
     <1>36, <1>37, <1>38, <1>39, <1>40, <1>41, <1>42, <1>43, <1>44, <1>45, NextCases

\* The calls that have found room for a worker and have not added it yet.
InFlight ==
  {p \in Callers :
     \/ pc[p] \in {"create", "insert"}
     \/ grow[p] /\ pc[p] \in {"push", "pushSleeping", "pushAny", "enqueue"} \cup Growing}

\* Every call that passes the test finds a worker less than the limit.
BoundInv ==
  Cardinality(workers_) + Cardinality(InFlight) <= Limit + Cardinality(Callers) - 1

\* The sets that are counted are finite.
LEMMA FiniteSets ==
  ASSUME TypeOK
  PROVE  /\ IsFiniteSet(Callers) /\ IsFiniteSet(Workers)
         /\ IsFiniteSet(workers_) /\ IsFiniteSet(InFlight)
         /\ Cardinality(workers_) \in Nat /\ Cardinality(InFlight) \in Nat
         /\ Cardinality(Callers) \in Nat /\ Limit \in Nat \ {0}
<1>1. IsFiniteSet(Callers) /\ IsFiniteSet(Workers)
  BY ActorTypes, ActorsAssumption, FS_Subset
<1>2. IsFiniteSet(workers_)
  BY <1>1, FS_Subset DEF TypeOK
<1>3. InFlight \in SUBSET Callers
  BY DEF InFlight
<1>4. IsFiniteSet(InFlight)
  BY <1>1, <1>3, FS_Subset
<1>5. Limit \in Nat \ {0}
  BY SizesAssumption DEF Limit
<1>6. QED
  BY <1>1, <1>2, <1>4, <1>5, FS_CardinalityType

\* A step that adds neither a worker nor a call in flight keeps the bound.
LEMMA BoundShrinks ==
  ASSUME TypeOK, TypeOK', BoundInv,
         workers_' \subseteq workers_, InFlight' \subseteq InFlight
  PROVE  BoundInv'
<1>1. Cardinality(workers_') <= Cardinality(workers_) /\ Cardinality(workers_') \in Nat
  BY FiniteSets, FS_Subset, FS_CardinalityType
<1>2. Cardinality(InFlight') <= Cardinality(InFlight) /\ Cardinality(InFlight') \in Nat
  BY FiniteSets, FS_Subset, FS_CardinalityType
<1>3. QED
  BY <1>1, <1>2, FiniteSets DEF BoundInv

\* A call that passes the test, when the pool has fewer workers than the limit.
LEMMA BoundPassed ==
  ASSUME TypeOK, TypeOK', NEW p \in Callers, Cardinality(workers_) < Limit,
         workers_' = workers_
  PROVE  BoundInv'
<1>1. InFlight' \in SUBSET Callers
  BY DEF InFlight, Callers
<1>2. Cardinality(InFlight') <= Cardinality(Callers) /\ Cardinality(InFlight') \in Nat
  BY <1>1, FiniteSets, FS_Subset, FS_CardinalityType
<1>3. QED
  BY <1>2, FiniteSets DEF BoundInv, Limit


\* Every step keeps the bound.
LEMMA BoundStep == IInv /\ TypeOK' /\ BoundInv /\ [Next]_vars => BoundInv'
<1> SUFFICES ASSUME IInv, TypeOK', BoundInv, [Next]_vars PROVE BoundInv'
  OBVIOUS
<1> DEFINE Shrinks == workers_' \subseteq workers_ /\ InFlight' \subseteq InFlight
<1>a. ASSUME Shrinks PROVE BoundInv'
  BY <1>a, BoundShrinks DEF IInv
<1>1. ASSUME NEW p \in Callers, ChooseBranch(p) PROVE BoundInv'
  <2>1. CASE Cardinality(workers_) < coreThreadSize_
    <3>1. Cardinality(workers_) < Limit
      BY <2>1, FiniteSets, SizesAssumption DEF Limit, IInv
    <3>2. workers_' = workers_
      BY <1>1 DEF ChooseBranch, calm
    <3>3. QED
      BY <3>1, <3>2, BoundPassed DEF IInv
  <2>2. CASE ~(Cardinality(workers_) < coreThreadSize_)
    <3>1. pc' = [pc EXCEPT ![p] = "room"] /\ grow' = grow /\ workers_' = workers_
      BY <1>1, <2>2 DEF ChooseBranch, Goto, calm, call
    <3>2. Shrinks
      BY <3>1 DEF IInv, TypeOK, InFlight, Growing
    <3>3. QED
      BY <3>2, <1>a
  <2>3. QED
    BY <2>1, <2>2
<1>2. ASSUME NEW p \in Callers, TestRoom(p) PROVE BoundInv'
  <2>1. workers_' = workers_
    BY <1>2 DEF TestRoom, calm
  <2>2. CASE Cardinality(workers_) \in coreThreadSize_ .. maxThreadSize_ - 1
    <3>1. Cardinality(workers_) < Limit
      BY <2>2, FiniteSets, SizesAssumption DEF Limit, IInv
    <3>2. QED
      BY <2>1, <3>1, BoundPassed DEF IInv
  <2>3. CASE Cardinality(workers_) \notin coreThreadSize_ .. maxThreadSize_ - 1
    <3>1. pc' = [pc EXCEPT ![p] = "push"] /\ ~grow'[p]
          /\ \A q \in Callers \ {p} : grow'[q] = grow[q]
      <4>1. p \in DOMAIN grow
        BY ActorTypes DEF IInv, TypeOK
      <4>2. QED
        BY <1>2, <2>3, <4>1, ActorTypes DEF TestRoom, Goto, IInv, TypeOK
    <3>2. Shrinks
      BY <2>1, <3>1, ActorTypes DEF IInv, TypeOK, InFlight, Growing
    <3>3. QED
      BY <3>2, <1>a
  <2>4. QED
    BY <2>2, <2>3
<1>3. ASSUME NEW p \in Callers, CreateWorker(p) PROVE BoundInv'
  <2>1. Shrinks
    BY <1>3, ActorTypes DEF CreateWorker, IInv, TypeOK, CallInv, InFlight, Growing,
       Handing, Goto, Resume,
       queues, lock, call, ledger, timer, calm, still, rest, quiet
  <2>2. QED
    BY <2>1, <1>a
<1>4. ASSUME NEW p \in Callers, AddWorker(p) PROVE BoundInv'
  <2>1. p \in InFlight
    BY <1>4, ActorTypes DEF AddWorker, InFlight, IInv, CallInv, Growing
  <2>2. InFlight' \subseteq InFlight \ {p}
    <3>1. pc'[p] \in {"give", "timerTest"} /\ \A q \in Callers \ {p} : pc'[q] = pc[q]
      BY <1>4, ActorTypes DEF AddWorker, IInv, TypeOK, Goto
    <3>2. grow' = grow
      BY <1>4 DEF AddWorker, call
    <3>3. QED
      BY <3>1, <3>2 DEF InFlight, Growing, Callers
  <2>3. /\ Cardinality(InFlight') <= Cardinality(InFlight) - 1
        /\ Cardinality(InFlight') \in Nat
    <3>1. /\ IsFiniteSet(InFlight \ {p})
          /\ Cardinality(InFlight \ {p}) = Cardinality(InFlight) - 1
      BY <2>1, FiniteSets, FS_RemoveElement DEF IInv
    <3>2. QED
      BY <2>2, <3>1, FS_Subset, FS_CardinalityType
  <2>4. /\ Cardinality(workers_') <= Cardinality(workers_) + 1
        /\ Cardinality(workers_') \in Nat
    <3>1. /\ IsFiniteSet(workers_ \cup {target[p]})
          /\ \/ Cardinality(workers_ \cup {target[p]}) = Cardinality(workers_)
             \/ Cardinality(workers_ \cup {target[p]}) = Cardinality(workers_) + 1
      BY FiniteSets, FS_AddElement DEF IInv
    <3>2. QED
      BY <1>4, <3>1, FiniteSets, FS_CardinalityType DEF AddWorker, IInv
  <2>5. /\ Cardinality(workers_) \in Nat /\ Cardinality(InFlight) \in Nat
        /\ Cardinality(Callers) \in Nat /\ Limit \in Nat
    BY FiniteSets DEF IInv
  <2>6. QED
    BY <2>3, <2>4, <2>5 DEF BoundInv, Callers, Limit
<1>5. ASSUME NEW p \in Callers, Give(p) PROVE BoundInv'
  <2>1. Shrinks
    BY <1>5, ActorTypes DEF Give, PushTo, IInv, TypeOK, CallInv, InFlight, Growing,
       Handing, Goto, Resume,
       queues, lock, call, ledger, timer, calm, still, rest, quiet
  <2>2. QED
    BY <2>1, <1>a
<1>6. ASSUME NEW p \in Callers, CountSleeping(p) PROVE BoundInv'
  <2>1. Shrinks
    BY <1>6, ActorTypes DEF CountSleeping, IInv, TypeOK, CallInv, InFlight, Growing,
       Handing, Goto, Resume,
       queues, lock, call, ledger, timer, calm, still, rest, quiet
  <2>2. QED
    BY <2>1, <1>a
<1>7. ASSUME NEW p \in Callers, PushToWorker(p) PROVE BoundInv'
  <2>1. Shrinks
    BY <1>7, ActorTypes DEF PushToWorker, Found, NotFound, ScanEnd, PushTo, IInv,
       TypeOK, CallInv, InFlight, Growing, Handing, Goto, Resume,
       queues, lock, call, ledger, timer, calm, still, rest, quiet
  <2>2. QED
    BY <2>1, <1>a
<1>8. ASSUME NEW p \in Callers, Enqueue(p) PROVE BoundInv'
  <2>1. Shrinks
    BY <1>8, ActorTypes DEF Enqueue, IInv, TypeOK, CallInv, InFlight, Growing,
       Handing, Goto, Resume,
       queues, lock, call, ledger, timer, calm, still, rest, quiet
  <2>2. QED
    BY <2>1, <1>a
<1>9. ASSUME NEW p \in Callers, CountWeak(p) PROVE BoundInv'
  <2>1. Shrinks
    BY <1>9, ActorTypes DEF CountWeak, IInv, TypeOK, CallInv, InFlight, Growing,
       Handing, Goto, Resume,
       queues, lock, call, ledger, timer, calm, still, rest, quiet
  <2>2. QED
    BY <2>1, <1>a
<1>10. ASSUME NEW p \in Callers, WeakRandomWoker(p) PROVE BoundInv'
  <2>1. Shrinks
    BY <1>10, ActorTypes DEF WeakRandomWoker, Found, NotFound, ScanEnd, IInv, TypeOK,
       CallInv, InFlight, Growing, Handing, Goto, Resume,
       queues, lock, call, ledger, timer, calm, still, rest, quiet
  <2>2. QED
    BY <2>1, <1>a
<1>11. ASSUME NEW p \in Callers, TestBacklog(p) PROVE BoundInv'
  <2>1. Shrinks
    BY <1>11, ActorTypes DEF TestBacklog, IInv, TypeOK, CallInv, InFlight, Growing,
       Handing, Goto, Resume,
       queues, lock, call, ledger, timer, calm, still, rest, quiet
  <2>2. QED
    BY <2>1, <1>a
<1>12. ASSUME NEW p \in Callers, TestTimer(p) PROVE BoundInv'
  <2>1. Shrinks
    BY <1>12, ActorTypes DEF TestTimer, IInv, TypeOK, CallInv, InFlight, Growing,
       Handing, Goto, Resume,
       queues, lock, call, ledger, timer, calm, still, rest, quiet
  <2>2. QED
    BY <2>1, <1>a
<1>13. ASSUME NEW p \in Callers, NewTimer(p) PROVE BoundInv'
  <2>1. Shrinks
    BY <1>13, ActorTypes DEF NewTimer, IInv, TypeOK, CallInv, InFlight, Growing,
       Handing, Goto, Resume,
       queues, lock, call, ledger, timer, calm, still, rest, quiet
  <2>2. QED
    BY <2>1, <1>a
<1>14. ASSUME NEW p \in Callers, AddKeepAlive(p) PROVE BoundInv'
  <2>1. Shrinks
    BY <1>14, ActorTypes DEF AddKeepAlive, IInv, TypeOK, CallInv, InFlight, Growing,
       Handing, Goto, Resume,
       queues, lock, call, ledger, timer, calm, still, rest, quiet
  <2>2. QED
    BY <2>1, <1>a
<1>15. ASSUME NEW p \in Actors, ScanBegin(p) PROVE BoundInv'
  <2>1. Shrinks
    BY <1>15, ActorTypes DEF ScanBegin, IInv, TypeOK, CallInv, InFlight, Growing,
       Handing, Goto, Resume,
       queues, lock, call, ledger, timer, calm, still, rest, quiet
  <2>2. QED
    BY <2>1, <1>a
<1>16. ASSUME NEW p \in Actors, ScanSkip(p) PROVE BoundInv'
  <2>1. Shrinks
    BY <1>16, ActorTypes DEF ScanSkip, IInv, TypeOK, CallInv, InFlight, Growing,
       Handing, Goto, Resume,
       queues, lock, call, ledger, timer, calm, still, rest, quiet
  <2>2. QED
    BY <2>1, <1>a
<1>17. ASSUME NEW w \in Workers, TestStop(w) PROVE BoundInv'
  <2>1. Shrinks
    BY <1>17, ActorTypes DEF TestStop, IInv, TypeOK, CallInv, InFlight, Growing,
       Handing, Goto, Resume,
       queues, lock, call, ledger, timer, calm, still, rest, quiet
  <2>2. QED
    BY <2>1, <1>a
<1>18. ASSUME NEW w \in Workers, PopOwn(w) PROVE BoundInv'
  <2>1. Shrinks
    BY <1>18, ActorTypes DEF PopOwn, TakeFrom, Take, IInv, TypeOK, CallInv, InFlight,
       Growing, Handing, Goto, Resume,
       queues, lock, call, ledger, timer, calm, still, rest, quiet
  <2>2. QED
    BY <2>1, <1>a
<1>19. ASSUME NEW w \in Workers, PopShared(w) PROVE BoundInv'
  <2>1. Shrinks
    BY <1>19, ActorTypes DEF PopShared, Take, IInv, TypeOK, CallInv, InFlight,
       Growing, Handing, Goto, Resume,
       queues, lock, call, ledger, timer, calm, still, rest, quiet
  <2>2. QED
    BY <2>1, <1>a
<1>20. ASSUME NEW w \in Workers, Steal(w) PROVE BoundInv'
  <2>1. Shrinks
    BY <1>20, ActorTypes DEF Steal, Found, NotFound, ScanEnd, TakeFrom, Take, IInv,
       TypeOK, CallInv, InFlight, Growing, Handing, Goto, Resume,
       queues, lock, call, ledger, timer, calm, still, rest, quiet
  <2>2. QED
    BY <2>1, <1>a
<1>21. ASSUME NEW w \in Workers, EnterSleep(w) PROVE BoundInv'
  <2>1. Shrinks
    BY <1>21, ActorTypes DEF EnterSleep, IInv, TypeOK, CallInv, InFlight, Growing,
       Handing, Goto, Resume,
       queues, lock, call, ledger, timer, calm, still, rest, quiet
  <2>2. QED
    BY <2>1, <1>a
<1>22. ASSUME NEW w \in Workers, WakeUp(w) PROVE BoundInv'
  <2>1. Shrinks
    BY <1>22, ActorTypes DEF WakeUp, IInv, TypeOK, CallInv, InFlight, Growing,
       Handing, Goto, Resume,
       queues, lock, call, ledger, timer, calm, still, rest, quiet
  <2>2. QED
    BY <2>1, <1>a
<1>23. ASSUME NEW w \in Workers, FinishTask(w) PROVE BoundInv'
  <2>1. Shrinks
    BY <1>23, ActorTypes DEF FinishTask, IInv, TypeOK, CallInv, InFlight, Growing,
       Handing, Goto, Resume,
       queues, lock, call, ledger, timer, calm, still, rest, quiet
  <2>2. QED
    BY <2>1, <1>a
<1>24. ASSUME NEW w \in Workers, Drain(w) PROVE BoundInv'
  <2>1. Shrinks
    BY <1>24, ActorTypes DEF Drain, IInv, TypeOK, CallInv, InFlight, Growing, Handing,
       Goto, Resume,
       queues, lock, call, ledger, timer, calm, still, rest, quiet
  <2>2. QED
    BY <2>1, <1>a
<1>25. ASSUME NEW c \in Waiters, WaitTest(c) PROVE BoundInv'
  <2>1. Shrinks
    BY <1>25, ActorTypes DEF WaitTest, IInv, TypeOK, CallInv, InFlight, Growing,
       Handing, Goto, Resume,
       queues, lock, call, ledger, timer, calm, still, rest, quiet
  <2>2. QED
    BY <2>1, <1>a
<1>26. ASSUME NEW c \in Waiters, WeakAllWorker(c) PROVE BoundInv'
  <2>1. Shrinks
    BY <1>26, ActorTypes DEF WeakAllWorker, IInv, TypeOK, CallInv, InFlight, Growing,
       Handing, Goto, Resume,
       queues, lock, call, ledger, timer, calm, still, rest, quiet
  <2>2. QED
    BY <2>1, <1>a
<1>27. ASSUME NEW c \in Waiters, WaitScanBegin(c) PROVE BoundInv'
  <2>1. Shrinks
    BY <1>27, ActorTypes DEF WaitScanBegin, IInv, TypeOK, CallInv, InFlight, Growing,
       Handing, Goto, Resume,
       queues, lock, call, ledger, timer, calm, still, rest, quiet
  <2>2. QED
    BY <2>1, <1>a
<1>28. ASSUME NEW c \in Waiters, WaitVisit(c) PROVE BoundInv'
  <2>1. Shrinks
    BY <1>28, ActorTypes DEF WaitVisit, IInv, TypeOK, CallInv, InFlight, Growing,
       Handing, Goto, Resume,
       queues, lock, call, ledger, timer, calm, still, rest, quiet
  <2>2. QED
    BY <2>1, <1>a
<1>29. ASSUME NEW c \in Waiters, WaitScanEnd(c) PROVE BoundInv'
  <2>1. Shrinks
    BY <1>29, ActorTypes DEF WaitScanEnd, ScanEnd, IInv, TypeOK, CallInv, InFlight,
       Growing, Handing, Goto, Resume,
       queues, lock, call, ledger, timer, calm, still, rest, quiet
  <2>2. QED
    BY <2>1, <1>a
<1>30. ASSUME NEW c \in Waiters, WaitEnter(c) PROVE BoundInv'
  <2>1. Shrinks
    BY <1>30, ActorTypes DEF WaitEnter, IInv, TypeOK, CallInv, InFlight, Growing,
       Handing, Goto, Resume,
       queues, lock, call, ledger, timer, calm, still, rest, quiet
  <2>2. QED
    BY <2>1, <1>a
<1>31. ASSUME NEW c \in Waiters, WaitWake(c) PROVE BoundInv'
  <2>1. Shrinks
    BY <1>31, ActorTypes DEF WaitWake, IInv, TypeOK, CallInv, InFlight, Growing,
       Handing, Goto, Resume,
       queues, lock, call, ledger, timer, calm, still, rest, quiet
  <2>2. QED
    BY <2>1, <1>a
<1>32. ASSUME NEW c \in Waiters, BeginWait(c) PROVE BoundInv'
  <2>1. Shrinks
    BY <1>32, ActorTypes DEF BeginWait, IInv, TypeOK, CallInv, InFlight, Growing,
       Handing, Goto, Resume,
       queues, lock, call, ledger, timer, calm, still, rest, quiet
  <2>2. QED
    BY <2>1, <1>a
<1>33. ASSUME StopChecked PROVE BoundInv'
  <2>1. Shrinks
    BY <1>33, ActorTypes DEF StopChecked, IInv, TypeOK, CallInv, InFlight, Growing,
       Handing, Goto, Resume,
       queues, lock, call, ledger, timer, calm, still, rest, quiet
  <2>2. QED
    BY <2>1, <1>a
<1>34. ASSUME EraseChecked PROVE BoundInv'
  <2>1. Shrinks
    BY <1>34, ActorTypes DEF EraseChecked, IInv, TypeOK, CallInv, InFlight, Growing,
       Handing, Goto, Resume,
       queues, lock, call, ledger, timer, calm, still, rest, quiet
  <2>2. QED
    BY <2>1, <1>a
<1>35. ASSUME JoinChecked PROVE BoundInv'
  <2>1. Shrinks
    BY <1>35, ActorTypes DEF JoinChecked, IInv, TypeOK, CallInv, InFlight, Growing,
       Handing, Goto, Resume,
       queues, lock, call, ledger, timer, calm, still, rest, quiet
  <2>2. QED
    BY <2>1, <1>a
<1>36. ASSUME StopTimer PROVE BoundInv'
  <2>1. Shrinks
    BY <1>36, ActorTypes DEF StopTimer, IInv, TypeOK, CallInv, InFlight, Growing,
       Handing, Goto, Resume,
       queues, lock, call, ledger, timer, calm, still, rest, quiet
  <2>2. QED
    BY <2>1, <1>a
<1>37. ASSUME LockPool PROVE BoundInv'
  <2>1. Shrinks
    BY <1>37, ActorTypes DEF LockPool, IInv, TypeOK, CallInv, InFlight, Growing,
       Handing, Goto, Resume,
       queues, lock, call, ledger, timer, calm, still, rest, quiet
  <2>2. QED
    BY <2>1, <1>a
<1>38. ASSUME BeginJoin PROVE BoundInv'
  <2>1. Shrinks
    BY <1>38, ActorTypes DEF BeginJoin, IInv, TypeOK, CallInv, InFlight, Growing,
       Handing, Goto, Resume,
       queues, lock, call, ledger, timer, calm, still, rest, quiet
  <2>2. QED
    BY <2>1, <1>a
<1>39. ASSUME JoinWorkers PROVE BoundInv'
  <2>1. Shrinks
    BY <1>39, ActorTypes DEF JoinWorkers, IInv, TypeOK, CallInv, InFlight, Growing,
       Handing, Goto, Resume,
       queues, lock, call, ledger, timer, calm, still, rest, quiet
  <2>2. QED
    BY <2>1, <1>a
<1>40. ASSUME BeginDestory PROVE BoundInv'
  <2>1. Shrinks
    BY <1>40, ActorTypes DEF BeginDestory, IInv, TypeOK, CallInv, InFlight, Growing,
       Handing, Goto, Resume,
       queues, lock, call, ledger, timer, calm, still, rest, quiet
  <2>2. QED
    BY <2>1, <1>a
<1>41. ASSUME NEW w \in Workers, StopWorker(w) PROVE BoundInv'
  <2>1. Shrinks
    BY <1>41, ActorTypes DEF StopWorker, IInv, TypeOK, CallInv, InFlight, Growing,
       Handing, Goto, Resume,
       queues, lock, call, ledger, timer, calm, still, rest, quiet
  <2>2. QED
    BY <2>1, <1>a
<1>42. ASSUME NEW w \in Workers, CheckKeepAlive(w) PROVE BoundInv'
  <2>1. Shrinks
    BY <1>42, ActorTypes DEF CheckKeepAlive, IInv, TypeOK, CallInv, InFlight, Growing,
       Handing, Goto, Resume,
       queues, lock, call, ledger, timer, calm, still, rest, quiet
  <2>2. QED
    BY <2>1, <1>a
<1>43. ASSUME NEW p \in Callers, NEW t \in Tasks, Submit(p, t) PROVE BoundInv'
  <2>1. Shrinks
    BY <1>43, ActorTypes DEF Submit, IInv, TypeOK, CallInv, InFlight, Growing,
       Handing, Goto, Resume,
       queues, lock, call, ledger, timer, calm, still, rest, quiet
  <2>2. QED
    BY <2>1, <1>a
<1>44. ASSUME NEW p \in Workers \cup Waiters, SpuriousWakeup(p) PROVE BoundInv'
  <2>1. Shrinks
    BY <1>44, ActorTypes DEF SpuriousWakeup, IInv, TypeOK, CallInv, InFlight, Growing,
       Handing, Goto, Resume,
       queues, lock, call, ledger, timer, calm, still, rest, quiet
  <2>2. QED
    BY <2>1, <1>a
<1>45. CASE UNCHANGED vars
  <2>1. Shrinks
    BY <1>45 DEF vars, InFlight, call
  <2>2. QED
    BY <2>1, <1>a
<1>46. QED
  BY <1>1, <1>2, <1>3, <1>4, <1>5, <1>6, <1>7, <1>8, <1>9, <1>10, <1>11, <1>12, <1>13,
     <1>14, <1>15, <1>16, <1>17, <1>18, <1>19, <1>20, <1>21, <1>22, <1>23, <1>24,
     <1>25, <1>26, <1>27, <1>28, <1>29, <1>30, <1>31, <1>32, <1>33, <1>34, <1>35,
     <1>36, <1>37, <1>38, <1>39, <1>40, <1>41, <1>42, <1>43, <1>44, <1>45, NextCases

-----------------------------------------------------------------------------

\* The invariant holds initially.
LEMMA InitInv == Init => IInv
<1> SUFFICES ASSUME Init PROVE IInv
  OBVIOUS
<1>1. workers_ \in SUBSET Workers
  BY DEF Init
<1>2. TypeOK
  <2>1. taskQueue_ \in [Workers -> Seq(Tasks)] /\ tasksQueue_ \in Seq(Tasks)
    BY DEF Init
  <2>2. DOMAIN pc = Actors
    BY DEF Init
  <2>3. QED
    BY <1>1, <2>1, <2>2 DEF Init, TypeOK
<1>3. CallInv
  BY ActorTypes DEF Init, CallInv, Handing, Growing, Holding, Adding
<1>4. LockInv
  BY DEF Init, LockInv, Writing, ScansStayValid
<1>5. QED
  BY <1>2, <1>3, <1>4 DEF IInv

LEMMA StepInv == IInv /\ [Next]_vars => IInv'
BY TypeStep, CallStep, LockStep DEF IInv

\* The invariant from which the theorems below follow.
THEOREM Invariance == Spec => []IInv
BY InitInv, StepInv, PTL DEF Spec

\* The variables of the pool keep their types: no thread hands over, runs or
\* checks something that is not there.
THEOREM TypeCorrect == Spec => []TypeOK
<1>1. IInv => TypeOK
  BY DEF IInv
<1>2. QED
  BY <1>1, Invariance, PTL

\* RandFind and Wait never hold an erased worker, for any number of threads.
THEOREM ScansValid == Spec => []ScansStayValid
<1>1. IInv => ScansStayValid
  BY DEF IInv, LockInv
<1>2. QED
  BY <1>1, Invariance, PTL

\* workers_ changes under the lock alone: when nobody iterates over it, and
\* DestoryPool does not.
THEOREM ChangesLocked == Spec => NoChangeUnderReader
<1> DEFINE Quiet == workers_' # workers_ => reading = {} /\ phase \notin {"stop", "join"}
<1>1. ASSUME [Next]_vars PROVE Quiet
  <2> USE DEF queues, lock, calm, still, rest, quiet
  <2>1. ASSUME NEW p \in Callers,
               \/ ChooseBranch(p) \/ TestRoom(p) \/ CreateWorker(p)
               \/ Give(p) \/ CountSleeping(p) \/ Enqueue(p)
               \/ CountWeak(p) \/ TestBacklog(p) \/ TestTimer(p)
               \/ NewTimer(p) \/ AddKeepAlive(p)
        PROVE  workers_' = workers_
    BY <2>1 DEF ChooseBranch, TestRoom, CreateWorker, Give, CountSleeping, Enqueue,
       CountWeak, TestBacklog, TestTimer, NewTimer, AddKeepAlive
  <2>2. ASSUME NEW p \in Callers, PushToWorker(p) \/ WeakRandomWoker(p)
        PROVE  workers_' = workers_
    BY <2>2 DEF PushToWorker, WeakRandomWoker
  <2>3. ASSUME NEW p \in Actors, ScanBegin(p) \/ ScanSkip(p) PROVE workers_' = workers_
    BY <2>3 DEF ScanBegin, ScanSkip
  <2>4. ASSUME NEW w \in Workers,
               \/ TestStop(w) \/ PopOwn(w) \/ PopShared(w) \/ Steal(w)
               \/ EnterSleep(w) \/ WakeUp(w) \/ FinishTask(w) \/ Drain(w)
        PROVE  workers_' = workers_
    BY <2>4 DEF TestStop, PopOwn, PopShared, Steal, EnterSleep, WakeUp, FinishTask, Drain
  <2>5. ASSUME NEW c \in Waiters,
               \/ WaitTest(c) \/ WeakAllWorker(c) \/ WaitScanBegin(c) \/ WaitVisit(c)
               \/ WaitScanEnd(c) \/ WaitEnter(c) \/ WaitWake(c) \/ BeginWait(c)
        PROVE  workers_' = workers_
    BY <2>5 DEF WaitTest, WeakAllWorker, WaitScanBegin, WaitVisit, WaitScanEnd,
       WaitEnter, WaitWake, BeginWait
  <2>6. CASE \/ StopChecked \/ JoinChecked \/ StopTimer
             \/ LockPool \/ BeginJoin \/ JoinWorkers \/ BeginDestory
    BY <2>6 DEF StopChecked, JoinChecked, StopTimer, LockPool, BeginJoin, JoinWorkers,
       BeginDestory
  <2>7. ASSUME NEW w \in Workers, StopWorker(w) \/ CheckKeepAlive(w)
        PROVE  workers_' = workers_
    BY <2>7 DEF StopWorker, CheckKeepAlive
  <2>8. ASSUME NEW p \in Callers, NEW t \in Tasks, Submit(p, t) PROVE workers_' = workers_
    BY <2>8 DEF Submit
  <2>9. ASSUME NEW p \in Workers \cup Waiters, SpuriousWakeup(p)
        PROVE  workers_' = workers_
    BY <2>9 DEF SpuriousWakeup
  <2>10. ASSUME NEW p \in Callers, AddWorker(p) PROVE Quiet
    BY <2>10 DEF AddWorker, LockFree, Writing
  <2>11. CASE EraseChecked
    BY <2>11 DEF EraseChecked, LockFree, Writing
  <2>12. CASE UNCHANGED vars
    BY <2>12 DEF vars
  <2> HIDE DEF Quiet
  <2>13. workers_' = workers_ => Quiet
    BY DEF Quiet
  <2>14. QED
    BY <1>1, <2>1, <2>2, <2>3, <2>4, <2>5, <2>6, <2>7, <2>8, <2>9, <2>10, <2>11,
       <2>12, <2>13, NextCases
<1>2. QED
  BY <1>1, PTL DEF Spec, NoChangeUnderReader

\* AddTask, which tests the number of workers without the lock, exceeds the
\* limit by at most one worker per further concurrent caller.
THEOREM WithinLimit == ASSUME Callers # {} PROVE Spec => []ThreadsBounded
<1>1. Init => BoundInv
  <2> SUFFICES ASSUME Init PROVE BoundInv
    OBVIOUS
  <2>1. TypeOK
    BY InitInv DEF IInv
  <2>2. InFlight = {}
    BY ActorTypes DEF Init, InFlight, Growing
  <2>3. Cardinality(InFlight) = 0
    BY <2>2, FS_EmptySet
  <2>4. Cardinality(workers_) <= Limit
    <3>1. Cardinality(workers_) \in {0, coreThreadSize_}
      BY FS_EmptySet DEF Init
    <3>2. QED
      BY <3>1, SizesAssumption DEF Limit
  <2>5. Cardinality(Callers) # 0
    BY <2>1, FiniteSets, FS_EmptySet
  <2>6. QED
    BY <2>1, <2>3, <2>4, <2>5, FiniteSets DEF BoundInv
<1>2. IInv /\ IInv' /\ BoundInv /\ [Next]_vars => BoundInv'
  BY BoundStep DEF IInv
<1>3. IInv /\ BoundInv => ThreadsBounded
  BY FiniteSets DEF IInv, BoundInv, ThreadsBounded
<1>4. QED
  BY <1>1, <1>2, <1>3, Invariance, PTL DEF Spec

-----------------------------------------------------------------------------
(* The tasks: none is lost, none is in two places, none is started twice.   *)
(* Where a task is in its queue does not matter for that, so that the       *)
(* argument is about the sets of tasks in the queues, and about queues that *)
(* hold no task twice.                                                      *)

\* The elements of a queue, and that it holds nothing twice.
Elems(q) == {q[i] : i \in DOMAIN q}
Distinct(q) == \A i, j \in DOMAIN q : q[i] = q[j] => i = j

\* With Q in the shared queue, O[w] in the queue of each worker w, h[p] in the
\* hand of each thread p, r[w] running on each worker w, S submitted and D done:
\* what was submitted and is not done is in one of these places, and only there.
Types(Q, O, h, r, S, D) ==
  /\ Q \subseteq Tasks /\ O \in [Workers -> SUBSET Tasks]
  /\ h \in [Actors -> Tasks \cup {None}] /\ r \in [Workers -> Tasks \cup {None}]
  /\ S \subseteq Tasks /\ D \subseteq S

Apart(Q, O, h, r) ==
  /\ \A w \in Workers : Q \cap O[w] = {} /\ r[w] \notin Q
  /\ \A p \in Actors : h[p] \notin Q
  /\ \A v, w \in Workers : v # w => O[v] \cap O[w] = {}
  /\ \A v, w \in Workers : r[w] \notin O[v]
  /\ \A p \in Actors, w \in Workers : h[p] \notin O[w]
  /\ \A p, q \in Actors : p # q /\ h[p] = h[q] => h[p] = None
  /\ \A v, w \in Workers : v # w /\ r[v] = r[w] => r[v] = None
  /\ \A p \in Actors, w \in Workers : h[p] = r[w] => h[p] = None

Placed(Q, O, h, r, t) ==
  \/ t \in Q
  \/ \E w \in Workers : t \in O[w] \/ r[w] = t
  \/ \E p \in Actors : h[p] = t

Sole(Q, O, h, r, S, D) ==
  /\ Types(Q, O, h, r, S, D)
  /\ Apart(Q, O, h, r)
  /\ \A t \in Tasks : t \in S \ D <=> Placed(Q, O, h, r, t)

Owned == [w \in Workers |-> Elems(taskQueue_[w])]

\* Hands are empty outside AddTask, and only a running worker has a task.
EmptyInv ==
  /\ \A p \in Actors : pc[p] \notin Handing => item[p] = None
  /\ \A w \in Workers : pc[w] \notin Adding \cup {"run"} => running[w] = None

TaskInv ==
  /\ Distinct(tasksQueue_)
  /\ \A w \in Workers : Distinct(taskQueue_[w])
  /\ Sole(Elems(tasksQueue_), Owned, item, running, submitted, done)

-----------------------------------------------------------------------------
(* Queues *)

\* Appending to a queue of tasks what is not in it.
LEMMA AppendElems ==
  ASSUME NEW q \in Seq(Tasks), NEW t \in Tasks
  PROVE  /\ Elems(Append(q, t)) = Elems(q) \cup {t}
         /\ t \notin Elems(q) /\ Distinct(q) => Distinct(Append(q, t))
<1>1. /\ DOMAIN q = 1 .. Len(q) /\ DOMAIN Append(q, t) = 1 .. Len(q) + 1
      /\ Len(q) \in Nat
      /\ \A i \in 1 .. Len(q) : Append(q, t)[i] = q[i]
      /\ Append(q, t)[Len(q) + 1] = t
  OBVIOUS
<1>2. QED
  BY <1>1 DEF Elems, Distinct

\* Taking the first element of a queue of tasks.
LEMMA TailElems ==
  ASSUME NEW q \in Seq(Tasks), q # <<>>
  PROVE  /\ Head(q) \in Elems(q)
         /\ Distinct(q) => /\ Elems(Tail(q)) = Elems(q) \ {Head(q)}
                           /\ Distinct(Tail(q))
<1>1. /\ DOMAIN q = 1 .. Len(q) /\ DOMAIN Tail(q) = 1 .. Len(q) - 1
      /\ Len(q) \in Nat \ {0}
      /\ \A i \in 1 .. Len(q) - 1 : Tail(q)[i] = q[i + 1]
      /\ Head(q) = q[1]
  OBVIOUS
<1>2. Head(q) \in Elems(q)
  BY <1>1 DEF Elems
<1>3. ASSUME Distinct(q) PROVE Elems(Tail(q)) = Elems(q) \ {Head(q)}
  <2>1. ASSUME NEW t \in Elems(Tail(q)) PROVE t \in Elems(q) \ {Head(q)}
    BY <1>1, <1>3 DEF Elems, Distinct
  <2>2. ASSUME NEW t \in Elems(q) \ {Head(q)} PROVE t \in Elems(Tail(q))
    <3>1. PICK i \in 1 .. Len(q) : t = q[i]
      BY <1>1, <2>2 DEF Elems
    <3>2. i - 1 \in 1 .. Len(q) - 1 /\ Tail(q)[i - 1] = t
      BY <1>1, <2>2, <3>1
    <3>3. QED
      BY <1>1, <3>2 DEF Elems
  <2>3. QED
    BY <2>1, <2>2
<1>4. ASSUME Distinct(q) PROVE Distinct(Tail(q))
  BY <1>1, <1>4 DEF Distinct
<1>5. QED
  BY <1>2, <1>3, <1>4

\* What is in a queue of tasks is a task.
LEMMA ElemsTasks ==
  ASSUME NEW q \in Seq(Tasks)
  PROVE  Elems(q) \subseteq Tasks
BY DEF Elems

-----------------------------------------------------------------------------
(* The ways of a task.  Each moves one task from one place to another. *)

\* A new task comes to a hand.
LEMMA SoleSubmit ==
  ASSUME NEW Q, NEW O, NEW h, NEW r, NEW S, NEW D, Sole(Q, O, h, r, S, D),
         NEW p \in Actors, h[p] = None, NEW t \in Tasks \ S
  PROVE  Sole(Q, O, [h EXCEPT ![p] = t], r, S \cup {t}, D)
<1> USE ActorTypes
<1>1. Types(Q, O, [h EXCEPT ![p] = t], r, S \cup {t}, D)
  BY DEF Sole, Types, Apart, Placed
<1>2. Apart(Q, O, [h EXCEPT ![p] = t], r)
  BY DEF Sole, Types, Apart, Placed
<1>3. ASSUME NEW u \in Tasks
      PROVE  u \in (S \cup {t}) \ D <=> Placed(Q, O, [h EXCEPT ![p] = t], r, u)
  BY DEF Sole, Types, Apart, Placed
<1>4. QED
  BY <1>1, <1>2, <1>3 DEF Sole

\* A task goes from a hand to the shared queue.
LEMMA SoleShare ==
  ASSUME NEW Q, NEW O, NEW h, NEW r, NEW S, NEW D, Sole(Q, O, h, r, S, D),
         NEW p \in Actors, h[p] # None
  PROVE  Sole(Q \cup {h[p]}, O, [h EXCEPT ![p] = None], r, S, D)
<1> USE ActorTypes
<1>1. Types(Q \cup {h[p]}, O, [h EXCEPT ![p] = None], r, S, D)
  BY DEF Sole, Types, Apart, Placed
<1>2. Apart(Q \cup {h[p]}, O, [h EXCEPT ![p] = None], r)
  BY DEF Sole, Types, Apart, Placed
<1>3. ASSUME NEW u \in Tasks
      PROVE  u \in S \ D <=> Placed(Q \cup {h[p]}, O, [h EXCEPT ![p] = None], r, u)
  BY DEF Sole, Types, Apart, Placed
<1>4. QED
  BY <1>1, <1>2, <1>3 DEF Sole

\* A task goes from a hand to the queue of a worker.
LEMMA SoleGive ==
  ASSUME NEW Q, NEW O, NEW h, NEW r, NEW S, NEW D, Sole(Q, O, h, r, S, D),
         NEW p \in Actors, h[p] # None, NEW w \in Workers
  PROVE  Sole(Q, [O EXCEPT ![w] = @ \cup {h[p]}], [h EXCEPT ![p] = None], r, S, D)
<1> USE ActorTypes
<1>1. Types(Q, [O EXCEPT ![w] = @ \cup {h[p]}], [h EXCEPT ![p] = None], r, S, D)
  BY DEF Sole, Types, Apart, Placed
<1>2. Apart(Q, [O EXCEPT ![w] = @ \cup {h[p]}], [h EXCEPT ![p] = None], r)
  BY DEF Sole, Types, Apart, Placed
<1>3. ASSUME NEW u \in Tasks
      PROVE  u \in S \ D
               <=> Placed(Q, [O EXCEPT ![w] = @ \cup {h[p]}], [h EXCEPT ![p] = None], r, u)
  BY DEF Sole, Types, Apart, Placed
<1>4. QED
  BY <1>1, <1>2, <1>3 DEF Sole

\* A worker takes a task from the shared queue.
LEMMA SoleTakeShared ==
  ASSUME NEW Q, NEW O, NEW h, NEW r, NEW S, NEW D, Sole(Q, O, h, r, S, D),
         NEW w \in Workers, r[w] = None, NEW t \in Q
  PROVE  Sole(Q \ {t}, O, h, [r EXCEPT ![w] = t], S, D)
<1> USE ActorTypes
<1>1. Types(Q \ {t}, O, h, [r EXCEPT ![w] = t], S, D)
  BY DEF Sole, Types, Apart, Placed
<1>2. Apart(Q \ {t}, O, h, [r EXCEPT ![w] = t])
  BY DEF Sole, Types, Apart, Placed
<1>3. ASSUME NEW u \in Tasks
      PROVE  u \in S \ D <=> Placed(Q \ {t}, O, h, [r EXCEPT ![w] = t], u)
  BY DEF Sole, Types, Apart, Placed
<1>4. QED
  BY <1>1, <1>2, <1>3 DEF Sole

\* A worker takes a task from the queue of a worker.
LEMMA SoleTakeOwned ==
  ASSUME NEW Q, NEW O, NEW h, NEW r, NEW S, NEW D, Sole(Q, O, h, r, S, D),
         NEW w \in Workers, r[w] = None, NEW v \in Workers, NEW t \in O[v]
  PROVE  Sole(Q, [O EXCEPT ![v] = @ \ {t}], h, [r EXCEPT ![w] = t], S, D)
<1> USE ActorTypes
<1>1. Types(Q, [O EXCEPT ![v] = @ \ {t}], h, [r EXCEPT ![w] = t], S, D)
  BY DEF Sole, Types, Apart, Placed
<1>2. Apart(Q, [O EXCEPT ![v] = @ \ {t}], h, [r EXCEPT ![w] = t])
  BY DEF Sole, Types, Apart, Placed
<1>3. ASSUME NEW u \in Tasks
      PROVE  u \in S \ D <=> Placed(Q, [O EXCEPT ![v] = @ \ {t}], h, [r EXCEPT ![w] = t], u)
  BY DEF Sole, Types, Apart, Placed
<1>4. QED
  BY <1>1, <1>2, <1>3 DEF Sole

\* A stopped worker returns a task to the shared queue.
LEMMA SoleReturn ==
  ASSUME NEW Q, NEW O, NEW h, NEW r, NEW S, NEW D, Sole(Q, O, h, r, S, D),
         NEW v \in Workers, NEW t \in O[v]
  PROVE  Sole(Q \cup {t}, [O EXCEPT ![v] = @ \ {t}], h, r, S, D)
<1> USE ActorTypes
<1>1. Types(Q \cup {t}, [O EXCEPT ![v] = @ \ {t}], h, r, S, D)
  BY DEF Sole, Types, Apart, Placed
<1>2. Apart(Q \cup {t}, [O EXCEPT ![v] = @ \ {t}], h, r)
  BY DEF Sole, Types, Apart, Placed
<1>3. ASSUME NEW u \in Tasks
      PROVE  u \in S \ D <=> Placed(Q \cup {t}, [O EXCEPT ![v] = @ \ {t}], h, r, u)
  BY DEF Sole, Types, Apart, Placed
<1>4. QED
  BY <1>1, <1>2, <1>3 DEF Sole

\* A task ends.
LEMMA SoleFinish ==
  ASSUME NEW Q, NEW O, NEW h, NEW r, NEW S, NEW D, Sole(Q, O, h, r, S, D),
         NEW w \in Workers, r[w] # None
  PROVE  Sole(Q, O, h, [r EXCEPT ![w] = None], S, D \cup {r[w]})
<1> USE ActorTypes
<1>1. Types(Q, O, h, [r EXCEPT ![w] = None], S, D \cup {r[w]})
  BY DEF Sole, Types, Apart, Placed
<1>2. Apart(Q, O, h, [r EXCEPT ![w] = None])
  BY DEF Sole, Types, Apart, Placed
<1>3. ASSUME NEW u \in Tasks
      PROVE  u \in S \ (D \cup {r[w]}) <=> Placed(Q, O, h, [r EXCEPT ![w] = None], u)
  BY DEF Sole, Types, Apart, Placed
<1>4. QED
  BY <1>1, <1>2, <1>3 DEF Sole

-----------------------------------------------------------------------------
(* The steps of the pool *)


\* A worker takes a task, or finds none.
LEMMA EmptyTake ==
  ASSUME TypeOK, EmptyInv, NEW w \in Workers, item' = item,
         pc[w] \in {"own", "shared", "steal"},
         \/ \E t : Take(w, t)
         \/ \E l : pc' = [pc EXCEPT ![w] = l] /\ running' = running
  PROVE  EmptyInv'
<1>1. item[w] = None /\ running[w] = None
  BY ActorTypes DEF EmptyInv, Handing, Growing, Holding, Adding
<1>2. /\ \A q \in Actors \ {w} : pc'[q] = pc[q]
      /\ \A v \in Workers \ {w} : running'[v] = running[v]
  BY ActorTypes DEF Take, Goto, TypeOK
<1>3. pc'[w] = "run" \/ running'[w] = None
  BY <1>1, ActorTypes DEF Take, Goto, TypeOK
<1>4. QED
  BY <1>1, <1>2, <1>3, ActorTypes DEF EmptyInv

\* Hands and workers are emptied where they should be.
LEMMA EmptyStep == IInv /\ EmptyInv /\ [Next]_vars => EmptyInv'
<1> SUFFICES ASSUME IInv, EmptyInv, [Next]_vars PROVE EmptyInv'
  OBVIOUS
<1> USE ActorTypes DEF IInv, TypeOK, CallInv, EmptyInv, Handing, Growing, Holding, Adding, Goto,
   Resume, queues, lock, call, ledger, timer, calm, still, rest, quiet
<1>1. ASSUME NEW p \in Callers, ChooseBranch(p) PROVE EmptyInv'
  BY <1>1 DEF ChooseBranch
<1>2. ASSUME NEW p \in Callers, TestRoom(p) PROVE EmptyInv'
  BY <1>2 DEF TestRoom
<1>3. ASSUME NEW p \in Callers, CreateWorker(p) PROVE EmptyInv'
  <2>1. PICK w \in Workers :
          /\ pc[w] = "none"
          /\ pc' = [pc EXCEPT ![w] = "loop", ![p] = IF pc[p] = "create" THEN "insert"
                                                  ELSE "insertTemporary"]
    BY <1>3 DEF CreateWorker
  <2>2. /\ p \in Actors /\ pc[p] \in {"create", "createTemporary"} /\ w # p
        /\ UNCHANGED <<item, running>>
    BY <1>3, <2>1 DEF CreateWorker
  <2>3. /\ pc'[w] = "loop"
        /\ pc[p] = "create" => pc'[p] = "insert"
        /\ pc[p] = "createTemporary" => pc'[p] = "insertTemporary"
        /\ \A q \in Actors \ {w, p} : pc'[q] = pc[q]
    BY <2>1, <2>2
  <2>4. QED
    BY <2>1, <2>2, <2>3
<1>4. ASSUME NEW p \in Callers, AddWorker(p) PROVE EmptyInv'
  BY <1>4 DEF AddWorker
<1>5. ASSUME NEW p \in Callers, Give(p) PROVE EmptyInv'
  BY <1>5 DEF Give, PushTo
<1>6. ASSUME NEW p \in Callers, CountSleeping(p) PROVE EmptyInv'
  BY <1>6 DEF CountSleeping
<1>7. ASSUME NEW p \in Callers, PushToWorker(p) PROVE EmptyInv'
  <2>1. p \in Actors
    OBVIOUS
  <2>2. CASE \E w \in scan[p] : Found(p, w) /\ PushTo(p, w) /\ Goto(p, Resume(p))
    <3>1. /\ pc' = [pc EXCEPT ![p] = Resume(p)] /\ item' = [item EXCEPT ![p] = None]
          /\ running' = running
      BY <1>7, <2>2 DEF PushToWorker, PushTo
    <3>2. QED
      BY <2>1, <3>1
  <2>3. CASE /\ Goto(p, IF pc[p] = "pushSleeping" THEN "pushAny" ELSE "enqueue")
             /\ UNCHANGED <<queues, item, cv_>>
    <3>1. /\ pc' = [pc EXCEPT ![p] = "pushAny"] \/ pc' = [pc EXCEPT ![p] = "enqueue"]
          /\ UNCHANGED <<item, running>>
      BY <1>7, <2>3 DEF PushToWorker
    <3>2. CASE pc' = [pc EXCEPT ![p] = "pushAny"]
      BY <2>1, <3>1, <3>2
    <3>3. CASE pc' = [pc EXCEPT ![p] = "enqueue"]
      BY <2>1, <3>1, <3>3
    <3>4. QED
      BY <3>1, <3>2, <3>3
  <2>4. QED
    BY <1>7, <2>2, <2>3 DEF PushToWorker
<1>8. ASSUME NEW p \in Callers, Enqueue(p) PROVE EmptyInv'
  BY <1>8 DEF Enqueue
<1>9. ASSUME NEW p \in Callers, CountWeak(p) PROVE EmptyInv'
  BY <1>9 DEF CountWeak
<1>10. ASSUME NEW p \in Callers, WeakRandomWoker(p) PROVE EmptyInv'
  <2>1. /\ p \in Actors /\ pc[p] = "weak" /\ UNCHANGED <<item, running>>
        /\ pc' = [pc EXCEPT ![p] = Resume(p)] \/ pc' = [pc EXCEPT ![p] = "backlog"]
    BY <1>10 DEF WeakRandomWoker
  <2>2. CASE pc' = [pc EXCEPT ![p] = Resume(p)]
    BY <2>1, <2>2
  <2>3. CASE pc' = [pc EXCEPT ![p] = "backlog"]
    BY <2>1, <2>3
  <2>4. QED
    BY <2>1, <2>2, <2>3
<1>11. ASSUME NEW p \in Callers, TestBacklog(p) PROVE EmptyInv'
  BY <1>11 DEF TestBacklog
<1>12. ASSUME NEW p \in Callers, TestTimer(p) PROVE EmptyInv'
  BY <1>12 DEF TestTimer
<1>13. ASSUME NEW p \in Callers, NewTimer(p) PROVE EmptyInv'
  <2>1. /\ p \in Actors /\ pc[p] = "timerNew" /\ UNCHANGED <<item, running>>
        /\ pc' = [pc EXCEPT ![p] = "keepAlive"] \/ pc' = pc
    BY <1>13 DEF NewTimer
  <2>2. CASE pc' = [pc EXCEPT ![p] = "keepAlive"]
    BY <2>1, <2>2
  <2>3. CASE pc' = pc
    BY <2>1, <2>3
  <2>4. QED
    BY <2>1, <2>2, <2>3
<1>14. ASSUME NEW p \in Callers, AddKeepAlive(p) PROVE EmptyInv'
  BY <1>14 DEF AddKeepAlive
<1>15. ASSUME NEW p \in Actors, ScanBegin(p) PROVE EmptyInv'
  BY <1>15 DEF ScanBegin
<1>16. ASSUME NEW p \in Actors, ScanSkip(p) PROVE EmptyInv'
  BY <1>16 DEF ScanSkip
<1>17. ASSUME NEW w \in Workers, TestStop(w) PROVE EmptyInv'
  BY <1>17 DEF TestStop
<1>18. ASSUME NEW w \in Workers, PopOwn(w) PROVE EmptyInv'
  <2>1. /\ pc[w] = "own" /\ item' = item
        /\ \/ Take(w, Head(taskQueue_[w]))
           \/ pc' = [pc EXCEPT ![w] = "shared"] /\ running' = running
    BY <1>18 DEF PopOwn, TakeFrom
  <2>2. QED
    BY <2>1, EmptyTake
<1>19. ASSUME NEW w \in Workers, PopShared(w) PROVE EmptyInv'
  <2>1. /\ pc[w] = "shared" /\ item' = item
        /\ \/ Take(w, Head(tasksQueue_))
           \/ pc' = [pc EXCEPT ![w] = "steal"] /\ running' = running
    BY <1>19 DEF PopShared
  <2>2. QED
    BY <2>1, EmptyTake
<1>20. ASSUME NEW w \in Workers, Steal(w) PROVE EmptyInv'
  <2>1. /\ pc[w] = "steal" /\ item' = item
        /\ \/ \E v \in scan[w] : Take(w, Head(taskQueue_[v]))
           \/ pc' = [pc EXCEPT ![w] = "enter"] /\ running' = running
    BY <1>20 DEF Steal, TakeFrom
  <2>2. QED
    BY <2>1, EmptyTake
<1>21. ASSUME NEW w \in Workers, EnterSleep(w) PROVE EmptyInv'
  BY <1>21 DEF EnterSleep
<1>22. ASSUME NEW w \in Workers, WakeUp(w) PROVE EmptyInv'
  BY <1>22 DEF WakeUp
<1>23. ASSUME NEW w \in Workers, FinishTask(w) PROVE EmptyInv'
  BY <1>23 DEF FinishTask
<1>24. ASSUME NEW w \in Workers, Drain(w) PROVE EmptyInv'
  <2>1. /\ pc[w] = "drain" /\ UNCHANGED <<item, running>>
        /\ pc' = pc \/ pc' = [pc EXCEPT ![w] = "exited"]
    BY <1>24 DEF Drain
  <2>2. CASE pc' = pc
    BY <2>1, <2>2
  <2>3. CASE pc' = [pc EXCEPT ![w] = "exited"]
    BY <2>1, <2>3
  <2>4. QED
    BY <2>1, <2>2, <2>3
<1>25. ASSUME NEW c \in Waiters, WaitTest(c) PROVE EmptyInv'
  BY <1>25 DEF WaitTest
<1>26. ASSUME NEW c \in Waiters, WeakAllWorker(c) PROVE EmptyInv'
  BY <1>26 DEF WeakAllWorker
<1>27. ASSUME NEW c \in Waiters, WaitScanBegin(c) PROVE EmptyInv'
  BY <1>27 DEF WaitScanBegin
<1>28. ASSUME NEW c \in Waiters, WaitVisit(c) PROVE EmptyInv'
  <2>1. /\ c \in Actors /\ c \notin Workers /\ pc[c] \in {"waitClean", "waitDirty"}
        /\ UNCHANGED <<item, running>>
        /\ pc' = pc \/ pc' = [pc EXCEPT ![c] = "waitDirty"]
    BY <1>28 DEF WaitVisit
  <2>2. CASE pc' = pc
    BY <2>1, <2>2
  <2>3. CASE pc' = [pc EXCEPT ![c] = "waitDirty"]
    BY <2>1, <2>3
  <2>4. QED
    BY <2>1, <2>2, <2>3
<1>29. ASSUME NEW c \in Waiters, WaitScanEnd(c) PROVE EmptyInv'
  BY <1>29 DEF WaitScanEnd, ScanEnd
<1>30. ASSUME NEW c \in Waiters, WaitEnter(c) PROVE EmptyInv'
  BY <1>30 DEF WaitEnter
<1>31. ASSUME NEW c \in Waiters, WaitWake(c) PROVE EmptyInv'
  BY <1>31 DEF WaitWake
<1>32. ASSUME NEW c \in Waiters, BeginWait(c) PROVE EmptyInv'
  BY <1>32 DEF BeginWait
<1>33. ASSUME StopChecked PROVE EmptyInv'
  BY <1>33 DEF StopChecked
<1>34. ASSUME EraseChecked PROVE EmptyInv'
  BY <1>34 DEF EraseChecked
<1>35. ASSUME JoinChecked PROVE EmptyInv'
  BY <1>35 DEF JoinChecked
<1>36. ASSUME StopTimer PROVE EmptyInv'
  BY <1>36 DEF StopTimer
<1>37. ASSUME LockPool PROVE EmptyInv'
  BY <1>37 DEF LockPool
<1>38. ASSUME BeginJoin PROVE EmptyInv'
  BY <1>38 DEF BeginJoin
<1>39. ASSUME JoinWorkers PROVE EmptyInv'
  BY <1>39 DEF JoinWorkers
<1>40. ASSUME BeginDestory PROVE EmptyInv'
  BY <1>40 DEF BeginDestory
<1>41. ASSUME NEW w \in Workers, StopWorker(w) PROVE EmptyInv'
  BY <1>41 DEF StopWorker
<1>42. ASSUME NEW w \in Workers, CheckKeepAlive(w) PROVE EmptyInv'
  BY <1>42 DEF CheckKeepAlive
<1>43. ASSUME NEW p \in Callers, NEW t \in Tasks, Submit(p, t) PROVE EmptyInv'
  BY <1>43 DEF Submit
<1>44. ASSUME NEW p \in Workers \cup Waiters, SpuriousWakeup(p) PROVE EmptyInv'
  BY <1>44 DEF SpuriousWakeup
<1>45. CASE UNCHANGED vars
  BY <1>45 DEF vars
<1>46. QED
  BY <1>1, <1>2, <1>3, <1>4, <1>5, <1>6, <1>7, <1>8, <1>9, <1>10, <1>11, <1>12, <1>13,
     <1>14, <1>15, <1>16, <1>17, <1>18, <1>19, <1>20, <1>21, <1>22, <1>23, <1>24,
     <1>25, <1>26, <1>27, <1>28, <1>29, <1>30, <1>31, <1>32, <1>33, <1>34, <1>35,
     <1>36, <1>37, <1>38, <1>39, <1>40, <1>41, <1>42, <1>43, <1>44, <1>45, NextCases


tasks == <<tasksQueue_, taskQueue_, item, running, submitted, done>>

\* A step that moves no task.
LEMMA TaskSame == TaskInv /\ UNCHANGED tasks => TaskInv'
BY DEF TaskInv, tasks, Owned

\* The queues hold tasks, and Owned says which.
LEMMA OwnedTypes ==
  ASSUME TypeOK
  PROVE  /\ tasksQueue_ \in Seq(Tasks)
         /\ \A w \in Workers : taskQueue_[w] \in Seq(Tasks) /\ Owned[w] = Elems(taskQueue_[w])
BY DEF TypeOK, Owned

\* p puts its task into the queue of w.
LEMMA PushStep ==
  ASSUME IInv, TaskInv, NEW p \in Actors, NEW w \in Workers, pc[p] \in Handing,
         PushTo(p, w), UNCHANGED <<running, submitted, done>>
  PROVE  TaskInv'
<1>1. item[p] \in Tasks /\ item[p] # None
  BY ActorTypes DEF IInv, CallInv
<1>2. taskQueue_[w] \in Seq(Tasks) /\ Owned[w] = Elems(taskQueue_[w])
  BY OwnedTypes DEF IInv
<1>3. item[p] \notin Elems(taskQueue_[w])
  BY <1>2 DEF TaskInv, Sole, Apart
<1>4. /\ taskQueue_' = [taskQueue_ EXCEPT ![w] = Append(taskQueue_[w], item[p])]
      /\ item' = [item EXCEPT ![p] = None] /\ tasksQueue_' = tasksQueue_
  BY DEF PushTo
<1>5. Owned' = [Owned EXCEPT ![w] = Owned[w] \cup {item[p]}]
  BY <1>1, <1>2, <1>4, AppendElems DEF Owned, IInv, TypeOK
<1>6. Sole(Elems(tasksQueue_), Owned', item', running, submitted, done)
  BY <1>1, <1>4, <1>5, SoleGive DEF TaskInv
<1>7. \A v \in Workers : Distinct(taskQueue_'[v])
  BY <1>1, <1>2, <1>3, <1>4, AppendElems DEF TaskInv, IInv, TypeOK
<1>8. QED
  BY <1>4, <1>6, <1>7 DEF TaskInv

\* w takes the first task of v's queue.
LEMMA TakeStep ==
  ASSUME IInv, EmptyInv, TaskInv, NEW w \in Workers, NEW v \in Workers,
         pc[w] \in {"own", "steal"}, taskQueue_[v] # <<>>, TakeFrom(w, v),
         UNCHANGED <<item, submitted, done>>
  PROVE  TaskInv'
<1> DEFINE t == Head(taskQueue_[v])
<1>1. running[w] = None
  BY ActorTypes DEF EmptyInv, Adding, Handing, Growing, Holding
<1>2. taskQueue_[v] \in Seq(Tasks) /\ Owned[v] = Elems(taskQueue_[v])
  BY OwnedTypes DEF IInv
<1>3. /\ taskQueue_' = [taskQueue_ EXCEPT ![v] = Tail(taskQueue_[v])]
      /\ running' = [running EXCEPT ![w] = t] /\ tasksQueue_' = tasksQueue_
  BY DEF TakeFrom, Take
<1>4. /\ t \in Owned[v] /\ Elems(Tail(taskQueue_[v])) = Owned[v] \ {t}
      /\ Distinct(Tail(taskQueue_[v]))
  BY <1>2, TailElems DEF TaskInv
<1>5. Owned' = [Owned EXCEPT ![v] = Owned[v] \ {t}]
  BY <1>2, <1>3, <1>4 DEF Owned, IInv, TypeOK
<1>6. Sole(Elems(tasksQueue_), Owned', item, running', submitted, done)
  <2> HIDE DEF t
  <2>1. QED
    BY <1>1, <1>3, <1>4, <1>5, SoleTakeOwned DEF TaskInv
<1>7. \A u \in Workers : Distinct(taskQueue_'[u])
  BY <1>3, <1>4 DEF TaskInv, IInv, TypeOK
<1>8. QED
  BY <1>3, <1>6, <1>7 DEF TaskInv

\* Every step keeps every task in one place.
LEMMA TaskStep == IInv /\ EmptyInv /\ TaskInv /\ [Next]_vars => TaskInv'
<1> SUFFICES ASSUME IInv, EmptyInv, TaskInv, [Next]_vars PROVE TaskInv'
  OBVIOUS
<1>a. ASSUME UNCHANGED tasks PROVE TaskInv'
  BY <1>a, TaskSame
<1> USE ActorTypes
<1>1. ASSUME NEW p \in Callers, ChooseBranch(p) PROVE TaskInv'
  BY <1>1, <1>a DEF ChooseBranch, tasks, queues, call, ledger, calm, still, rest, quiet
<1>2. ASSUME NEW p \in Callers, TestRoom(p) PROVE TaskInv'
  BY <1>2, <1>a DEF TestRoom, tasks, queues, call, ledger, calm, still, rest, quiet
<1>3. ASSUME NEW p \in Callers, CreateWorker(p) PROVE TaskInv'
  BY <1>3, <1>a DEF CreateWorker, tasks, queues, call, ledger, calm, still, rest, quiet
<1>4. ASSUME NEW p \in Callers, AddWorker(p) PROVE TaskInv'
  BY <1>4, <1>a DEF AddWorker, tasks, queues, call, ledger, calm, still, rest, quiet
<1>5. ASSUME NEW p \in Callers, Give(p) PROVE TaskInv'
  <2>1. pc[p] \in Handing /\ target[p] \in Workers /\ p \in Actors
    BY <1>5 DEF Give, Handing, Holding, IInv, CallInv
  <2>2. PushTo(p, target[p]) /\ UNCHANGED <<running, submitted, done>>
    BY <1>5 DEF Give, ledger
  <2>3. QED
    BY <2>1, <2>2, PushStep
<1>6. ASSUME NEW p \in Callers, CountSleeping(p) PROVE TaskInv'
  BY <1>6, <1>a DEF CountSleeping, tasks, queues, call, ledger, calm, still, rest, quiet
<1>7. ASSUME NEW p \in Callers, PushToWorker(p) PROVE TaskInv'
  <2>1. pc[p] \in Handing /\ p \in Actors
    BY <1>7 DEF PushToWorker, Handing
  <2>2. CASE \E w \in scan[p] : Found(p, w) /\ PushTo(p, w) /\ Goto(p, Resume(p))
    <3>1. PICK w \in Workers : PushTo(p, w)
      BY <2>1, <2>2 DEF IInv, TypeOK
    <3>2. UNCHANGED <<running, submitted, done>>
      BY <1>7 DEF PushToWorker, ledger
    <3>3. QED
      BY <2>1, <3>1, <3>2, PushStep
  <2>3. CASE UNCHANGED <<queues, item, cv_>>
    BY <1>7, <2>3, <1>a DEF PushToWorker, tasks, queues, ledger
  <2>4. QED
    BY <1>7, <2>2, <2>3 DEF PushToWorker
<1>8. ASSUME NEW p \in Callers, Enqueue(p) PROVE TaskInv'
  <2>1. p \in Actors /\ item[p] \in Tasks /\ item[p] # None
    BY <1>8 DEF Enqueue, IInv, CallInv, Handing
  <2>2. /\ tasksQueue_' = Append(tasksQueue_, item[p])
        /\ item' = [item EXCEPT ![p] = None]
        /\ UNCHANGED <<taskQueue_, running, submitted, done>>
    BY <1>8 DEF Enqueue, ledger
  <2>3. tasksQueue_ \in Seq(Tasks) /\ item[p] \notin Elems(tasksQueue_)
    BY <2>1 DEF IInv, TypeOK, TaskInv, Sole, Apart
  <2>4. Elems(tasksQueue_') = Elems(tasksQueue_) \cup {item[p]} /\ Distinct(tasksQueue_')
    BY <2>1, <2>2, <2>3, AppendElems DEF TaskInv
  <2>5. Sole(Elems(tasksQueue_) \cup {item[p]}, Owned, [item EXCEPT ![p] = None], running,
             submitted, done)
    BY <2>1, SoleShare DEF TaskInv
  <2>6. QED
    BY <2>2, <2>4, <2>5 DEF TaskInv, Owned
<1>9. ASSUME NEW p \in Callers, CountWeak(p) PROVE TaskInv'
  BY <1>9, <1>a DEF CountWeak, tasks, queues, call, ledger, calm, still, rest, quiet
<1>10. ASSUME NEW p \in Callers, WeakRandomWoker(p) PROVE TaskInv'
  BY <1>10, <1>a DEF WeakRandomWoker, tasks, queues, call, ledger, calm, still, rest,
     quiet
<1>11. ASSUME NEW p \in Callers, TestBacklog(p) PROVE TaskInv'
  BY <1>11, <1>a DEF TestBacklog, tasks, queues, call, ledger, calm, still, rest, quiet
<1>12. ASSUME NEW p \in Callers, TestTimer(p) PROVE TaskInv'
  BY <1>12, <1>a DEF TestTimer, tasks, queues, call, ledger, calm, still, rest, quiet
<1>13. ASSUME NEW p \in Callers, NewTimer(p) PROVE TaskInv'
  BY <1>13, <1>a DEF NewTimer, tasks, queues, call, ledger, calm, still, rest, quiet
<1>14. ASSUME NEW p \in Callers, AddKeepAlive(p) PROVE TaskInv'
  BY <1>14, <1>a DEF AddKeepAlive, tasks, queues, call, ledger, calm, still, rest, quiet
<1>15. ASSUME NEW p \in Actors, ScanBegin(p) PROVE TaskInv'
  BY <1>15, <1>a DEF ScanBegin, tasks, queues, call, ledger, calm, still, rest, quiet
<1>16. ASSUME NEW p \in Actors, ScanSkip(p) PROVE TaskInv'
  BY <1>16, <1>a DEF ScanSkip, tasks, queues, call, ledger, calm, still, rest, quiet
<1>17. ASSUME NEW w \in Workers, TestStop(w) PROVE TaskInv'
  BY <1>17, <1>a DEF TestStop, tasks, queues, call, ledger, calm, still, rest, quiet
<1>18. ASSUME NEW w \in Workers, PopOwn(w) PROVE TaskInv'
  <2>1. CASE taskQueue_[w] # <<>> /\ TakeFrom(w, w)
    BY <1>18, <2>1, TakeStep DEF PopOwn, call, ledger
  <2>2. CASE UNCHANGED <<queues, noTaskCv_, running>>
    BY <1>18, <2>2, <1>a DEF PopOwn, tasks, queues, call, ledger
  <2>3. QED
    BY <1>18, <2>1, <2>2 DEF PopOwn
<1>19. ASSUME NEW w \in Workers, PopShared(w) PROVE TaskInv'
  <2>1. CASE tasksQueue_ # <<>>
    <3> DEFINE t == Head(tasksQueue_)
    <3>1. /\ running' = [running EXCEPT ![w] = t] /\ tasksQueue_' = Tail(tasksQueue_)
          /\ UNCHANGED <<taskQueue_, item, submitted, done>>
      BY <1>19, <2>1 DEF PopShared, Take, call, ledger
    <3>2. running[w] = None
      BY <1>19 DEF PopShared, EmptyInv, Adding, Handing, Growing, Holding
    <3>3. /\ t \in Elems(tasksQueue_) /\ Elems(tasksQueue_') = Elems(tasksQueue_) \ {t}
          /\ Distinct(tasksQueue_')
      BY <2>1, <3>1, OwnedTypes, TailElems DEF TaskInv, IInv
    <3> HIDE DEF t
    <3>4. Sole(Elems(tasksQueue_) \ {t}, Owned, item, [running EXCEPT ![w] = t],
               submitted, done)
      BY <3>2, <3>3, SoleTakeShared DEF TaskInv
    <3>5. QED
      BY <3>1, <3>3, <3>4 DEF TaskInv, Owned
  <2>2. CASE tasksQueue_ = <<>>
    BY <1>19, <2>2, <1>a DEF PopShared, tasks, call, ledger
  <2>3. QED
    BY <2>1, <2>2
<1>20. ASSUME NEW w \in Workers, Steal(w) PROVE TaskInv'
  <2>1. CASE \E v \in scan[w] : Found(w, v) /\ TakeFrom(w, v)
    <3>1. PICK v \in Workers : Found(w, v) /\ TakeFrom(w, v)
      BY <2>1 DEF IInv, TypeOK
    <3>2. taskQueue_[v] # <<>> /\ pc[w] = "steal" /\ UNCHANGED <<item, submitted, done>>
      BY <1>20, <3>1 DEF Steal, Found, Fits, call, ledger
    <3>3. QED
      BY <3>1, <3>2, TakeStep
  <2>2. CASE UNCHANGED <<queues, running>>
    BY <1>20, <2>2, <1>a DEF Steal, tasks, queues, call, ledger
  <2>3. QED
    BY <1>20, <2>1, <2>2 DEF Steal
<1>21. ASSUME NEW w \in Workers, EnterSleep(w) PROVE TaskInv'
  BY <1>21, <1>a DEF EnterSleep, tasks, queues, call, ledger, calm, still, rest, quiet
<1>22. ASSUME NEW w \in Workers, WakeUp(w) PROVE TaskInv'
  BY <1>22, <1>a DEF WakeUp, tasks, queues, call, ledger, calm, still, rest, quiet
<1>23. ASSUME NEW w \in Workers, FinishTask(w) PROVE TaskInv'
  <2>1. running[w] # None
    BY <1>23 DEF FinishTask, IInv, CallInv
  <2>2. /\ done' = done \cup {running[w]} /\ running' = [running EXCEPT ![w] = None]
        /\ UNCHANGED <<tasksQueue_, taskQueue_, item, submitted>>
    BY <1>23 DEF FinishTask, queues, call
  <2>3. Sole(Elems(tasksQueue_), Owned, item, [running EXCEPT ![w] = None], submitted,
             done \cup {running[w]})
    BY <2>1, SoleFinish DEF TaskInv
  <2>4. QED
    BY <2>2, <2>3 DEF TaskInv, Owned
<1>24. ASSUME NEW w \in Workers, Drain(w) PROVE TaskInv'
  <2>1. CASE taskQueue_[w] # <<>>
    <3> DEFINE t == Head(taskQueue_[w])
    <3>1. /\ tasksQueue_' = Append(tasksQueue_, t)
          /\ taskQueue_' = [taskQueue_ EXCEPT ![w] = Tail(taskQueue_[w])]
          /\ UNCHANGED <<item, running, submitted, done>>
      BY <1>24, <2>1 DEF Drain, call, ledger
    <3>2. /\ taskQueue_[w] \in Seq(Tasks) /\ tasksQueue_ \in Seq(Tasks)
          /\ Owned[w] = Elems(taskQueue_[w])
      BY OwnedTypes DEF IInv
    <3>3. /\ t \in Owned[w] /\ Elems(Tail(taskQueue_[w])) = Owned[w] \ {t}
          /\ Distinct(Tail(taskQueue_[w]))
      BY <2>1, <3>2, TailElems DEF TaskInv
    <3>4. t \in Tasks /\ t \notin Elems(tasksQueue_)
      BY <3>2, <3>3, ElemsTasks DEF TaskInv, Sole, Apart
    <3>5. Elems(tasksQueue_') = Elems(tasksQueue_) \cup {t} /\ Distinct(tasksQueue_')
      BY <3>1, <3>2, <3>4, AppendElems DEF TaskInv
    <3>6. Owned' = [Owned EXCEPT ![w] = Owned[w] \ {t}]
      BY <3>1, <3>2, <3>3 DEF Owned, IInv, TypeOK
    <3>7. \A v \in Workers : Distinct(taskQueue_'[v])
      BY <3>1, <3>3 DEF TaskInv, IInv, TypeOK
    <3> HIDE DEF t
    <3>8. Sole(Elems(tasksQueue_) \cup {t}, Owned', item, running, submitted, done)
      BY <3>3, <3>6, SoleReturn DEF TaskInv
    <3>9. QED
      BY <3>1, <3>5, <3>7, <3>8 DEF TaskInv
  <2>2. CASE taskQueue_[w] = <<>>
    BY <1>24, <2>2, <1>a DEF Drain, tasks, queues, call, ledger
  <2>3. QED
    BY <2>1, <2>2
<1>25. ASSUME NEW c \in Waiters, WaitTest(c) PROVE TaskInv'
  BY <1>25, <1>a DEF WaitTest, tasks, queues, call, ledger, calm, still, rest, quiet
<1>26. ASSUME NEW c \in Waiters, WeakAllWorker(c) PROVE TaskInv'
  BY <1>26, <1>a DEF WeakAllWorker, tasks, queues, call, ledger, calm, still, rest, quiet
<1>27. ASSUME NEW c \in Waiters, WaitScanBegin(c) PROVE TaskInv'
  BY <1>27, <1>a DEF WaitScanBegin, tasks, queues, call, ledger, calm, still, rest, quiet
<1>28. ASSUME NEW c \in Waiters, WaitVisit(c) PROVE TaskInv'
  BY <1>28, <1>a DEF WaitVisit, tasks, queues, call, ledger, calm, still, rest, quiet
<1>29. ASSUME NEW c \in Waiters, WaitScanEnd(c) PROVE TaskInv'
  BY <1>29, <1>a DEF WaitScanEnd, tasks, queues, call, ledger, calm, still, rest, quiet
<1>30. ASSUME NEW c \in Waiters, WaitEnter(c) PROVE TaskInv'
  BY <1>30, <1>a DEF WaitEnter, tasks, queues, call, ledger, calm, still, rest, quiet
<1>31. ASSUME NEW c \in Waiters, WaitWake(c) PROVE TaskInv'
  BY <1>31, <1>a DEF WaitWake, tasks, queues, call, ledger, calm, still, rest, quiet
<1>32. ASSUME NEW c \in Waiters, BeginWait(c) PROVE TaskInv'
  BY <1>32, <1>a DEF BeginWait, tasks, queues, call, ledger, calm, still, rest, quiet
<1>33. ASSUME StopChecked PROVE TaskInv'
  BY <1>33, <1>a DEF StopChecked, tasks, queues, call, ledger, calm, still, rest, quiet
<1>34. ASSUME EraseChecked PROVE TaskInv'
  BY <1>34, <1>a DEF EraseChecked, tasks, queues, call, ledger, calm, still, rest, quiet
<1>35. ASSUME JoinChecked PROVE TaskInv'
  BY <1>35, <1>a DEF JoinChecked, tasks, queues, call, ledger, calm, still, rest, quiet
<1>36. ASSUME StopTimer PROVE TaskInv'
  BY <1>36, <1>a DEF StopTimer, tasks, queues, call, ledger, calm, still, rest, quiet
<1>37. ASSUME LockPool PROVE TaskInv'
  BY <1>37, <1>a DEF LockPool, tasks, queues, call, ledger, calm, still, rest, quiet
<1>38. ASSUME BeginJoin PROVE TaskInv'
  BY <1>38, <1>a DEF BeginJoin, tasks, queues, call, ledger, calm, still, rest, quiet
<1>39. ASSUME JoinWorkers PROVE TaskInv'
  BY <1>39, <1>a DEF JoinWorkers, tasks, queues, call, ledger, calm, still, rest, quiet
<1>40. ASSUME BeginDestory PROVE TaskInv'
  BY <1>40, <1>a DEF BeginDestory, tasks, queues, call, ledger, calm, still, rest, quiet
<1>41. ASSUME NEW w \in Workers, StopWorker(w) PROVE TaskInv'
  BY <1>41, <1>a DEF StopWorker, tasks, queues, call, ledger, calm, still, rest, quiet
<1>42. ASSUME NEW w \in Workers, CheckKeepAlive(w) PROVE TaskInv'
  BY <1>42, <1>a DEF CheckKeepAlive, tasks, queues, call, ledger, calm, still, rest, quiet
<1>43. ASSUME NEW p \in Callers, NEW t \in Tasks, Submit(p, t) PROVE TaskInv'
  <2>1. p \in Actors /\ item[p] = None /\ t \in Tasks \ submitted
    BY <1>43 DEF Submit, EmptyInv, Handing
  <2>2. /\ submitted' = submitted \cup {t} /\ item' = [item EXCEPT ![p] = t]
        /\ UNCHANGED <<tasksQueue_, taskQueue_, running, done>>
    BY <1>43 DEF Submit, queues
  <2>3. Sole(Elems(tasksQueue_), Owned, [item EXCEPT ![p] = t], running,
             submitted \cup {t}, done)
    BY <2>1, SoleSubmit DEF TaskInv
  <2>4. QED
    BY <2>2, <2>3 DEF TaskInv, Owned
<1>44. ASSUME NEW p \in Workers \cup Waiters, SpuriousWakeup(p) PROVE TaskInv'
  BY <1>44, <1>a DEF SpuriousWakeup, tasks, queues, call, ledger, calm, still, rest, quiet
<1>45. CASE UNCHANGED vars
  BY <1>45, <1>a DEF vars, tasks, queues, call, ledger
<1>46. QED
  BY <1>1, <1>2, <1>3, <1>4, <1>5, <1>6, <1>7, <1>8, <1>9, <1>10, <1>11, <1>12, <1>13,
     <1>14, <1>15, <1>16, <1>17, <1>18, <1>19, <1>20, <1>21, <1>22, <1>23, <1>24,
     <1>25, <1>26, <1>27, <1>28, <1>29, <1>30, <1>31, <1>32, <1>33, <1>34, <1>35,
     <1>36, <1>37, <1>38, <1>39, <1>40, <1>41, <1>42, <1>43, <1>44, <1>45, NextCases


-----------------------------------------------------------------------------
(* No task is lost or doubled *)

\* Initially there is no task.
LEMMA TaskInit == Init => EmptyInv /\ TaskInv
<1> SUFFICES ASSUME Init PROVE EmptyInv /\ TaskInv
  OBVIOUS
<1>1. /\ tasksQueue_ = <<>> /\ taskQueue_ = [w \in Workers |-> <<>>]
      /\ item = [p \in Actors |-> None] /\ running = [w \in Workers |-> None]
      /\ submitted = {} /\ done = {}
  BY DEF Init
<1>2. Elems(<<>>) = {} /\ Distinct(<<>>)
  BY DEF Elems, Distinct
<1>3. Owned = [w \in Workers |-> {}]
  BY <1>1, <1>2 DEF Owned
<1>4. Sole({}, [w \in Workers |-> {}], item, running, {}, {})
  BY <1>1, ActorTypes DEF Sole, Types, Apart, Placed
<1>5. TaskInv
  BY <1>1, <1>2, <1>3, <1>4 DEF TaskInv
<1>6. EmptyInv
  BY <1>1, ActorTypes DEF EmptyInv
<1>7. QED
  BY <1>5, <1>6

\* The invariant about tasks.
LEMMA TaskInvariance == Spec => [](IInv /\ EmptyInv /\ TaskInv)
<1>1. IInv /\ EmptyInv /\ TaskInv /\ [Next]_vars => EmptyInv' /\ TaskInv'
  BY EmptyStep, TaskStep
<1>2. QED
  BY <1>1, TaskInit, Invariance, PTL DEF Spec

\* A task has one place while it is Placed, or is stranded, and no place otherwise.
LEMMA OnePlace ==
  ASSUME IInv, TaskInv, NEW t \in Tasks,
         \A w \in Workers : OutOfReach(w) => w \in keepAlive
  PROVE  IF t \in submitted \ done
         THEN Cardinality(Places(t)) = 1 \/ (Stranded(t) /\ Places(t) = {})
         ELSE Places(t) = {} /\ ~Stranded(t)
<1> DEFINE Q == SharedPlaces(t)
           O == QueuePlaces(t)
           H == HandPlaces(t)
           R == RunPlaces(t)
           Live == t \in submitted \ done
<1>1. Places(t) = Q \cup O \cup H \cup R
  BY DEF Places
<1>2. /\ Apart(Elems(tasksQueue_), Owned, item, running)
      /\ Live <=> Placed(Elems(tasksQueue_), Owned, item, running, t)
      /\ t # None
  BY ActorTypes DEF TaskInv, Sole
<1>3. t \notin Elems(tasksQueue_) => Q = {}
  BY DEF Elems, SharedPlaces
<1>4. (\A w \in Workers : t \in Owned[w] => OutOfReach(w)) => O = {}
  BY DEF Elems, Owned, QueuePlaces
<1>5. (\A p \in Actors : item[p] # t) => H = {}
  BY DEF HandPlaces
<1>6. (\A w \in Workers : running[w] # t) => R = {}
  BY DEF RunPlaces
<1>7. ASSUME ~Live PROVE Places(t) = {} /\ ~Stranded(t)
  <2>1. \A w \in Workers : t \notin Owned[w]
    BY <1>2, <1>7 DEF Placed
  <2>2. Places(t) = {}
    BY <1>1, <1>2, <1>3, <1>4, <1>5, <1>6, <1>7, <2>1 DEF Placed
  <2>3. ~Stranded(t)
    BY <2>1 DEF Stranded, Elems, Owned, IInv, TypeOK
  <2>4. QED
    BY <2>2, <2>3
<1>8. ASSUME NEW x, Places(t) = {x} PROVE Cardinality(Places(t)) = 1
  BY <1>8, FS_Singleton
<1>9. ASSUME t \in Elems(tasksQueue_) PROVE Cardinality(Places(t)) = 1
  <2>1. PICK i \in DOMAIN tasksQueue_ : tasksQueue_[i] = t
    BY <1>9 DEF Elems
  <2>2. Q = {<<"shared", i>>}
    BY <2>1 DEF TaskInv, Distinct, SharedPlaces
  <2>3. Places(t) = {<<"shared", i>>}
    BY <1>1, <1>2, <1>4, <1>5, <1>6, <1>9, <2>2 DEF Apart
  <2>4. QED
    BY <1>8, <2>3
<1>10. ASSUME NEW w \in Workers, t \in Owned[w]
       PROVE  Cardinality(Places(t)) = 1 \/ (Stranded(t) /\ Places(t) = {})
  <2>1. PICK i \in DOMAIN taskQueue_[w] : taskQueue_[w][i] = t
    BY <1>10 DEF Elems, Owned
  <2>2. \A v \in Workers \ {w} : t \notin Owned[v]
    BY <1>2, <1>10 DEF Apart
  <2>3. Q = {} /\ H = {} /\ R = {}
    BY <1>2, <1>3, <1>5, <1>6, <1>10 DEF Apart
  <2>4. CASE OutOfReach(w)
    <3>1. Stranded(t)
      BY <2>1, <2>4 DEF Stranded
    <3>2. O = {}
      BY <1>4, <2>2, <2>4
    <3>3. QED
      BY <1>1, <2>3, <3>1, <3>2
  <2>5. CASE ~OutOfReach(w)
    <3>1. {j \in DOMAIN taskQueue_[w] : taskQueue_[w][j] = t} = {i}
      BY <2>1 DEF TaskInv, Distinct
    <3>2. \A v \in Workers \ {w} : {j \in DOMAIN taskQueue_[v] : taskQueue_[v][j] = t} = {}
      BY <2>2 DEF Elems, Owned
    <3>3. O = {<<w, i>>}
      BY <2>5, <3>1, <3>2 DEF QueuePlaces
    <3>4. Places(t) = {<<w, i>>}
      BY <1>1, <2>3, <3>3
    <3>5. QED
      BY <1>8, <3>4
  <2>6. QED
    BY <2>4, <2>5
<1>11. ASSUME NEW p \in Actors, item[p] = t PROVE Cardinality(Places(t)) = 1
  <2>1. H = {<<"hand", p>>}
    BY <1>2, <1>11 DEF Apart, HandPlaces
  <2>2. Q = {} /\ O = {} /\ R = {}
    BY <1>2, <1>3, <1>4, <1>6, <1>11 DEF Apart
  <2>3. Places(t) = {<<"hand", p>>}
    BY <1>1, <2>1, <2>2
  <2>4. QED
    BY <1>8, <2>3
<1>12. ASSUME NEW w \in Workers, running[w] = t PROVE Cardinality(Places(t)) = 1
  <2>1. R = {<<"run", w>>}
    BY <1>2, <1>12 DEF Apart, RunPlaces
  <2>2. Q = {} /\ O = {} /\ H = {}
    BY <1>2, <1>3, <1>4, <1>5, <1>12 DEF Apart
  <2>3. Places(t) = {<<"run", w>>}
    BY <1>1, <2>1, <2>2
  <2>4. QED
    BY <1>8, <2>3
<1>13. Live => Cardinality(Places(t)) = 1 \/ (Stranded(t) /\ Places(t) = {})
  BY <1>2, <1>9, <1>10, <1>11, <1>12 DEF Placed
<1>14. QED
  BY <1>7, <1>13

-----------------------------------------------------------------------------
(* The pool is a bag of tasks *)

\* How far each task has come, as WorkerPool!Bag computes it.
Status ==
  [t \in Tasks |-> IF \E w \in Workers : running[w] = t THEN "running"
                   ELSE IF t \in done THEN "done"
                   ELSE IF t \in submitted THEN "waiting"
                   ELSE "new"]

\* A worker starts a task that was in a queue.
LEMMA StartTask ==
  ASSUME TypeOK, TaskInv, NEW w \in Workers, running[w] = None, NEW t \in Tasks,
         t \in Elems(tasksQueue_) \/ \E v \in Workers : t \in Owned[v],
         running' = [running EXCEPT ![w] = t], UNCHANGED <<submitted, done>>
  PROVE  Bag!Next
<1>1. /\ \A v \in Workers : running[v] # t
      /\ t \in submitted /\ t \notin done
  BY DEF TaskInv, Sole, Apart, Placed
<1>2. /\ running'[w] = t
      /\ \A v \in Workers \ {w} : running'[v] = running[v]
  BY DEF TypeOK
<1>3. Status[t] = "waiting"
  BY <1>1 DEF Status
<1>4. Status' = [Status EXCEPT ![t] = "running"]
  <2>1. \A u \in Tasks \ {t} :
          (\E v \in Workers : running'[v] = u) <=> (\E v \in Workers : running[v] = u)
    BY <1>2, ActorTypes
  <2>2. QED
    BY <1>2, <2>1 DEF Status
<1>5. QED
  BY <1>3, <1>4 DEF Status, Bag!Next, Bag!Start, Bag!Move

\* A step that starts and ends no task does not change how far the tasks are.
LEMMA SameStatus ==
  ASSUME UNCHANGED <<running, submitted, done>>
  PROVE  Status' = Status
BY DEF Status


\* A worker that takes a task starts it.
LEMMA TakeFromStart ==
  ASSUME IInv, EmptyInv, TaskInv, NEW w \in Workers, NEW v \in Workers,
         pc[w] \in {"own", "steal"}, taskQueue_[v] # <<>>, TakeFrom(w, v),
         UNCHANGED ledger
  PROVE  Bag!Next
<1> DEFINE t == Head(taskQueue_[v])
<1>1. running[w] = None
  BY ActorTypes DEF EmptyInv, Adding, Handing, Growing, Holding
<1>2. t \in Owned[v] /\ t \in Tasks
  BY OwnedTypes, TailElems, ElemsTasks DEF IInv
<1>3. running' = [running EXCEPT ![w] = t] /\ UNCHANGED <<submitted, done>>
  BY DEF TakeFrom, Take, ledger
<1> HIDE DEF t
<1>4. QED
  BY <1>1, <1>2, <1>3, StartTask DEF IInv

\* The initial states map to the initial states of TaskBag.
LEMMA RefinementInit == Init => Bag!Init
<1> SUFFICES ASSUME Init PROVE Bag!Init
  OBVIOUS
<1>1. /\ \A w \in Workers : running[w] = None
      /\ submitted = {} /\ done = {}
  BY DEF Init
<1>2. QED
  BY <1>1, ActorTypes DEF Bag!Init

\* Every step maps to a step of TaskBag or to a stutter.
LEMMA RefinementStep ==
  ASSUME IInv, EmptyInv, TaskInv, [Next]_vars
  PROVE  [Bag!Next]_(Status)
<1>a. ASSUME UNCHANGED <<running, submitted, done>> PROVE Status' = Status
  BY <1>a, SameStatus
<1> USE ActorTypes
<1>1. ASSUME NEW p \in Callers, ChooseBranch(p) PROVE [Bag!Next]_(Status)
  BY <1>1, <1>a DEF ChooseBranch, ledger, calm, still, rest, quiet
<1>2. ASSUME NEW p \in Callers, TestRoom(p) PROVE [Bag!Next]_(Status)
  BY <1>2, <1>a DEF TestRoom, ledger, calm, still, rest, quiet
<1>3. ASSUME NEW p \in Callers, CreateWorker(p) PROVE [Bag!Next]_(Status)
  BY <1>3, <1>a DEF CreateWorker, ledger, calm, still, rest, quiet
<1>4. ASSUME NEW p \in Callers, AddWorker(p) PROVE [Bag!Next]_(Status)
  BY <1>4, <1>a DEF AddWorker, ledger, calm, still, rest, quiet
<1>5. ASSUME NEW p \in Callers, Give(p) PROVE [Bag!Next]_(Status)
  BY <1>5, <1>a DEF Give, ledger, calm, still, rest, quiet
<1>6. ASSUME NEW p \in Callers, CountSleeping(p) PROVE [Bag!Next]_(Status)
  BY <1>6, <1>a DEF CountSleeping, ledger, calm, still, rest, quiet
<1>7. ASSUME NEW p \in Callers, PushToWorker(p) PROVE [Bag!Next]_(Status)
  BY <1>7, <1>a DEF PushToWorker, ledger, calm, still, rest, quiet
<1>8. ASSUME NEW p \in Callers, Enqueue(p) PROVE [Bag!Next]_(Status)
  BY <1>8, <1>a DEF Enqueue, ledger, calm, still, rest, quiet
<1>9. ASSUME NEW p \in Callers, CountWeak(p) PROVE [Bag!Next]_(Status)
  BY <1>9, <1>a DEF CountWeak, ledger, calm, still, rest, quiet
<1>10. ASSUME NEW p \in Callers, WeakRandomWoker(p) PROVE [Bag!Next]_(Status)
  BY <1>10, <1>a DEF WeakRandomWoker, ledger, calm, still, rest, quiet
<1>11. ASSUME NEW p \in Callers, TestBacklog(p) PROVE [Bag!Next]_(Status)
  BY <1>11, <1>a DEF TestBacklog, ledger, calm, still, rest, quiet
<1>12. ASSUME NEW p \in Callers, TestTimer(p) PROVE [Bag!Next]_(Status)
  BY <1>12, <1>a DEF TestTimer, ledger, calm, still, rest, quiet
<1>13. ASSUME NEW p \in Callers, NewTimer(p) PROVE [Bag!Next]_(Status)
  BY <1>13, <1>a DEF NewTimer, ledger, calm, still, rest, quiet
<1>14. ASSUME NEW p \in Callers, AddKeepAlive(p) PROVE [Bag!Next]_(Status)
  BY <1>14, <1>a DEF AddKeepAlive, ledger, calm, still, rest, quiet
<1>15. ASSUME NEW p \in Actors, ScanBegin(p) PROVE [Bag!Next]_(Status)
  BY <1>15, <1>a DEF ScanBegin, ledger, calm, still, rest, quiet
<1>16. ASSUME NEW p \in Actors, ScanSkip(p) PROVE [Bag!Next]_(Status)
  BY <1>16, <1>a DEF ScanSkip, ledger, calm, still, rest, quiet
<1>17. ASSUME NEW w \in Workers, TestStop(w) PROVE [Bag!Next]_(Status)
  BY <1>17, <1>a DEF TestStop, ledger, calm, still, rest, quiet
<1>18. ASSUME NEW w \in Workers, PopOwn(w) PROVE [Bag!Next]_(Status)
  <2>1. CASE taskQueue_[w] # <<>> /\ TakeFrom(w, w)
    BY <1>18, <2>1, TakeFromStart DEF PopOwn
  <2>2. CASE UNCHANGED <<queues, noTaskCv_, running>>
    BY <1>18, <2>2, <1>a DEF PopOwn, ledger
  <2>3. QED
    BY <1>18, <2>1, <2>2 DEF PopOwn
<1>19. ASSUME NEW w \in Workers, PopShared(w) PROVE [Bag!Next]_(Status)
  <2>1. CASE tasksQueue_ # <<>>
    <3> DEFINE t == Head(tasksQueue_)
    <3>1. running' = [running EXCEPT ![w] = t] /\ UNCHANGED <<submitted, done>>
      BY <1>19, <2>1 DEF PopShared, Take, ledger
    <3>2. running[w] = None
      BY <1>19 DEF PopShared, EmptyInv, Adding, Handing, Growing, Holding
    <3>3. t \in Elems(tasksQueue_) /\ t \in Tasks
      BY <2>1, OwnedTypes, TailElems, ElemsTasks DEF IInv
    <3> HIDE DEF t
    <3>4. QED
      BY <3>1, <3>2, <3>3, StartTask DEF IInv
  <2>2. CASE tasksQueue_ = <<>>
    BY <1>19, <2>2, <1>a DEF PopShared, ledger
  <2>3. QED
    BY <2>1, <2>2
<1>20. ASSUME NEW w \in Workers, Steal(w) PROVE [Bag!Next]_(Status)
  <2>1. CASE \E v \in scan[w] : Found(w, v) /\ TakeFrom(w, v)
    <3>1. PICK v \in Workers : Found(w, v) /\ TakeFrom(w, v)
      BY <2>1 DEF IInv, TypeOK
    <3>2. taskQueue_[v] # <<>> /\ pc[w] = "steal" /\ UNCHANGED ledger
      BY <1>20, <3>1 DEF Steal, Found, Fits
    <3>3. QED
      BY <3>1, <3>2, TakeFromStart
  <2>2. CASE UNCHANGED <<queues, running>>
    BY <1>20, <2>2, <1>a DEF Steal, ledger
  <2>3. QED
    BY <1>20, <2>1, <2>2 DEF Steal
<1>21. ASSUME NEW w \in Workers, EnterSleep(w) PROVE [Bag!Next]_(Status)
  BY <1>21, <1>a DEF EnterSleep, ledger, calm, still, rest, quiet
<1>22. ASSUME NEW w \in Workers, WakeUp(w) PROVE [Bag!Next]_(Status)
  BY <1>22, <1>a DEF WakeUp, ledger, calm, still, rest, quiet
<1>23. ASSUME NEW w \in Workers, FinishTask(w) PROVE [Bag!Next]_(Status)
  <2>1. running[w] # None /\ running[w] \in Tasks /\ running[w] \notin done
    BY <1>23 DEF FinishTask, IInv, CallInv, TypeOK, TaskInv, Sole, Placed
  <2>2. done' = done \cup {running[w]} /\ running' = [running EXCEPT ![w] = None]
        /\ submitted' = submitted
    BY <1>23 DEF FinishTask
  <2>3. \A v \in Workers \ {w} : running'[v] = running[v] /\ running[v] # running[w]
    BY <2>1, <2>2 DEF IInv, TypeOK, TaskInv, Sole, Apart
  <2>4. running'[w] = None
    BY <2>2 DEF IInv, TypeOK
  <2>5. Status[running[w]] = "running"
    BY <2>1 DEF Status
  <2>6. Status' = [Status EXCEPT ![running[w]] = "done"]
    <3>1. \A u \in Tasks \ {running[w]} :
            (\E v \in Workers : running'[v] = u) <=> (\E v \in Workers : running[v] = u)
      BY <2>3, <2>4
    <3>2. \A v \in Workers : running'[v] # running[w]
      BY <2>1, <2>3, <2>4
    <3>3. QED
      BY <2>1, <2>2, <3>1, <3>2 DEF Status
  <2>7. QED
    BY <2>1, <2>5, <2>6 DEF Status, Bag!Next, Bag!Finish, Bag!Move
<1>24. ASSUME NEW w \in Workers, Drain(w) PROVE [Bag!Next]_(Status)
  BY <1>24, <1>a DEF Drain, ledger, calm, still, rest, quiet
<1>25. ASSUME NEW c \in Waiters, WaitTest(c) PROVE [Bag!Next]_(Status)
  BY <1>25, <1>a DEF WaitTest, ledger, calm, still, rest, quiet
<1>26. ASSUME NEW c \in Waiters, WeakAllWorker(c) PROVE [Bag!Next]_(Status)
  BY <1>26, <1>a DEF WeakAllWorker, ledger, calm, still, rest, quiet
<1>27. ASSUME NEW c \in Waiters, WaitScanBegin(c) PROVE [Bag!Next]_(Status)
  BY <1>27, <1>a DEF WaitScanBegin, ledger, calm, still, rest, quiet
<1>28. ASSUME NEW c \in Waiters, WaitVisit(c) PROVE [Bag!Next]_(Status)
  BY <1>28, <1>a DEF WaitVisit, ledger, calm, still, rest, quiet
<1>29. ASSUME NEW c \in Waiters, WaitScanEnd(c) PROVE [Bag!Next]_(Status)
  BY <1>29, <1>a DEF WaitScanEnd, ledger, calm, still, rest, quiet
<1>30. ASSUME NEW c \in Waiters, WaitEnter(c) PROVE [Bag!Next]_(Status)
  BY <1>30, <1>a DEF WaitEnter, ledger, calm, still, rest, quiet
<1>31. ASSUME NEW c \in Waiters, WaitWake(c) PROVE [Bag!Next]_(Status)
  BY <1>31, <1>a DEF WaitWake, ledger, calm, still, rest, quiet
<1>32. ASSUME NEW c \in Waiters, BeginWait(c) PROVE [Bag!Next]_(Status)
  BY <1>32, <1>a DEF BeginWait, ledger, calm, still, rest, quiet
<1>33. ASSUME StopChecked PROVE [Bag!Next]_(Status)
  BY <1>33, <1>a DEF StopChecked, ledger, calm, still, rest, quiet
<1>34. ASSUME EraseChecked PROVE [Bag!Next]_(Status)
  BY <1>34, <1>a DEF EraseChecked, ledger, calm, still, rest, quiet
<1>35. ASSUME JoinChecked PROVE [Bag!Next]_(Status)
  BY <1>35, <1>a DEF JoinChecked, ledger, calm, still, rest, quiet
<1>36. ASSUME StopTimer PROVE [Bag!Next]_(Status)
  BY <1>36, <1>a DEF StopTimer, ledger, calm, still, rest, quiet
<1>37. ASSUME LockPool PROVE [Bag!Next]_(Status)
  BY <1>37, <1>a DEF LockPool, ledger, calm, still, rest, quiet
<1>38. ASSUME BeginJoin PROVE [Bag!Next]_(Status)
  BY <1>38, <1>a DEF BeginJoin, ledger, calm, still, rest, quiet
<1>39. ASSUME JoinWorkers PROVE [Bag!Next]_(Status)
  BY <1>39, <1>a DEF JoinWorkers, ledger, calm, still, rest, quiet
<1>40. ASSUME BeginDestory PROVE [Bag!Next]_(Status)
  BY <1>40, <1>a DEF BeginDestory, ledger, calm, still, rest, quiet
<1>41. ASSUME NEW w \in Workers, StopWorker(w) PROVE [Bag!Next]_(Status)
  BY <1>41, <1>a DEF StopWorker, ledger, calm, still, rest, quiet
<1>42. ASSUME NEW w \in Workers, CheckKeepAlive(w) PROVE [Bag!Next]_(Status)
  BY <1>42, <1>a DEF CheckKeepAlive, ledger, calm, still, rest, quiet
<1>43. ASSUME NEW p \in Callers, NEW t \in Tasks, Submit(p, t) PROVE [Bag!Next]_(Status)
  <2>1. t \notin submitted /\ submitted' = submitted \cup {t} /\ UNCHANGED <<running, done>>
    BY <1>43 DEF Submit
  <2>2. t \notin done /\ \A w \in Workers : running[w] # t
    BY <2>1 DEF TaskInv, Sole, Types, Placed
  <2>3. Status[t] = "new" /\ Status' = [Status EXCEPT ![t] = "waiting"]
    BY <2>1, <2>2 DEF Status
  <2>4. QED
    BY <2>3 DEF Status, Bag!Next, Bag!Submit, Bag!Move
<1>44. ASSUME NEW p \in Workers \cup Waiters, SpuriousWakeup(p) PROVE [Bag!Next]_(Status)
  BY <1>44, <1>a DEF SpuriousWakeup, ledger, calm, still, rest, quiet
<1>45. CASE UNCHANGED vars
  BY <1>45, <1>a DEF vars, ledger
<1>46. QED
  BY <1>1, <1>2, <1>3, <1>4, <1>5, <1>6, <1>7, <1>8, <1>9, <1>10, <1>11, <1>12, <1>13,
     <1>14, <1>15, <1>16, <1>17, <1>18, <1>19, <1>20, <1>21, <1>22, <1>23, <1>24,
     <1>25, <1>26, <1>27, <1>28, <1>29, <1>30, <1>31, <1>32, <1>33, <1>34, <1>35,
     <1>36, <1>37, <1>38, <1>39, <1>40, <1>41, <1>42, <1>43, <1>44, <1>45, NextCases

\* A pool is a bag of tasks: queues, thieves, temporary workers and shutdown
\* never start a task twice, nor one that was not submitted.
THEOREM ImplementsTaskBag == Spec => TaskBagSpec
<1>1. IInv /\ EmptyInv /\ TaskInv /\ [Next]_vars => [Bag!Next]_(Status)
  BY RefinementStep
<1>2. Spec => [][Bag!Next]_(Status)
  BY <1>1, TaskInvariance, PTL DEF Spec
<1>3. QED
  BY RefinementInit, <1>2, PTL DEF Spec, TaskBagSpec, Bag!Spec, Status

-----------------------------------------------------------------------------
(* The life of a worker: created, inserted, stopped, joined.  The third part *)
(* of the proofs is about what is left when the pool has been destroyed.    *)

\* What decides whether a worker lives and who can find it.
life == <<target, workers_, stop_, timer, phase, aborted>>

\* No thread of the worker, or one that has ended.
Ended == {"none", "exited"}

\* p goes on, and nothing happens to the life of any worker.
Moved(p) ==
  /\ pc' = [pc EXCEPT ![p] = pc'[p]]
  /\ {pc[p], pc'[p]} \cap (Ended \cup Holding) = {}
  /\ pc[p] = "idle" => phase = "open"
  /\ pc[p] # "drain" /\ pc'[p] = "drain" => p \in Workers /\ stop_[p]
  /\ UNCHANGED life

\* A stopped worker has returned its tasks and ends.
Exit(w) ==
  /\ pc[w] = "drain"
  /\ taskQueue_[w] = <<>>
  /\ pc' = [pc EXCEPT ![w] = "exited"]
  /\ UNCHANGED life

\* The steps in which a worker is created, inserted, handed over or put under
\* the keep-alive check.
Lead(p) ==
  CreateWorker(p) \/ AddWorker(p) \/ Give(p) \/ TestTimer(p) \/ NewTimer(p) \/ AddKeepAlive(p)

\* The steps of the timer thread and of the owner of the pool.
Shutdown ==
  \/ StopChecked \/ EraseChecked \/ JoinChecked
  \/ BeginDestory \/ StopTimer \/ LockPool \/ BeginJoin \/ JoinWorkers
  \/ \E w \in Workers : StopWorker(w) \/ CheckKeepAlive(w)

\* What the steps of the pool do to the life of its workers.
LEMMA LifeCases ==
  ASSUME IInv, [Next]_vars
  PROVE  \/ UNCHANGED <<pc, life>>
         \/ \E p \in Actors : Moved(p)
         \/ \E w \in Workers : Exit(w)
         \/ \E p \in Callers : Lead(p)
         \/ Shutdown
<1> USE ActorTypes DEF IInv, TypeOK, Holding, Ended, Goto, Resume, life, Moved,
   queues, lock, call, ledger, timer, calm, still, rest, quiet
<1>1. ASSUME NEW p \in Callers,
             \/ ChooseBranch(p) \/ TestRoom(p) \/ CountSleeping(p) \/ Enqueue(p)
             \/ CountWeak(p) \/ TestBacklog(p)
      PROVE  Moved(p)
  BY <1>1 DEF ChooseBranch, TestRoom, CountSleeping, Enqueue, CountWeak, TestBacklog
<1>2. ASSUME NEW p \in Callers, PushToWorker(p) PROVE Moved(p)
  BY <1>2 DEF PushToWorker, PushTo
<1>3. ASSUME NEW p \in Callers, WeakRandomWoker(p) PROVE Moved(p)
  BY <1>3 DEF WeakRandomWoker
<1>4. ASSUME NEW p \in Actors, ScanBegin(p) \/ ScanSkip(p) PROVE UNCHANGED <<pc, life>>
  BY <1>4 DEF ScanBegin, ScanSkip
<1>5. ASSUME NEW w \in Workers, TestStop(w) \/ EnterSleep(w) \/ WakeUp(w) \/ FinishTask(w)
      PROVE  Moved(w)
  BY <1>5 DEF TestStop, EnterSleep, WakeUp, FinishTask
<1>6. ASSUME NEW w \in Workers, PopOwn(w) \/ PopShared(w) \/ Steal(w) PROVE Moved(w)
  BY <1>6 DEF PopOwn, PopShared, Steal, TakeFrom, Take
<1>7. ASSUME NEW w \in Workers, Drain(w) PROVE UNCHANGED <<pc, life>> \/ Exit(w)
  BY <1>7 DEF Drain, Exit
<1>8. ASSUME NEW c \in Waiters,
             \/ WaitTest(c) \/ WeakAllWorker(c) \/ WaitScanBegin(c)
             \/ WaitScanEnd(c) \/ WaitEnter(c) \/ WaitWake(c) \/ BeginWait(c)
      PROVE  Moved(c)
  BY <1>8 DEF WaitTest, WeakAllWorker, WaitScanBegin, WaitScanEnd, WaitEnter,
     WaitWake, BeginWait
<1>9. ASSUME NEW c \in Waiters, WaitVisit(c) PROVE Moved(c) \/ UNCHANGED <<pc, life>>
  BY <1>9 DEF WaitVisit
<1>10. ASSUME NEW p \in Callers, NEW t \in Tasks, Submit(p, t) PROVE Moved(p)
  BY <1>10 DEF Submit
<1>11. ASSUME NEW p \in Workers \cup Waiters, SpuriousWakeup(p) PROVE UNCHANGED <<pc, life>>
  BY <1>11 DEF SpuriousWakeup
<1>12. CASE UNCHANGED vars
  BY <1>12 DEF vars
<1>13. QED
  BY <1>1, <1>2, <1>3, <1>4, <1>5, <1>6, <1>7, <1>8, <1>9, <1>10, <1>11, <1>12,
     NextCases, ActorTypes DEF Lead, Shutdown

\* The calls that have created a worker and not inserted it yet.
Registering == {"insert", "insertTemporary"}

Alive(w) == pc[w] \notin Ended

\* DestoryPool begins when the calls from outside have returned.
OutsideInv == phase # "open" => \A p \in Submitters \cup Waiters : pc[p] = "idle"

\* Only a call that has created a worker holds one.
TargetInv == \A p \in Actors : pc[p] \notin Holding => target[p] = None

\* A worker that lives can be found in workers_, or somebody is responsible for
\* it: the call that created it, or the keep-alive check that stopped it.
FoundInv ==
  \A w \in Workers : Alive(w) =>
    \/ w \in workers_
    \/ \E p \in Actors : pc[p] \in Registering /\ target[p] = w
    \/ timer_ = "join" /\ checked = w

\* Among any workers there is one that none of them created: a worker exists
\* before it can create another.
RingInv ==
  \A S \in SUBSET Workers : S # {} => \E w \in S : \A p \in S : target[p] # w

ShutdownInv == OutsideInv /\ TargetInv /\ FoundInv /\ RingInv /\ AllJoined

\* Nobody calls from outside once DestoryPool has begun.
LEMMA OutsideStep == IInv /\ OutsideInv /\ [Next]_vars => OutsideInv'
<1> SUFFICES ASSUME IInv, OutsideInv, [Next]_vars PROVE OutsideInv'
  OBVIOUS
<1> USE ActorTypes DEF IInv, TypeOK, OutsideInv, Holding, Ended, Goto, Resume, life,
   queues, lock, call, ledger, timer, calm, still, rest, quiet
<1>1. CASE UNCHANGED <<pc, life>>
  BY <1>1
<1>2. ASSUME NEW p \in Actors, Moved(p) PROVE OutsideInv'
  BY <1>2 DEF Moved
<1>3. ASSUME NEW w \in Workers, Exit(w) PROVE OutsideInv'
  BY <1>3 DEF Exit
<1>4. ASSUME NEW p \in Callers, Lead(p) PROVE OutsideInv'
  BY <1>4 DEF Lead, CreateWorker, AddWorker, Give, TestTimer, NewTimer, AddKeepAlive
<1>5. ASSUME NEW w \in Workers, StopWorker(w) \/ CheckKeepAlive(w) PROVE OutsideInv'
  BY <1>5 DEF StopWorker, CheckKeepAlive
<1>6. CASE JoinChecked
  BY <1>6 DEF JoinChecked, LockInv
<1>7. CASE StopChecked \/ EraseChecked \/ StopTimer \/ LockPool \/ BeginJoin \/ JoinWorkers
  BY <1>7 DEF StopChecked, EraseChecked, StopTimer, LockPool, BeginJoin, JoinWorkers
<1>8. CASE BeginDestory
  BY <1>8 DEF BeginDestory
<1>9. QED
  BY <1>1, <1>2, <1>3, <1>4, <1>5, <1>6, <1>7, <1>8, LifeCases DEF Shutdown

\* A worker is held by the call that created it until that call hands it over.
LEMMA TargetStep == IInv /\ TargetInv /\ [Next]_vars => TargetInv'
<1> SUFFICES ASSUME IInv, TargetInv, [Next]_vars PROVE TargetInv'
  OBVIOUS
<1> USE ActorTypes DEF IInv, TypeOK, TargetInv, Holding, Ended, Goto, Resume, life,
   queues, lock, call, ledger, timer, calm, still, rest, quiet
<1>1. CASE UNCHANGED <<pc, life>>
  BY <1>1
<1>2. ASSUME NEW p \in Actors, Moved(p) PROVE TargetInv'
  BY <1>2 DEF Moved
<1>3. ASSUME NEW w \in Workers, Exit(w) PROVE TargetInv'
  BY <1>3 DEF Exit
<1>4. ASSUME NEW p \in Callers, CreateWorker(p) PROVE TargetInv'
  <2>1. PICK v \in Workers :
          /\ pc[v] = "none" /\ pc[p] \in {"create", "createTemporary"}
          /\ target' = [target EXCEPT ![p] = v]
          /\ pc' = [pc EXCEPT ![v] = "loop",
                              ![p] = IF pc[p] = "create" THEN "insert" ELSE "insertTemporary"]
    BY <1>4 DEF CreateWorker
  <2>2. ASSUME NEW q \in Actors, pc'[q] \notin Holding PROVE target'[q] = None
    <3>1. pc'[p] \in {"insert", "insertTemporary"}
      BY <2>1
    <3>2. q # p
      BY <2>2, <3>1
    <3>3. pc[q] \notin Holding /\ target'[q] = target[q]
      BY <2>1, <2>2, <3>2
    <3>4. QED
      BY <3>3
  <2>3. QED
    BY <2>2
<1>5. ASSUME NEW p \in Callers, AddWorker(p) \/ TestTimer(p) \/ NewTimer(p) PROVE TargetInv'
  BY <1>5 DEF AddWorker, TestTimer, NewTimer
<1>6. ASSUME NEW p \in Callers, Give(p) \/ AddKeepAlive(p) PROVE TargetInv'
  BY <1>6 DEF Give, PushTo, AddKeepAlive
<1>7. ASSUME Shutdown PROVE TargetInv'
  BY <1>7 DEF Shutdown, StopChecked, EraseChecked, JoinChecked, BeginDestory, StopTimer,
     LockPool, BeginJoin, JoinWorkers, StopWorker, CheckKeepAlive
<1>8. QED
  BY <1>1, <1>2, <1>3, <1>4, <1>5, <1>6, <1>7, LifeCases DEF Lead

\* What a step must keep for a worker to be found after it.
LEMMA StillFound ==
  ASSUME FoundInv, NEW w \in Workers, Alive(w),
         w \in workers_ => w \in workers_',
         \A p \in Actors : pc[p] \in Registering /\ target[p] = w
                             => pc'[p] \in Registering /\ target'[p] = w,
         timer_ = "join" /\ checked = w => timer_' = "join" /\ checked' = w
  PROVE  \/ w \in workers_'
         \/ \E p \in Actors : pc'[p] \in Registering /\ target'[p] = w
         \/ timer_' = "join" /\ checked' = w
BY DEF FoundInv

\* No worker that lives drops out of sight.
LEMMA FoundStep == IInv /\ FoundInv /\ [Next]_vars => FoundInv'
<1> SUFFICES ASSUME IInv, FoundInv, [Next]_vars,
                    NEW w \in Workers, Alive(w)'
             PROVE  \/ w \in workers_'
                    \/ \E p \in Actors : pc'[p] \in Registering /\ target'[p] = w
                    \/ timer_' = "join" /\ checked' = w
  BY DEF FoundInv
<1> DEFINE Kept ==
      /\ Alive(w)
      /\ w \in workers_ => w \in workers_'
      /\ \A p \in Actors : pc[p] \in Registering /\ target[p] = w
                             => pc'[p] \in Registering /\ target'[p] = w
      /\ timer_ = "join" /\ checked = w => timer_' = "join" /\ checked' = w
<1> USE ActorTypes DEF IInv, TypeOK, CallInv, Alive, Registering, Holding, Ended,
   Goto, Resume, life, queues, lock, call, ledger, timer, calm, still, rest, quiet
<1>1. CASE UNCHANGED <<pc, life>>
  <2>1. Kept
    BY <1>1
  <2>2. QED
    BY <2>1, StillFound
<1>2. ASSUME NEW p \in Actors, Moved(p) PROVE Kept
  <2>1. pc[p] \notin Ended \cup Registering /\ UNCHANGED life
    BY <1>2 DEF Moved
  <2>2. \A q \in Actors \ {p} : pc'[q] = pc[q]
    BY <1>2 DEF Moved
  <2>3. QED
    BY <2>1, <2>2
<1>3. ASSUME NEW v \in Workers, Exit(v) PROVE Kept
  <2>1. pc[v] = "drain" /\ UNCHANGED life
    BY <1>3 DEF Exit
  <2>2. \A q \in Actors \ {v} : pc'[q] = pc[q]
    BY <1>3 DEF Exit
  <2>3. QED
    BY <2>1, <2>2
<1>4. ASSUME NEW p \in Callers, CreateWorker(p)
      PROVE  Kept \/ \E q \in Actors : pc'[q] \in Registering /\ target'[q] = w
  <2>1. PICK v \in Workers :
          /\ pc[v] = "none" /\ pc[p] \in {"create", "createTemporary"}
          /\ target' = [target EXCEPT ![p] = v]
          /\ pc' = [pc EXCEPT ![v] = "loop",
                              ![p] = IF pc[p] = "create" THEN "insert" ELSE "insertTemporary"]
    BY <1>4 DEF CreateWorker
  <2>2. UNCHANGED <<workers_, timer_, checked>>
    BY <1>4 DEF CreateWorker
  <2>3. pc'[p] \in Registering /\ target'[p] = v
    BY <2>1
  <2>4. \A q \in Actors \ {p, v} : pc'[q] = pc[q] /\ target'[q] = target[q]
    BY <2>1
  <2>5. CASE w = v
    BY <2>3, <2>5
  <2>6. CASE w # v
    <3>1. Alive(w)
      BY <2>1, <2>4, <2>6
    <3>2. pc[p] \notin Registering /\ pc[v] \notin Registering
      BY <2>1
    <3>3. QED
      BY <2>2, <2>4, <3>1, <3>2
  <2>7. QED
    BY <2>5, <2>6
<1>5. ASSUME NEW p \in Callers, AddWorker(p) PROVE w \in workers_' \/ Kept
  BY <1>5 DEF AddWorker
<1>6. ASSUME NEW p \in Callers, Give(p) \/ TestTimer(p) \/ NewTimer(p) \/ AddKeepAlive(p)
      PROVE  Kept
  <2>1. /\ pc[p] \in Holding \ Registering
        /\ \A q \in Actors \ {p} : pc'[q] = pc[q] /\ target'[q] = target[q]
        /\ workers_' = workers_ /\ checked' = checked
        /\ timer_ = "join" => timer_' = "join"
    BY <1>6 DEF Give, PushTo, TestTimer, NewTimer, AddKeepAlive
  <2>2. QED
    BY <2>1
<1>7. CASE JoinChecked
  <2>1. pc[checked] = "exited" /\ UNCHANGED <<pc, workers_, target>>
    BY <1>7 DEF JoinChecked
  <2>2. Kept
    BY <2>1
  <2>3. QED
    BY <2>2, StillFound
<1>8. CASE EraseChecked
  BY <1>8, StillFound DEF EraseChecked, FoundInv
<1>9. CASE StopChecked \/ BeginDestory \/ StopTimer \/ LockPool \/ BeginJoin \/ JoinWorkers
  <2>1. Kept
    BY <1>9 DEF StopChecked, BeginDestory, StopTimer, LockPool, BeginJoin, JoinWorkers
  <2>2. QED
    BY <2>1, StillFound
<1>10. ASSUME NEW v \in Workers, StopWorker(v) \/ CheckKeepAlive(v) PROVE Kept
  BY <1>10 DEF StopWorker, CheckKeepAlive
<1>11. QED
  BY <1>1, <1>2, <1>3, <1>4, <1>5, <1>6, <1>7, <1>8, <1>9, <1>10, StillFound, LifeCases
     DEF Lead, Shutdown

\* A worker is created by one that exists, and holds none when it is created.
LEMMA RingStep == IInv /\ TargetInv /\ RingInv /\ [Next]_vars => RingInv'
<1> SUFFICES ASSUME IInv, TargetInv, RingInv, [Next]_vars,
                    NEW S \in SUBSET Workers, S # {}
             PROVE  \E w \in S : \A p \in S : target'[p] # w
  BY DEF RingInv
<1>1. CASE \A p \in Actors : target'[p] = target[p] \/ target'[p] = None
  <2>1. PICK w \in S : \A p \in S : target[p] # w
    BY DEF RingInv
  <2>2. QED
    BY <1>1, <2>1, ActorTypes
<1>2. ASSUME NEW p \in Callers, CreateWorker(p)
      PROVE  \E w \in S : \A q \in S : target'[q] # w
  <2>1. PICK v \in Workers :
          /\ pc[v] = "none" /\ pc[p] # "none"
          /\ target' = [target EXCEPT ![p] = v]
    BY <1>2 DEF CreateWorker
  <2>2. target[v] = None
    BY <2>1, ActorTypes DEF TargetInv, Holding
  <2>3. CASE S = {v}
    BY <2>1, <2>2, <2>3, ActorTypes DEF IInv, TypeOK
  <2>4. CASE S # {v}
    <3>1. S \ {v} # {} /\ S \ {v} \in SUBSET Workers
      BY <2>4
    <3>2. PICK w \in S \ {v} : \A q \in S \ {v} : target[q] # w
      BY <3>1 DEF RingInv
    <3>3. \A q \in S : target'[q] # w
      BY <2>1, <2>2, <3>2, ActorTypes DEF IInv, TypeOK
    <3>4. QED
      BY <3>2, <3>3
  <2>5. QED
    BY <2>3, <2>4
<1>3. ASSUME NEW p \in Callers,
             AddWorker(p) \/ Give(p) \/ TestTimer(p) \/ NewTimer(p) \/ AddKeepAlive(p)
      PROVE  \A q \in Actors : target'[q] = target[q] \/ target'[q] = None
  BY <1>3, ActorTypes DEF IInv, TypeOK, call, AddWorker, Give, TestTimer, NewTimer, AddKeepAlive
<1>4. ASSUME Shutdown PROVE target' = target
  BY <1>4 DEF Shutdown, StopChecked, EraseChecked, JoinChecked, BeginDestory, StopTimer,
     LockPool, BeginJoin, JoinWorkers, StopWorker, CheckKeepAlive, quiet, still, call
<1>5. QED
  BY <1>1, <1>2, <1>3, <1>4, LifeCases DEF Lead, Moved, Exit, life

\* When DestoryPool has joined the workers that it finds, the others have ended.
LEMMA JoinedStep == IInv /\ ShutdownInv /\ [Next]_vars => AllJoined'
<1> SUFFICES ASSUME IInv, ShutdownInv, [Next]_vars,
                    phase' = "destroyed", timer_' \in {"absent", "stopped"}
             PROVE  \A w \in Workers : pc'[w] \in Ended
  BY DEF AllJoined, Ended
<1> USE ActorTypes DEF IInv, TypeOK, ShutdownInv, Holding, Ended, Goto, Resume, life,
   queues, lock, call, ledger, timer, calm, still, rest, quiet
<1>1. ASSUME phase = "destroyed", timer_ \in {"absent", "stopped"}
      PROVE  \A p \in Actors : pc[p] \in Ended \cup {"idle"}
  BY <1>1 DEF AllJoined, OutsideInv, Actors
<1>2. CASE UNCHANGED <<pc, life>>
  BY <1>2 DEF AllJoined
<1>3. ASSUME NEW p \in Actors, Moved(p) PROVE FALSE
  BY <1>1, <1>3 DEF Moved
<1>4. ASSUME NEW w \in Workers, Exit(w) PROVE FALSE
  BY <1>1, <1>4 DEF Exit
<1>5. ASSUME NEW p \in Callers, Lead(p) PROVE FALSE
  <2>1. phase = "destroyed" /\ timer_ \in {"absent", "stopped"}
    BY <1>5 DEF Lead, CreateWorker, AddWorker, Give, TestTimer, NewTimer, AddKeepAlive
  <2>2. QED
    BY <1>1, <1>5, <2>1 DEF Lead, CreateWorker, AddWorker, Give, TestTimer, NewTimer, AddKeepAlive
<1>6. CASE JoinWorkers
  <2> DEFINE S == {w \in Workers : Alive(w)}
  <2>1. \A w \in workers_ : ~Alive(w)
    BY <1>6 DEF JoinWorkers, Alive
  <2>2. timer_ # "join"
    BY <1>6 DEF JoinWorkers
  <2>3. ASSUME NEW w \in S PROVE \E p \in S : target[p] = w
    <3>1. PICK p \in Actors : pc[p] \in Registering /\ target[p] = w
      BY <2>1, <2>2 DEF FoundInv
    <3>2. p \in Workers
      BY <1>6, <3>1 DEF JoinWorkers, OutsideInv, Registering, Actors
    <3>3. QED
      BY <3>1, <3>2 DEF Alive, Registering
  <2>4. S = {}
    <3>1. S \in SUBSET Workers
      OBVIOUS
    <3> HIDE DEF S
    <3>2. S # {} => \E w \in S : \A p \in S : target[p] # w
      BY <3>1 DEF RingInv
    <3>3. QED
      BY <2>3, <3>2
  <2>5. QED
    BY <1>6, <2>4 DEF JoinWorkers, Alive
<1>7. ASSUME Shutdown, ~JoinWorkers PROVE \A w \in Workers : pc'[w] \in Ended
  BY <1>1, <1>7 DEF Shutdown, StopChecked, EraseChecked, JoinChecked, BeginDestory, StopTimer,
     LockPool, BeginJoin, StopWorker, CheckKeepAlive
<1>8. QED
  BY <1>2, <1>3, <1>4, <1>5, <1>6, <1>7, LifeCases

LEMMA ShutdownInit == Init => ShutdownInv
<1> SUFFICES ASSUME Init PROVE ShutdownInv
  OBVIOUS
<1> USE ActorTypes DEF Init
<1>1. OutsideInv /\ TargetInv /\ AllJoined
  BY DEF OutsideInv, TargetInv, AllJoined
<1>2. FoundInv
  BY DEF FoundInv, Alive, Ended
<1>3. RingInv
  BY DEF RingInv
<1>4. QED
  BY <1>1, <1>2, <1>3 DEF ShutdownInv

LEMMA ShutdownInvariance == Spec => [](IInv /\ ShutdownInv)
<1>1. IInv /\ ShutdownInv /\ [Next]_vars => ShutdownInv'
  BY OutsideStep, TargetStep, FoundStep, RingStep, JoinedStep DEF ShutdownInv
<1>2. QED
  BY <1>1, ShutdownInit, Invariance, PTL DEF Spec

\* No thread outlives the pool, however many workers come and go and whatever
\* tasks create others while it is destroyed: the workers that DestoryPool does
\* not find were created by others that it does find, and has joined.
THEOREM NoThreadOutlives == Spec => []AllJoined
<1>1. IInv /\ ShutdownInv => AllJoined
  BY DEF ShutdownInv
<1>2. QED
  BY <1>1, ShutdownInvariance, PTL

-----------------------------------------------------------------------------
(* What is left in the queues.  A worker that ends returns its tasks, but a *)
(* task that is pushed to it afterwards stays where it is.                  *)

\* A worker nobody can find yet, because it does not exist or because the call
\* that created it has not inserted it, is neither stopped nor under a
\* keep-alive check, and no second call holds it.
FreshInv ==
  /\ \A w \in Workers : pc[w] = "none" =>
       /\ w \notin workers_ \cup keepAlive /\ ~stop_[w]
       /\ \A p \in Actors : target[p] # w
  /\ \A p \in Actors : pc[p] \in Registering =>
       /\ target[p] \notin workers_ \cup keepAlive /\ ~stop_[target[p]]
       /\ \A q \in Actors \ {p} : target[q] # target[p]
  /\ timer_ \in {"stop", "erase", "join"} => checked \in keepAlive

\* Only a stopped worker ends; the timer keeps it if nobody can find it.  One that
\* others can find is stopped by the check that is about to erase it, or by
\* DestoryPool.
StopInv ==
  /\ \A w \in Workers : pc[w] \in {"drain", "exited"} => stop_[w]
  /\ \A w \in Workers : stop_[w] => w \in workers_ \cup keepAlive
  /\ \A w \in workers_ : stop_[w] =>
       (timer_ = "erase" /\ checked = w) \/ phase \in {"stop", "join", "destroyed"}

\* A worker in AddTask was called by a task that may do so.
SpawnInv == \A w \in Workers : pc[w] \in Adding => running[w] \in Spawning

\* No task was submitted that may submit others.
Plain == submitted \cap Spawning = {}

\* In that case the timer is gone when DestoryPool goes for the lock, and what a
\* worker it finds leaves behind is nothing.
TimerInv ==
  Plain /\ phase \notin {"open", "stopTimer"} => timer_ \in {"absent", "stopped"}

DrainedInv ==
  Plain /\ phase \in {"stop", "join", "destroyed"}
    => \A w \in workers_ : pc[w] = "exited" \/ phase = "destroyed" => taskQueue_[w] = <<>>

QueueInv == FreshInv /\ StopInv /\ SpawnInv /\ TimerInv /\ DrainedInv

\* Creation, insertion and the keep-alive list treat each worker once.
LEMMA FreshStep == IInv /\ TargetInv /\ FreshInv /\ [Next]_vars => FreshInv'
<1> SUFFICES ASSUME IInv, TargetInv, FreshInv, [Next]_vars PROVE FreshInv'
  OBVIOUS
<1> USE ActorTypes DEF IInv, TypeOK, CallInv, FreshInv, TargetInv, Registering, Holding, Ended,
   Goto, Resume, life, queues, lock, call, ledger, timer, calm, still, rest, quiet
<1>1. CASE UNCHANGED <<pc, life>>
  BY <1>1
<1>2. ASSUME NEW p \in Actors, Moved(p) PROVE FreshInv'
  <2>1. pc'[p] \notin Registering \cup {"none"} /\ UNCHANGED life
    BY <1>2 DEF Moved
  <2>2. \A q \in Actors \ {p} : pc'[q] = pc[q]
    BY <1>2 DEF Moved
  <2>3. QED
    BY <2>1, <2>2
<1>3. ASSUME NEW v \in Workers, Exit(v) PROVE FreshInv'
  BY <1>3 DEF Exit
<1>4. ASSUME NEW p \in Callers, CreateWorker(p) PROVE FreshInv'
  <2>1. PICK v \in Workers :
          /\ pc[v] = "none" /\ pc[p] \in {"create", "createTemporary"}
          /\ target' = [target EXCEPT ![p] = v]
          /\ pc' = [pc EXCEPT ![v] = "loop",
                              ![p] = IF pc[p] = "create" THEN "insert" ELSE "insertTemporary"]
    BY <1>4 DEF CreateWorker
  <2>2. UNCHANGED <<workers_, keepAlive, stop_, timer_, checked>>
    BY <1>4 DEF CreateWorker
  <2>3. \A q \in Actors \ {p, v} : pc'[q] = pc[q]
    BY <2>1
  <2>4. \A q \in Actors \ {p} : target'[q] = target[q]
    BY <2>1
  <2>5. pc'[v] = "loop" /\ pc'[p] \in Registering /\ target'[p] = v /\ p # v
    BY <2>1
  <2>6. \A q \in Actors : target[q] # v
    BY <2>1
  <2>7. ASSUME NEW w \in Workers, pc'[w] = "none"
        PROVE  /\ w \notin workers_' \cup keepAlive' /\ ~stop_'[w]
               /\ \A q \in Actors : target'[q] # w
    <3>1. w # v /\ w # p
      BY <2>5, <2>7
    <3>2. pc[w] = "none"
      BY <2>3, <2>7, <3>1
    <3>3. w \notin workers_ \cup keepAlive /\ ~stop_[w] /\ \A q \in Actors : target[q] # w
      BY <3>2
    <3>4. QED
      BY <2>2, <2>4, <2>5, <3>1, <3>3
  <2>8. ASSUME NEW r \in Actors, pc'[r] \in Registering
        PROVE  /\ target'[r] \notin workers_' \cup keepAlive' /\ ~stop_'[target'[r]]
               /\ \A q \in Actors \ {r} : target'[q] # target'[r]
    <3>1. CASE r = p
      BY <2>1, <2>2, <2>4, <2>5, <2>6, <3>1
    <3>2. CASE r # p
      BY <2>2, <2>3, <2>4, <2>5, <2>6, <2>8, <3>2
    <3>3. QED
      BY <3>1, <3>2
  <2>9. QED
    BY <2>2, <2>7, <2>8
<1>5. ASSUME NEW p \in Callers, AddWorker(p) PROVE FreshInv'
  BY <1>5 DEF AddWorker
<1>6. ASSUME NEW p \in Callers, TestTimer(p) \/ NewTimer(p) PROVE FreshInv'
  BY <1>6 DEF TestTimer, NewTimer
<1>7. ASSUME NEW p \in Callers, Give(p) PROVE FreshInv'
  BY <1>7 DEF Give, PushTo
<1>8. ASSUME NEW p \in Callers, AddKeepAlive(p) PROVE FreshInv'
  BY <1>8 DEF AddKeepAlive
<1>9. CASE StopChecked
  BY <1>9 DEF StopChecked
<1>10. CASE EraseChecked \/ BeginDestory \/ StopTimer \/ LockPool \/ BeginJoin \/ JoinWorkers
  BY <1>10 DEF EraseChecked, BeginDestory, StopTimer, LockPool, BeginJoin, JoinWorkers
<1>11. CASE JoinChecked
  BY <1>11 DEF JoinChecked
<1>12. ASSUME NEW v \in Workers, StopWorker(v) PROVE FreshInv'
  <2>1. /\ v \in workers_ /\ stop_' = [stop_ EXCEPT ![v] = TRUE]
        /\ UNCHANGED <<pc, target, workers_, timer>>
    BY <1>12 DEF StopWorker
  <2>2. \A p \in Actors : pc[p] \in Registering => target[p] \in Workers \ {v}
    BY <2>1
  <2>3. QED
    BY <2>1, <2>2
<1>13. ASSUME NEW v \in Workers, CheckKeepAlive(v) PROVE FreshInv'
  BY <1>13 DEF CheckKeepAlive
<1>14. QED
  BY <1>1, <1>2, <1>3, <1>4, <1>5, <1>6, <1>7, <1>8, <1>9, <1>10, <1>11, <1>12, <1>13, LifeCases
     DEF Lead, Shutdown

\* Nobody stops a worker that nobody can find.
LEMMA StopStep == IInv /\ FreshInv /\ StopInv /\ [Next]_vars => StopInv'
<1> SUFFICES ASSUME IInv, FreshInv, StopInv, [Next]_vars PROVE StopInv'
  OBVIOUS
<1> USE ActorTypes DEF IInv, TypeOK, CallInv, StopInv, Registering, Holding, Ended,
   Goto, Resume, life, queues, lock, call, ledger, timer, calm, still, rest, quiet
<1>1. CASE UNCHANGED <<pc, life>>
  BY <1>1
<1>2. ASSUME NEW p \in Actors, Moved(p) PROVE StopInv'
  BY <1>2 DEF Moved
<1>3. ASSUME NEW v \in Workers, Exit(v) PROVE StopInv'
  BY <1>3 DEF Exit
<1>4. ASSUME NEW p \in Callers, CreateWorker(p) PROVE StopInv'
  BY <1>4 DEF CreateWorker
<1>5. ASSUME NEW p \in Callers, AddWorker(p) PROVE StopInv'
  BY <1>5 DEF AddWorker, FreshInv
<1>6. ASSUME NEW p \in Callers, Give(p) \/ TestTimer(p) \/ NewTimer(p) \/ AddKeepAlive(p)
      PROVE  StopInv'
  BY <1>6 DEF Give, PushTo, TestTimer, NewTimer, AddKeepAlive
<1>7. CASE StopChecked
  BY <1>7 DEF StopChecked, LockInv, FreshInv
<1>8. CASE EraseChecked
  BY <1>8 DEF EraseChecked, FreshInv
<1>9. CASE JoinChecked
  BY <1>9 DEF JoinChecked, LockInv
<1>10. CASE BeginDestory \/ StopTimer \/ LockPool \/ BeginJoin \/ JoinWorkers
  BY <1>10 DEF BeginDestory, StopTimer, LockPool, BeginJoin, JoinWorkers
<1>11. ASSUME NEW v \in Workers, StopWorker(v) PROVE StopInv'
  BY <1>11 DEF StopWorker
<1>12. ASSUME NEW v \in Workers, CheckKeepAlive(v) PROVE StopInv'
  BY <1>12 DEF CheckKeepAlive
<1>13. QED
  BY <1>1, <1>2, <1>3, <1>4, <1>5, <1>6, <1>7, <1>8, <1>9, <1>10, <1>11, <1>12, LifeCases
     DEF Lead, Shutdown

\* A worker calls AddTask only from a task in Spawning, which runs until the call
\* returns.
LEMMA SpawnStep == IInv /\ SpawnInv /\ [Next]_vars => SpawnInv'
<1> SUFFICES ASSUME IInv, SpawnInv, [Next]_vars, NEW w \in Workers, pc'[w] \in Adding
             PROVE  running'[w] \in Spawning
  BY DEF SpawnInv
<1> USE ActorTypes DEF IInv, TypeOK, SpawnInv, Handing, Growing, Holding, Adding, Goto,
   Resume, queues, lock, call, ledger, timer, calm, still, rest, quiet
<1>1. ASSUME pc[w] \in Adding, running' = running PROVE running'[w] \in Spawning
  BY <1>1
<1>2. ASSUME NEW p \in Callers,
             \/ ChooseBranch(p) \/ TestRoom(p) \/ CreateWorker(p) \/ AddWorker(p)
             \/ CountSleeping(p) \/ Enqueue(p) \/ CountWeak(p) \/ TestBacklog(p)
             \/ TestTimer(p) \/ NewTimer(p) \/ AddKeepAlive(p)
      PROVE  pc[w] \in Adding /\ running' = running
  BY <1>2 DEF ChooseBranch, TestRoom, CreateWorker, AddWorker, CountSleeping, Enqueue,
     CountWeak, TestBacklog, TestTimer, NewTimer, AddKeepAlive
<1>3. ASSUME NEW p \in Callers, Give(p) \/ PushToWorker(p) \/ WeakRandomWoker(p)
      PROVE  pc[w] \in Adding /\ running' = running
  BY <1>3 DEF Give, PushToWorker, PushTo, WeakRandomWoker
<1>4. ASSUME NEW p \in Actors, ScanBegin(p) \/ ScanSkip(p)
      PROVE  pc[w] \in Adding /\ running' = running
  BY <1>4 DEF ScanBegin, ScanSkip
<1>5. ASSUME NEW v \in Workers, TestStop(v) \/ EnterSleep(v) \/ WakeUp(v) \/ Drain(v)
      PROVE  pc[w] \in Adding /\ running' = running
  BY <1>5 DEF TestStop, EnterSleep, WakeUp, Drain
<1>6. ASSUME NEW v \in Workers, PopOwn(v) \/ PopShared(v) \/ Steal(v) \/ FinishTask(v)
      PROVE  pc[w] \in Adding /\ running'[w] = running[w]
  BY <1>6 DEF PopOwn, PopShared, Steal, TakeFrom, Take, FinishTask
<1>7. ASSUME NEW c \in Waiters,
             \/ WaitTest(c) \/ WeakAllWorker(c) \/ WaitScanBegin(c) \/ WaitVisit(c)
             \/ WaitScanEnd(c) \/ WaitEnter(c) \/ WaitWake(c) \/ BeginWait(c)
      PROVE  pc[w] \in Adding /\ running' = running
  BY <1>7 DEF WaitTest, WeakAllWorker, WaitScanBegin, WaitVisit, WaitScanEnd, WaitEnter,
     WaitWake, BeginWait
<1>8. CASE Shutdown
  BY <1>1, <1>8 DEF Shutdown, StopChecked, EraseChecked, JoinChecked, BeginDestory, StopTimer,
     LockPool, BeginJoin, JoinWorkers, StopWorker, CheckKeepAlive
<1>9. ASSUME NEW p \in Callers, NEW t \in Tasks, Submit(p, t)
      PROVE  running'[w] \in Spawning
  BY <1>9 DEF Submit
<1>10. ASSUME NEW p \in Workers \cup Waiters, SpuriousWakeup(p)
       PROVE  pc[w] \in Adding /\ running' = running
  BY <1>10 DEF SpuriousWakeup
<1>11. CASE UNCHANGED vars
  BY <1>1, <1>11 DEF vars
<1>12. QED
  BY <1>1, <1>2, <1>3, <1>4, <1>5, <1>6, <1>7, <1>8, <1>9, <1>10, <1>11, NextCases
     DEF Shutdown

\* What was submitted stays submitted.
LEMMA PlainBefore == [Next]_vars /\ Plain' => Plain
<1> SUFFICES ASSUME [Next]_vars PROVE submitted \subseteq submitted'
  BY DEF Plain
<1> USE ActorTypes DEF queues, lock, call, ledger, timer, calm, still, rest, quiet
<1>1. ASSUME NEW p \in Callers,
             \/ ChooseBranch(p) \/ TestRoom(p) \/ CreateWorker(p) \/ AddWorker(p)
             \/ Give(p) \/ CountSleeping(p) \/ PushToWorker(p) \/ Enqueue(p)
             \/ CountWeak(p) \/ WeakRandomWoker(p) \/ TestBacklog(p) \/ TestTimer(p)
             \/ NewTimer(p) \/ AddKeepAlive(p)
      PROVE  submitted' = submitted
  BY <1>1 DEF ChooseBranch, TestRoom, CreateWorker, AddWorker, Give, CountSleeping, PushToWorker,
     Enqueue, CountWeak, WeakRandomWoker, TestBacklog, TestTimer, NewTimer, AddKeepAlive
<1>2. ASSUME NEW p \in Actors, ScanBegin(p) \/ ScanSkip(p) PROVE submitted' = submitted
  BY <1>2 DEF ScanBegin, ScanSkip
<1>3. ASSUME NEW w \in Workers,
             \/ TestStop(w) \/ PopOwn(w) \/ PopShared(w) \/ Steal(w)
             \/ EnterSleep(w) \/ WakeUp(w) \/ FinishTask(w) \/ Drain(w)
      PROVE  submitted' = submitted
  BY <1>3 DEF TestStop, PopOwn, PopShared, Steal, EnterSleep, WakeUp, FinishTask, Drain
<1>4. ASSUME NEW c \in Waiters,
             \/ WaitTest(c) \/ WeakAllWorker(c) \/ WaitScanBegin(c) \/ WaitVisit(c)
             \/ WaitScanEnd(c) \/ WaitEnter(c) \/ WaitWake(c) \/ BeginWait(c)
      PROVE  submitted' = submitted
  BY <1>4 DEF WaitTest, WeakAllWorker, WaitScanBegin, WaitVisit, WaitScanEnd, WaitEnter,
     WaitWake, BeginWait
<1>5. CASE Shutdown
  BY <1>5 DEF Shutdown, StopChecked, EraseChecked, JoinChecked, BeginDestory, StopTimer,
     LockPool, BeginJoin, JoinWorkers, StopWorker, CheckKeepAlive
<1>6. ASSUME NEW p \in Callers, NEW t \in Tasks, Submit(p, t)
      PROVE  submitted \subseteq submitted'
  BY <1>6 DEF Submit
<1>7. ASSUME NEW p \in Workers \cup Waiters, SpuriousWakeup(p) PROVE submitted' = submitted
  BY <1>7 DEF SpuriousWakeup
<1>8. CASE UNCHANGED vars
  BY <1>8 DEF vars
<1>9. QED
  BY <1>1, <1>2, <1>3, <1>4, <1>5, <1>6, <1>7, <1>8, NextCases DEF Shutdown

\* Once DestoryPool has begun, and if no task submits others, nobody is in
\* AddTask ...
LEMMA NoCaller ==
  ASSUME IInv, TaskInv, SpawnInv, OutsideInv, Plain, phase # "open", NEW p \in Callers
  PROVE  pc[p] \notin Adding
<1>1. CASE p \in Submitters
  BY <1>1 DEF OutsideInv, Adding, Handing, Growing, Holding
<1>2. ASSUME p \in Workers, pc[p] \in Adding PROVE FALSE
  <2>1. running[p] \in Spawning /\ running[p] \in Tasks
    BY <1>2, SpawningAssumption DEF SpawnInv
  <2>2. running[p] \in submitted
    BY <1>2, <2>1 DEF TaskInv, Sole, Placed
  <2>3. QED
    BY <2>1, <2>2 DEF Plain
<1>3. QED
  BY <1>1, <1>2, ActorTypes

\* ... so that the timer stays as DestoryPool left it ...
LEMMA TimerStep ==
  IInv /\ TaskInv /\ SpawnInv /\ OutsideInv /\ TimerInv /\ [Next]_vars => TimerInv'
<1> SUFFICES ASSUME IInv, TaskInv, SpawnInv, OutsideInv, TimerInv, [Next]_vars, Plain
             PROVE  phase' \notin {"open", "stopTimer"} => timer_' \in {"absent", "stopped"}
  BY PlainBefore DEF TimerInv
<1> USE ActorTypes DEF IInv, TypeOK, TimerInv, Goto, Resume, life,
   queues, lock, call, ledger, timer, calm, still, rest, quiet
<1>1. CASE UNCHANGED life
  BY <1>1
<1>2. ASSUME NEW p \in Callers, Lead(p) PROVE phase' = "open"
  <2>1. pc[p] \in Adding /\ phase' = phase
    BY <1>2 DEF Lead, CreateWorker, AddWorker, Give, TestTimer, NewTimer, AddKeepAlive,
       Adding, Handing, Growing, Holding
  <2>2. QED
    BY <2>1, NoCaller
<1>3. CASE Shutdown
  BY <1>3 DEF Shutdown, StopChecked, EraseChecked, JoinChecked, BeginDestory, StopTimer,
     LockPool, BeginJoin, JoinWorkers, StopWorker, CheckKeepAlive
<1>4. QED
  BY <1>1, <1>2, <1>3, LifeCases DEF Moved, Exit

\* Only AddTask puts something into the queue of a worker ...
LEMMA QueueFilled ==
  ASSUME IInv, [Next]_vars, NEW w \in Workers, taskQueue_[w] = <<>>, taskQueue_'[w] # <<>>
  PROVE  \E p \in Callers :
           \/ Give(p) /\ target[p] = w
           \/ PushToWorker(p) /\ w \in scan[p]
<1> USE ActorTypes DEF IInv, TypeOK,
   queues, lock, call, ledger, timer, calm, still, rest, quiet
<1>1. ASSUME NEW p \in Callers,
             \/ ChooseBranch(p) \/ TestRoom(p) \/ CreateWorker(p) \/ AddWorker(p)
             \/ CountSleeping(p) \/ Enqueue(p)
             \/ CountWeak(p) \/ WeakRandomWoker(p) \/ TestBacklog(p) \/ TestTimer(p)
             \/ NewTimer(p) \/ AddKeepAlive(p)
      PROVE  taskQueue_' = taskQueue_
  BY <1>1 DEF ChooseBranch, TestRoom, CreateWorker, AddWorker, CountSleeping,
     Enqueue, CountWeak, WeakRandomWoker, TestBacklog, TestTimer, NewTimer, AddKeepAlive
<1>2. ASSUME NEW p \in Callers, Give(p) PROVE target[p] = w
  BY <1>2 DEF Give, PushTo
<1>3. ASSUME NEW p \in Callers, PushToWorker(p) PROVE w \in scan[p]
  <2>1. CASE UNCHANGED queues
    BY <2>1
  <2>2. ASSUME NEW v \in scan[p], PushTo(p, v) PROVE w \in scan[p]
    BY <2>2 DEF PushTo
  <2>3. QED
    BY <1>3, <2>1, <2>2 DEF PushToWorker
<1>4. ASSUME NEW p \in Actors, ScanBegin(p) \/ ScanSkip(p) PROVE taskQueue_' = taskQueue_
  BY <1>4 DEF ScanBegin, ScanSkip
<1>5. ASSUME NEW v \in Workers, TestStop(v) \/ EnterSleep(v) \/ WakeUp(v) \/ FinishTask(v)
      PROVE  taskQueue_' = taskQueue_
  BY <1>5 DEF TestStop, EnterSleep, WakeUp, FinishTask
<1>6. ASSUME NEW v \in Workers, PopOwn(v) PROVE taskQueue_'[w] = <<>>
  BY <1>6 DEF PopOwn, TakeFrom, Take
<1>7. ASSUME NEW v \in Workers, PopShared(v) PROVE taskQueue_' = taskQueue_
  BY <1>7 DEF PopShared
<1>8. ASSUME NEW v \in Workers, Steal(v) PROVE taskQueue_'[w] = <<>>
  <2>1. CASE NotFound(v) /\ UNCHANGED queues
    BY <2>1
  <2>2. ASSUME NEW u \in scan[v], Found(v, u), TakeFrom(v, u), pc[v] = "steal"
        PROVE  taskQueue_'[w] = <<>>
    BY <2>2 DEF Found, Fits, TakeFrom
  <2>3. QED
    BY <1>8, <2>1, <2>2 DEF Steal
<1>9. ASSUME NEW v \in Workers, Drain(v) PROVE taskQueue_'[w] = <<>>
  BY <1>9 DEF Drain
<1>10. ASSUME NEW c \in Waiters,
              \/ WaitTest(c) \/ WeakAllWorker(c) \/ WaitScanBegin(c) \/ WaitVisit(c)
              \/ WaitScanEnd(c) \/ WaitEnter(c) \/ WaitWake(c) \/ BeginWait(c)
       PROVE  taskQueue_' = taskQueue_
  BY <1>10 DEF WaitTest, WeakAllWorker, WaitScanBegin, WaitVisit, WaitScanEnd, WaitEnter,
     WaitWake, BeginWait
<1>11. CASE Shutdown
  BY <1>11 DEF Shutdown, StopChecked, EraseChecked, JoinChecked, BeginDestory, StopTimer,
     LockPool, BeginJoin, JoinWorkers, StopWorker, CheckKeepAlive
<1>12. ASSUME NEW p \in Callers, NEW t \in Tasks, Submit(p, t) PROVE taskQueue_' = taskQueue_
  BY <1>12 DEF Submit
<1>13. ASSUME NEW p \in Workers \cup Waiters, SpuriousWakeup(p) PROVE taskQueue_' = taskQueue_
  BY <1>13 DEF SpuriousWakeup
<1>14. CASE UNCHANGED vars
  BY <1>14 DEF vars
<1>15. QED
  BY <1>1, <1>2, <1>3, <1>4, <1>5, <1>6, <1>7, <1>8, <1>9, <1>10, <1>11, <1>12, <1>13, <1>14,
     NextCases DEF Shutdown

\* ... and nobody is in AddTask.
LEMMA QueueShrinks ==
  ASSUME IInv, TaskInv, SpawnInv, OutsideInv, [Next]_vars, Plain, phase # "open",
         NEW w \in Workers, taskQueue_[w] = <<>>
  PROVE  taskQueue_'[w] = <<>>
<1>1. ASSUME NEW p \in Callers, Give(p) \/ PushToWorker(p) PROVE FALSE
  BY <1>1, NoCaller DEF Give, PushToWorker, Adding, Handing
<1>2. QED
  BY <1>1, QueueFilled

\* A worker that DestoryPool finds is alive when it takes the lock, and ends
\* with an empty queue after it was stopped.
LEMMA DrainedStep == IInv /\ TaskInv /\ OutsideInv /\ QueueInv /\ [Next]_vars => DrainedInv'
<1> SUFFICES ASSUME IInv, TaskInv, OutsideInv, QueueInv, [Next]_vars, Plain,
                    phase' \in {"stop", "join", "destroyed"},
                    NEW w \in workers_', pc'[w] = "exited" \/ phase' = "destroyed"
             PROVE  taskQueue_'[w] = <<>>
  BY PlainBefore DEF DrainedInv
<1> USE ActorTypes DEF IInv, TypeOK, QueueInv, Goto, Resume, life,
   queues, lock, call, ledger, timer, calm, still, rest, quiet
<1>1. ASSUME phase \in {"stop", "join", "destroyed"}, w \in workers_,
             pc[w] = "exited" \/ phase = "destroyed"
      PROVE  taskQueue_'[w] = <<>>
  BY <1>1, QueueShrinks DEF DrainedInv
<1>2. CASE UNCHANGED <<pc, life>>
  BY <1>1, <1>2
<1>3. ASSUME NEW p \in Actors, Moved(p) PROVE taskQueue_'[w] = <<>>
  <2>1. UNCHANGED life /\ (pc'[w] = "exited" => pc[w] = "exited")
    BY <1>3 DEF Moved, Ended
  <2>2. QED
    BY <1>1, <2>1
<1>4. ASSUME NEW v \in Workers, Exit(v) PROVE taskQueue_'[w] = <<>>
  <2>1. CASE v = w
    BY <1>4, <2>1, QueueShrinks DEF Exit
  <2>2. CASE v # w
    BY <1>1, <1>4, <2>2 DEF Exit
  <2>3. QED
    BY <2>1, <2>2
<1>5. ASSUME NEW p \in Callers, Lead(p) PROVE FALSE
  <2>1. phase # "open" /\ pc[p] \in Adding
    BY <1>5 DEF Lead, CreateWorker, AddWorker, Give, TestTimer, NewTimer, AddKeepAlive,
       Adding, Handing, Growing, Holding
  <2>2. QED
    BY <2>1, NoCaller
<1>6. CASE LockPool
  <2>1. /\ phase = "lock" /\ w \in workers_ /\ pc[w] = "exited"
        /\ timer_ \in {"absent", "stopped"}
    BY <1>6 DEF LockPool, TimerInv
  <2>2. QED
    BY <2>1 DEF StopInv
<1>7. CASE StopChecked \/ EraseChecked \/ BeginDestory \/ StopTimer \/ BeginJoin \/ JoinWorkers
  BY <1>1, <1>7 DEF StopChecked, EraseChecked, BeginDestory, StopTimer, BeginJoin, JoinWorkers
<1>8. CASE JoinChecked
  BY <1>1, <1>8 DEF JoinChecked, LockInv
<1>9. ASSUME NEW v \in Workers, StopWorker(v) \/ CheckKeepAlive(v)
      PROVE  taskQueue_'[w] = <<>>
  BY <1>1, <1>9 DEF StopWorker, CheckKeepAlive
<1>10. QED
  BY <1>2, <1>3, <1>4, <1>5, <1>6, <1>7, <1>8, <1>9, LifeCases DEF Shutdown

LEMMA QueueInit == Init => QueueInv
<1> SUFFICES ASSUME Init PROVE QueueInv
  OBVIOUS
<1> USE ActorTypes DEF Init
<1>1. FreshInv
  BY DEF FreshInv, Registering
<1>2. StopInv /\ SpawnInv /\ TimerInv /\ DrainedInv
  BY DEF StopInv, SpawnInv, TimerInv, DrainedInv, Adding, Handing, Growing, Holding
<1>3. QED
  BY <1>1, <1>2 DEF QueueInv

LEMMA QueueInvariance == Spec => [](IInv /\ TaskInv /\ ShutdownInv /\ QueueInv)
<1>1. IInv /\ TaskInv /\ ShutdownInv /\ QueueInv /\ [Next]_vars => QueueInv'
  BY FreshStep, StopStep, SpawnStep, TimerStep, DrainedStep DEF QueueInv, ShutdownInv
<1>2. QED
  BY <1>1, QueueInit, ShutdownInvariance, TaskInvariance, PTL DEF Spec

\* However many threads submit, steal, fall back from full queues, are stopped
\* and drained: a task that was submitted is in one place until it is done, or
\* was pushed to a worker that had ended after its keep-alive check.
THEOREM NoTaskLost == Spec => []TasksConserved
<1>1. IInv /\ TaskInv /\ QueueInv => TasksConserved
  <2> SUFFICES ASSUME IInv, TaskInv, QueueInv, NEW t \in Tasks
               PROVE  IF t \in submitted \ done
                      THEN Cardinality(Places(t)) = 1 \/ (Stranded(t) /\ Places(t) = {})
                      ELSE Places(t) = {} /\ ~Stranded(t)
    BY DEF TasksConserved
  <2>1. \A w \in Workers : OutOfReach(w) => w \in keepAlive
    BY DEF OutOfReach, QueueInv, StopInv
  <2>2. QED
    BY <2>1, OnePlace
<1>2. QED
  BY <1>1, QueueInvariance, PTL

\* As long as no task was submitted that submits others, the assertion of
\* ~Worker holds of every worker that DestoryPool finds: what its queue held was
\* returned before it ended, and nobody pushed to it afterwards.
THEOREM CoreWorkersDrained == Spec => []CoreDrained
<1>1. QueueInv => CoreDrained
  BY DEF QueueInv, DrainedInv, CoreDrained, Plain
<1>2. QED
  BY <1>1, QueueInvariance, PTL

-----------------------------------------------------------------------------
(* Pools in which less can happen: one whose threads are all in the core,   *)
(* and one with a single caller of AddTask.  What the runs find broken in   *)
(* general is right in these.                                               *)

\* With all its threads in the core, a pool creates no temporary worker, hence
\* no timer, and no worker is erased: whoever is looked at, or given a task, is
\* in workers_.
FixedInv ==
  /\ \A p \in Actors : ~grow[p] /\ pc[p] \notin {"timerTest", "timerNew", "keepAlive"}
  /\ timer_ = "absent"
  /\ \A p \in Actors : scan[p] \subseteq workers_
  /\ \A p \in Actors : pc[p] = "give" => target[p] \in workers_
  /\ \A w \in Workers : w \notin workers_ => taskQueue_[w] = <<>>

\* TestRoom finds room only between the two sizes.
LEMMA RoomStep ==
  ASSUME IInv, FixedInv, maxThreadSize_ <= coreThreadSize_, [Next]_vars, NEW q \in Actors
  PROVE  ~grow'[q]
<1> USE ActorTypes DEF IInv, TypeOK, FixedInv,
   queues, lock, call, ledger, timer, calm, still, rest, quiet
<1>1. ASSUME NEW p \in Callers, TestRoom(p) PROVE ~grow'[q]
  <2>1. coreThreadSize_ .. maxThreadSize_ - 1 = {}
    BY SizesAssumption
  <2>2. QED
    BY <1>1, <2>1 DEF TestRoom
<1>2. ASSUME NEW p \in Callers,
             \/ ChooseBranch(p) \/ CreateWorker(p) \/ AddWorker(p)
             \/ Give(p) \/ CountSleeping(p) \/ PushToWorker(p) \/ Enqueue(p)
             \/ CountWeak(p) \/ WeakRandomWoker(p) \/ TestBacklog(p) \/ TestTimer(p)
             \/ NewTimer(p) \/ AddKeepAlive(p)
      PROVE  grow' = grow
  BY <1>2 DEF ChooseBranch, CreateWorker, AddWorker, Give, CountSleeping, PushToWorker,
     Enqueue, CountWeak, WeakRandomWoker, TestBacklog, TestTimer, NewTimer, AddKeepAlive
<1>3. ASSUME NEW p \in Actors, ScanBegin(p) \/ ScanSkip(p) PROVE grow' = grow
  BY <1>3 DEF ScanBegin, ScanSkip
<1>4. ASSUME NEW w \in Workers,
             \/ TestStop(w) \/ PopOwn(w) \/ PopShared(w) \/ Steal(w)
             \/ EnterSleep(w) \/ WakeUp(w) \/ FinishTask(w) \/ Drain(w)
      PROVE  grow' = grow
  BY <1>4 DEF TestStop, PopOwn, PopShared, Steal, EnterSleep, WakeUp, FinishTask, Drain
<1>5. ASSUME NEW c \in Waiters,
             \/ WaitTest(c) \/ WeakAllWorker(c) \/ WaitScanBegin(c) \/ WaitVisit(c)
             \/ WaitScanEnd(c) \/ WaitEnter(c) \/ WaitWake(c) \/ BeginWait(c)
      PROVE  grow' = grow
  BY <1>5 DEF WaitTest, WeakAllWorker, WaitScanBegin, WaitVisit, WaitScanEnd, WaitEnter,
     WaitWake, BeginWait
<1>6. CASE Shutdown
  BY <1>6 DEF Shutdown, StopChecked, EraseChecked, JoinChecked, BeginDestory, StopTimer,
     LockPool, BeginJoin, JoinWorkers, StopWorker, CheckKeepAlive
<1>7. ASSUME NEW p \in Callers, NEW t \in Tasks, Submit(p, t) PROVE grow' = grow
  BY <1>7 DEF Submit
<1>8. ASSUME NEW p \in Workers \cup Waiters, SpuriousWakeup(p) PROVE grow' = grow
  BY <1>8 DEF SpuriousWakeup
<1>9. CASE UNCHANGED vars
  BY <1>9 DEF vars
<1>10. QED
  BY <1>1, <1>2, <1>3, <1>4, <1>5, <1>6, <1>7, <1>8, <1>9, NextCases DEF Shutdown

\* An iteration begins with the workers there are.
LEMMA ScanStep ==
  ASSUME IInv, [Next]_vars, NEW q \in Actors, scan[q] \subseteq workers_
  PROVE  scan'[q] \subseteq workers_
<1> USE ActorTypes DEF IInv, TypeOK, ScanEnd,
   queues, lock, call, ledger, timer, calm, still, rest, quiet
<1>1. ASSUME NEW p \in Callers,
             \/ ChooseBranch(p) \/ TestRoom(p) \/ CreateWorker(p) \/ AddWorker(p)
             \/ Give(p) \/ CountSleeping(p) \/ Enqueue(p) \/ CountWeak(p)
             \/ TestBacklog(p) \/ TestTimer(p) \/ NewTimer(p) \/ AddKeepAlive(p)
      PROVE  scan' = scan
  BY <1>1 DEF ChooseBranch, TestRoom, CreateWorker, AddWorker, Give, CountSleeping,
     Enqueue, CountWeak, TestBacklog, TestTimer, NewTimer, AddKeepAlive
<1>2. ASSUME NEW p \in Callers, PushToWorker(p) \/ WeakRandomWoker(p)
      PROVE  scan'[q] \subseteq workers_
  BY <1>2 DEF PushToWorker, WeakRandomWoker, Found, NotFound
<1>3. ASSUME NEW p \in Actors, ScanBegin(p) \/ ScanSkip(p) PROVE scan'[q] \subseteq workers_
  BY <1>3 DEF ScanBegin, ScanSkip
<1>4. ASSUME NEW w \in Workers,
             \/ TestStop(w) \/ PopOwn(w) \/ PopShared(w)
             \/ EnterSleep(w) \/ WakeUp(w) \/ FinishTask(w) \/ Drain(w)
      PROVE  scan' = scan
  BY <1>4 DEF TestStop, PopOwn, PopShared, EnterSleep, WakeUp, FinishTask, Drain
<1>5. ASSUME NEW w \in Workers, Steal(w) PROVE scan'[q] \subseteq workers_
  BY <1>5 DEF Steal, Found, NotFound
<1>6. ASSUME NEW c \in Waiters,
             \/ WaitTest(c) \/ WeakAllWorker(c) \/ WaitScanBegin(c) \/ WaitVisit(c)
             \/ WaitScanEnd(c) \/ WaitEnter(c) \/ WaitWake(c) \/ BeginWait(c)
      PROVE  scan'[q] \subseteq workers_
  <2>1. CASE WaitTest(c) \/ WeakAllWorker(c) \/ WaitEnter(c) \/ WaitWake(c) \/ BeginWait(c)
    BY <2>1 DEF WaitTest, WeakAllWorker, WaitEnter, WaitWake, BeginWait
  <2>2. CASE WaitScanBegin(c)
    BY <2>2 DEF WaitScanBegin
  <2>3. CASE WaitVisit(c)
    <3>1. PICK w \in scan[c] : scan' = [scan EXCEPT ![c] = @ \ {w}]
      BY <2>3 DEF WaitVisit
    <3>2. QED
      BY <3>1
  <2>4. CASE WaitScanEnd(c)
    BY <2>4 DEF WaitScanEnd
  <2>5. QED
    BY <1>6, <2>1, <2>2, <2>3, <2>4
<1>7. CASE Shutdown
  BY <1>7 DEF Shutdown, StopChecked, EraseChecked, JoinChecked, BeginDestory, StopTimer,
     LockPool, BeginJoin, JoinWorkers, StopWorker, CheckKeepAlive
<1>8. ASSUME NEW p \in Callers, NEW t \in Tasks, Submit(p, t) PROVE scan' = scan
  BY <1>8 DEF Submit
<1>9. ASSUME NEW p \in Workers \cup Waiters, SpuriousWakeup(p) PROVE scan' = scan
  BY <1>9 DEF SpuriousWakeup
<1>10. CASE UNCHANGED vars
  BY <1>10 DEF vars
<1>11. QED
  BY <1>1, <1>2, <1>3, <1>4, <1>5, <1>6, <1>7, <1>8, <1>9, <1>10, NextCases DEF Shutdown

\* Without room nobody comes near the timer, and no worker is erased.
LEMMA FixedStep ==
  ASSUME IInv, IInv', FixedInv, maxThreadSize_ <= coreThreadSize_, [Next]_vars
  PROVE  FixedInv'
<1> USE DEF FixedInv, Ended, Holding, life, timer
<1> DEFINE Kept ==
             /\ workers_ \subseteq workers_'
             /\ timer_' = "absent"
             /\ \A p \in Actors : pc'[p] \notin {"timerTest", "timerNew", "keepAlive"}
             /\ \A p \in Actors : pc'[p] = "give" => target'[p] \in workers_'
<1>1. \A p \in Actors : ~grow'[p] /\ pc[p] \notin Growing /\ pc'[p] \notin Growing
  BY RoomStep DEF IInv, CallInv
<1>2. ASSUME UNCHANGED <<pc, life>> PROVE Kept
  BY <1>2
<1>3. ASSUME NEW p \in Actors, Moved(p) PROVE Kept
  BY <1>3 DEF Moved, IInv, TypeOK
<1>4. ASSUME NEW w \in Workers, Exit(w) PROVE Kept
  BY <1>4, ActorTypes DEF Exit, IInv, TypeOK
<1>5. ASSUME NEW p \in Callers, Lead(p) PROVE Kept
  <2>1. CreateWorker(p) \/ AddWorker(p) \/ Give(p)
    BY <1>5, ActorTypes DEF Lead, TestTimer, NewTimer, AddKeepAlive
  <2>2. CASE CreateWorker(p)
    BY <1>1, <2>2, ActorTypes DEF CreateWorker, IInv, TypeOK, calm
  <2>3. CASE AddWorker(p)
    <3>1. pc[p] = "insert"
      BY <1>1, <2>3, ActorTypes DEF AddWorker, Growing
    <3>2. /\ pc' = [pc EXCEPT ![p] = "give"] /\ workers_' = workers_ \cup {target[p]}
          /\ timer_' = timer_ /\ target' = target
      BY <2>3, <3>1 DEF AddWorker, Goto, call
    <3>3. QED
      BY <3>2, ActorTypes DEF IInv, TypeOK
  <2>4. CASE Give(p)
    BY <2>4, ActorTypes DEF Give, Goto, Resume, IInv, TypeOK, calm
  <2>5. QED
    BY <2>1, <2>2, <2>3, <2>4
<1>6. ASSUME Shutdown PROVE Kept
  BY <1>6 DEF Shutdown, StopChecked, EraseChecked, JoinChecked, BeginDestory, StopTimer,
     LockPool, BeginJoin, JoinWorkers, StopWorker, CheckKeepAlive, quiet, still, call
<1>7. Kept
  BY <1>2, <1>3, <1>4, <1>5, <1>6, LifeCases
<1>8. \A p \in Actors : scan'[p] \subseteq workers_'
  BY <1>7, ScanStep
<1>9. ASSUME NEW w \in Workers, w \notin workers_' PROVE taskQueue_'[w] = <<>>
  <2>1. w \notin workers_ /\ taskQueue_[w] = <<>>
    BY <1>7, <1>9
  <2>2. ASSUME NEW p \in Callers PROVE ~(Give(p) /\ target[p] = w) /\ w \notin scan[p]
    BY <2>1, ActorTypes DEF Give
  <2>3. QED
    BY <2>1, <2>2, QueueFilled
<1>10. QED
  BY <1>1, <1>7, <1>8, <1>9

LEMMA FixedInvariance ==
  ASSUME maxThreadSize_ <= coreThreadSize_
  PROVE  Spec => [](IInv /\ FixedInv)
<1>1. Init => FixedInv
  BY ActorTypes DEF Init, FixedInv
<1>2. IInv /\ IInv' /\ FixedInv /\ [Next]_vars => FixedInv'
  BY FixedStep
<1>3. QED
  BY <1>1, <1>2, Invariance, PTL DEF Spec

\* The assertion of ~Worker (ThreadPool.h:300-303), which the run pool_assert
\* finds broken, holds in a pool that creates no temporary workers and whose
\* tasks do not submit others.
THEOREM FixedPoolDrained ==
  ASSUME Spawning = {}, maxThreadSize_ <= coreThreadSize_
  PROVE  Spec => []DestroyedEmpty
<1>1. IInv /\ FixedInv /\ CoreDrained => DestroyedEmpty
  BY DEF FixedInv, CoreDrained, DestroyedEmpty, IInv, TypeOK
<1>2. QED
  BY <1>1, FixedInvariance, CoreWorkersDrained, PTL

\* Only the caller itself creates the timer between its test and its step.
SoleInv == \A p \in Actors : pc[p] = "timerNew" => timer_ = "absent"

LEMMA SoleStep ==
  ASSUME IInv, IInv', SoleInv, [Next]_vars, \A p, q \in Callers : p = q
  PROVE  SoleInv'
<1> USE ActorTypes DEF SoleInv, Ended, Holding, life, timer
<1>1. CASE UNCHANGED <<pc, life>>
  BY <1>1
<1>2. ASSUME NEW p \in Actors, Moved(p) PROVE SoleInv'
  BY <1>2 DEF Moved, IInv, TypeOK
<1>3. ASSUME NEW w \in Workers, Exit(w) PROVE SoleInv'
  BY <1>3 DEF Exit, IInv, TypeOK
<1>4. ASSUME NEW p \in Callers, Lead(p) PROVE SoleInv'
  <2>1. \A q \in Actors \ {p} : pc'[q] # "timerNew"
    BY DEF IInv, CallInv, Adding
  <2>2. CASE CreateWorker(p) \/ AddWorker(p) \/ Give(p) \/ AddKeepAlive(p)
    BY <2>1, <2>2 DEF CreateWorker, AddWorker, Give, AddKeepAlive, Goto, Resume, IInv, TypeOK
  <2>3. CASE TestTimer(p) \/ NewTimer(p)
    BY <2>1, <2>3 DEF TestTimer, NewTimer, Goto, IInv, TypeOK, calm
  <2>4. QED
    BY <1>4, <2>2, <2>3 DEF Lead
<1>5. CASE Shutdown
  BY <1>5 DEF Shutdown, StopChecked, EraseChecked, JoinChecked, BeginDestory, StopTimer,
     LockPool, BeginJoin, JoinWorkers, StopWorker, CheckKeepAlive, quiet, still, Goto,
     IInv, TypeOK, LockInv
<1>6. QED
  BY <1>1, <1>2, <1>3, <1>4, <1>5, LifeCases

\* timer_ is created twice, which ends the program, only by concurrent callers
\* of AddTask: with one caller it never is.
THEOREM OneCallerSurvives ==
  ASSUME \A p, q \in Callers : p = q
  PROVE  Spec => [](~aborted)
<1>1. Init => SoleInv /\ ~aborted
  BY ActorTypes DEF Init, SoleInv
<1>2. IInv /\ IInv' /\ SoleInv /\ [Next]_vars => SoleInv'
  BY SoleStep
<1>3. ASSUME IInv, SoleInv, [Next]_vars, ~aborted PROVE ~aborted'
  <2>1. ASSUME NEW p \in Callers, Lead(p) PROVE ~aborted'
    BY <1>3, <2>1, ActorTypes DEF Lead, CreateWorker, AddWorker, Give, TestTimer, NewTimer,
       AddKeepAlive, SoleInv, calm
  <2>2. CASE Shutdown
    BY <1>3, <2>2 DEF Shutdown, StopChecked, EraseChecked, JoinChecked, BeginDestory, StopTimer,
       LockPool, BeginJoin, JoinWorkers, StopWorker, CheckKeepAlive, quiet, still
  <2>3. QED
    BY <1>3, <2>1, <2>2, LifeCases DEF Moved, Exit, life
<1>4. QED
  BY <1>1, <1>2, <1>3, Invariance, PTL DEF Spec

\* The comment on maxThreadSize_ (ThreadPool.h:595), which the run pool_max_threads finds
\* broken, holds when AddTask is never called concurrently.
THEOREM OneCallerKeepsLimit ==
  ASSUME Callers # {}, \A p, q \in Callers : p = q, coreThreadSize_ <= maxThreadSize_
  PROVE  Spec => []MaxThreads
<1>1. PICK c \in Callers : Callers = {c}
  <2>1. PICK c \in Callers : TRUE
    OBVIOUS
  <2>2. Callers = {c}
    BY <2>1
  <2>3. QED
    BY <2>2
<1>2. Cardinality(Callers) = 1
  BY <1>1, FS_Singleton
<1>3. TypeOK /\ ThreadsBounded => MaxThreads
  <2> SUFFICES ASSUME TypeOK, ThreadsBounded PROVE MaxThreads
    OBVIOUS
  <2>1. Cardinality(workers_) \in Nat
    BY FiniteSets DEF TypeOK
  <2>2. QED
    BY <1>2, <2>1, SizesAssumption DEF ThreadsBounded, MaxThreads, Limit
<1>4. QED
  BY <1>3, WithinLimit, TypeCorrect, PTL

-----------------------------------------------------------------------------

\* DestoryPool holds workerMtx_ and joins w, which runs a task that waits for
\* workerMtx_ in order to insert the worker it has created.
Blocked(w) == phase = "join" /\ w \in workers_ /\ pc[w] \in Registering

\* That is for ever (ThreadPool.h:652): DestoryPool does not return, and neither
\* does AddTask.
THEOREM DestoryPoolBlocks ==
  ASSUME NEW w \in Workers
  PROVE  Spec => [](Blocked(w) => []Blocked(w))
<1>1. ASSUME IInv, Blocked(w), [Next]_vars PROVE Blocked(w)'
  <2> USE <1>1, ActorTypes DEF IInv, TypeOK, Blocked, Registering, Holding, Ended, life, timer
  <2>1. CASE UNCHANGED <<pc, life>>
    BY <2>1
  <2>2. ASSUME NEW p \in Actors, Moved(p) PROVE Blocked(w)'
    BY <2>2 DEF Moved
  <2>3. ASSUME NEW v \in Workers, Exit(v) PROVE Blocked(w)'
    BY <2>3 DEF Exit
  <2>4. ASSUME NEW p \in Callers, CreateWorker(p) PROVE Blocked(w)'
    BY <2>4 DEF CreateWorker, calm
  <2>5. ASSUME NEW p \in Callers, AddWorker(p) PROVE FALSE
    BY <2>5 DEF AddWorker, LockFree, Writing
  <2>6. ASSUME NEW p \in Callers, Give(p) \/ TestTimer(p) \/ NewTimer(p) \/ AddKeepAlive(p)
        PROVE  Blocked(w)'
    BY <2>6 DEF Give, TestTimer, NewTimer, AddKeepAlive, Goto, calm
  <2>7. CASE StopChecked
    BY <2>7 DEF StopChecked, quiet
  <2>8. CASE EraseChecked
    BY <2>8 DEF EraseChecked, LockFree, Writing
  <2>9. CASE JoinChecked
    BY <2>9 DEF JoinChecked, LockInv, Goto, quiet
  <2>10. CASE BeginDestory \/ StopTimer \/ LockPool \/ BeginJoin \/ JoinWorkers
    BY <2>10 DEF BeginDestory, StopTimer, LockPool, BeginJoin, JoinWorkers
  <2>11. ASSUME NEW v \in Workers, StopWorker(v) \/ CheckKeepAlive(v) PROVE Blocked(w)'
    BY <2>11 DEF StopWorker, CheckKeepAlive, quiet
  <2>12. QED
    BY <2>1, <2>2, <2>3, <2>4, <2>5, <2>6, <2>7, <2>8, <2>9, <2>10, <2>11, LifeCases
       DEF Lead, Shutdown
<1>2. QED
  BY <1>1, Invariance, PTL DEF Spec

=============================================================================
