-------------------------- MODULE TimerWorkerProofs --------------------------
(***************************************************************************)
(* Proofs about TimerWorker, for any timers, periods and clock.  Which     *)
(* arrangement push_heap and pop_heap choose does not matter: they keep    *)
(* what is in the vector.                                                  *)
(***************************************************************************)
EXTENDS TimerWorker, FiniteSetTheorems, SequenceTheorems, TLAPS

\* A vector holds nothing twice.
Once(q) == \A i, j \in DOMAIN q : q[i] = q[j] => i = j

\* The timer in the hand of the timer thread, where it has one; it was due when it
\* was taken out.
Types ==
  /\ TypeOK
  /\ pc \notin {"loop", "pick", "wait", "exited"} => task \in Timers
  /\ pc \in {"test", "call", "update"} => now > point[task]

\* A timer is in the queue at most once, and not while the timer thread has it
\* nor before it was added.
QueueInv ==
  /\ Once(timerQueue_)
  /\ pc \in {"test", "call", "update", "mark", "push"} => task \notin Elements(timerQueue_)
  /\ \A t \in Timers : client[t] \in {"none", "push"} =>
       t \notin Elements(timerQueue_) /\ task # t

\* A handle is erased before its timer is stopped, and by somebody who stops it.
HandleInv ==
  \A t \in Timers :
    /\ client[t] \in {"none", "stop", "test", "dequeue", "removed"} => t \notin memoryTimers_
    /\ t \notin memoryTimers_ /\ client[t] \notin {"none", "stop"} =>
         stop[t] \/ (pc = "stop" /\ task = t)

\* A timer with a handle is in the queue, or with somebody who has to put it there
\* or to erase the handle.
KeptInv ==
  \A t \in memoryTimers_ :
    \/ client[t] = "push"
    \/ t \in Elements(timerQueue_)
    \/ task = t /\ pc \in {"test", "call", "update", "mark", "push", "find", "erase"}

\* A timer that ran late is stopped, and does not run again.
LateInv ==
  \A t \in Timers :
    \/ late[t] = 0
    \/ /\ late[t] = 1 /\ stop[t] /\ client[t] = "removed"
       /\ ~(pc = "call" /\ task = t)

IInv == Types /\ QueueInv /\ HandleInv /\ KeptInv /\ LateInv

-----------------------------------------------------------------------------
(* Vectors *)

\* An arrangement of a set of timers is a vector of them all, each once.
LEMMA Arranged ==
  ASSUME NEW S \in SUBSET Timers, NEW q \in Arrangements(S)
  PROVE  q \in Seq(Timers) /\ Once(q) /\ Elements(q) = S
<1> DEFINE n == Cardinality(S)
<1>1. IsFiniteSet(S) /\ n \in Nat
  BY FS_Subset, FS_CardinalityType, TimersAssumption
<1>2. q \in [1 .. n -> S] /\ Once(q)
  BY DEF Arrangements, Once
<1>3. Cardinality(1 .. n) = n
  BY <1>1, FS_Interval
<1>4. q \in Injection(1 .. n, S)
  BY <1>2 DEF Injection, IsInjective, Once
<1>5. q \in Surjection(1 .. n, S)
  BY <1>1, <1>3, <1>4, FS_Injection
<1>6. \A e \in S : \E i \in 1 .. n : q[i] = e
  BY <1>5 DEF Surjection
<1>7. Elements(q) = S
  BY <1>2, <1>6 DEF Elements
<1>8. q \in Seq(Timers)
  BY <1>1, <1>2
<1> QED
  BY <1>2, <1>7, <1>8

LEMMA ElementsType ==
  ASSUME NEW q \in Seq(Timers)
  PROVE  Elements(q) \in SUBSET Timers
BY DEF Elements

\* push_heap keeps what is there and adds the new timer.
LEMMA Pushed ==
  ASSUME NEW q \in Seq(Timers), NEW t \in Timers, NEW due, NEW r \in PushHeap(q, t, due)
  PROVE  r \in Seq(Timers) /\ Once(r) /\ Elements(r) = Elements(q) \cup {t}
<1>1. r \in Arrangements(Elements(q) \cup {t})
  BY DEF PushHeap
<1>2. Elements(q) \cup {t} \in SUBSET Timers
  BY ElementsType
<1> QED
  BY <1>1, <1>2, Arranged

\* pop_heap keeps what is there, with the first timer at the end.
LEMMA Popped ==
  ASSUME NEW q \in Seq(Timers), q # << >>, NEW due, NEW p \in PopHeap(q, due)
  PROVE  /\ p \in Seq(Timers) /\ Len(p) \in Nat \ {0} /\ Once(p)
         /\ p[Len(p)] \in Elements(q) /\ Elements(p) = Elements(q)
         /\ LET front == SubSeq(p, 1, Len(p) - 1) IN
            /\ front \in Seq(Timers) /\ Once(front)
            /\ Elements(front) = Elements(q) \ {p[Len(p)]}
<1>1. PICK r \in Arrangements(Elements(q) \ {Head(q)}) : p = Append(r, Head(q))
  BY DEF PopHeap
<1>2. Head(q) \in Elements(q) /\ Elements(q) \in SUBSET Timers
  BY ElementsType DEF Elements
<1>3. r \in Seq(Timers) /\ Once(r) /\ Elements(r) = Elements(q) \ {Head(q)}
  BY <1>2, Arranged
<1>4. p \in Seq(Timers) /\ Len(p) = Len(r) + 1 /\ p[Len(p)] = Head(q)
  BY <1>1, <1>2, <1>3
<1>5. \A i \in 1 .. Len(r) : p[i] = r[i]
  BY <1>1, <1>2, <1>3
<1>6. SubSeq(p, 1, Len(p) - 1) = r
  BY <1>1, <1>3, <1>4, <1>5
<1>7. Head(q) \notin Elements(r)
  BY <1>3
<1>8. Once(p)
  BY <1>3, <1>4, <1>5, <1>7 DEF Once, Elements
<1>9. Elements(p) = Elements(q)
  <2>1. Elements(p) = Elements(r) \cup {Head(q)}
    BY <1>3, <1>4, <1>5 DEF Elements
  <2> QED
    BY <2>1, <1>2, <1>3
<1>10. Len(p) \in Nat \ {0}
  BY <1>3, <1>4, LenProperties
<1> QED
  BY <1>2, <1>3, <1>4, <1>6, <1>8, <1>9, <1>10

\* Erasing a timer leaves the others where they are, each once.
LEMMA Erased ==
  ASSUME NEW q \in Seq(Timers), Once(q), NEW t \in Timers
  PROVE  /\ Without(q, t) \in Seq(Timers) /\ Once(Without(q, t))
         /\ Elements(Without(q, t)) = Elements(q) \ {t}
<1>1. CASE t \notin Elements(q)
  BY <1>1 DEF Without
<1>2. CASE t \in Elements(q)
  <2> DEFINE k == CHOOSE i \in DOMAIN q : q[i] = t /\ \A j \in 1 .. i - 1 : q[j] # t
             r == Without(q, t)
  <2>1. PICK i \in DOMAIN q : q[i] = t
    BY <1>2 DEF Elements
  <2>2. \A j \in 1 .. i - 1 : q[j] # t
    BY <2>1 DEF Once
  <2>3. k \in 1 .. Len(q) /\ q[k] = t
    BY <2>1, <2>2
  <2>4. r = SubSeq(q, 1, k - 1) \o SubSeq(q, k + 1, Len(q))
    BY <1>2 DEF Without
  <2> HIDE DEF k, r
  <2> DEFINE a == SubSeq(q, 1, k - 1)
             b == SubSeq(q, k + 1, Len(q))
  <2>10. Len(q) \in Nat /\ \A j \in 1 .. Len(q) : q[j] \in Timers
    BY LenProperties
  <2>11. a \in Seq(Timers) /\ Len(a) = k - 1 /\ \A j \in 1 .. k - 1 : a[j] = q[j]
    BY <2>3, <2>10, SubSeqProperties
  <2>12. /\ b \in Seq(Timers) /\ Len(b) = Len(q) - k
         /\ \A j \in 1 .. Len(q) - k : b[j] = q[k + j]
    BY <2>3, <2>10, SubSeqProperties
  <2>13. r = a \o b
    BY <2>4
  <2> HIDE DEF a, b
  <2>14. /\ a \o b \in Seq(Timers) /\ Len(a \o b) = Len(a) + Len(b)
         /\ \A j \in 1 .. Len(a) + Len(b) :
              (a \o b)[j] = IF j <= Len(a) THEN a[j] ELSE b[j - Len(a)]
    BY <2>11, <2>12, ConcatProperties
  <2>5. r \in Seq(Timers) /\ Len(r) = Len(q) - 1
    BY <2>3, <2>10, <2>11, <2>12, <2>13, <2>14
  <2>6. \A j \in 1 .. Len(r) : r[j] = q[IF j < k THEN j ELSE j + 1]
    <3> SUFFICES ASSUME NEW j \in 1 .. Len(r) PROVE r[j] = q[IF j < k THEN j ELSE j + 1]
      OBVIOUS
    <3>1. r[j] = IF j <= k - 1 THEN a[j] ELSE b[j - (k - 1)]
      BY <2>3, <2>5, <2>10, <2>11, <2>12, <2>13, <2>14
    <3>2. CASE j < k
      BY <3>1, <3>2, <2>3, <2>10, <2>11
    <3>3. CASE ~ j < k
      <4>1. j - (k - 1) \in 1 .. Len(q) - k
        BY <3>3, <2>3, <2>5, <2>10
      <4>2. b[j - (k - 1)] = q[k + (j - (k - 1))]
        BY <4>1, <2>12
      <4>3. k + (j - (k - 1)) = j + 1 /\ ~(j <= k - 1)
        BY <3>3, <2>3, <2>5, <2>10
      <4> QED
        BY <3>1, <3>3, <4>2, <4>3
    <3> QED
      BY <3>2, <3>3
  <2>7. Once(r)
    <3> SUFFICES ASSUME NEW j \in 1 .. Len(r), NEW m \in 1 .. Len(r), r[j] = r[m] PROVE j = m
      BY <2>5 DEF Once
    <3> DEFINE at(x) == IF x < k THEN x ELSE x + 1
    <3>1. q[at(j)] = q[at(m)] /\ at(j) \in 1 .. Len(q) /\ at(m) \in 1 .. Len(q)
      BY <2>3, <2>5, <2>6, <2>10
    <3>2. at(j) = at(m)
      BY <3>1 DEF Once
    <3> QED
      BY <3>2, <2>3, <2>5, <2>10
  <2>8. Elements(r) \subseteq Elements(q) \ {t}
    BY <2>3, <2>5, <2>6 DEF Elements, Once
  <2>9. ASSUME NEW e \in Elements(q), e # t PROVE e \in Elements(r)
    <3>1. PICK j \in 1 .. Len(q) : q[j] = e
      BY <2>9 DEF Elements
    <3>2. j # k
      BY <2>3, <2>9, <3>1
    <3>3. CASE j < k
      BY <2>3, <2>5, <2>6, <3>1, <3>3 DEF Elements
    <3>4. CASE j > k
      <4>1. j - 1 \in 1 .. Len(r) /\ r[j - 1] = e
        BY <2>3, <2>5, <2>6, <3>1, <3>4
      <4> QED
        BY <2>5, <4>1 DEF Elements
    <3> QED
      BY <2>3, <3>2, <3>3, <3>4
  <2> QED
    BY <2>5, <2>7, <2>8, <2>9 DEF r
<1> QED
  BY <1>1, <1>2

-----------------------------------------------------------------------------
(* The invariant *)

\* Pick takes a timer out of the queue, or lets it there.
LEMMA PickTakes ==
  ASSUME timerQueue_ \in Seq(Timers), Pick
  PROVE  /\ timerQueue_' \in Seq(Timers) /\ Once(timerQueue_')
         /\ task' \in Elements(timerQueue_)
         /\ \/ pc' = "test" /\ Elements(timerQueue_') = Elements(timerQueue_) \ {task'}
            \/ pc' = "waitUntil" /\ Elements(timerQueue_') = Elements(timerQueue_)
<1>1. PICK p \in PopHeap(timerQueue_, point) :
        /\ task' = p[Len(p)]
        /\ \/ timerQueue_' = SubSeq(p, 1, Len(p) - 1) /\ pc' = "test"
           \/ timerQueue_' = p /\ pc' = "waitUntil"
  BY DEF Pick
<1> QED
  BY <1>1, Popped DEF Pick

\* A step keeps every timer in at most one place of the queue.
LEMMA QueueStep ==
  ASSUME IInv, Next
  PROVE  QueueInv'
<1> USE TimersAssumption DEF IInv, Types, TypeOK, QueueInv, own, flags, thread, Goto
<1>1. ASSUME NEW t \in Timers, AddHandle(t) PROVE QueueInv'
  BY <1>1 DEF AddHandle
<1>2. ASSUME NEW t \in Timers, AddToQueue(t) PROVE QueueInv'
  <2>1. timerQueue_' \in PushHeap(timerQueue_, t, point) /\ client[t] = "push"
    BY <1>2 DEF AddToQueue
  <2>2. /\ timerQueue_' \in Seq(Timers) /\ Once(timerQueue_')
        /\ Elements(timerQueue_') = Elements(timerQueue_) \cup {t}
    BY <2>1, Pushed
  <2> QED
    BY <1>2, <2>1, <2>2 DEF AddToQueue
<1>3. ASSUME NEW t \in Timers, FindHandle(t) PROVE QueueInv'
  BY <1>3 DEF FindHandle
<1>4. ASSUME NEW t \in Timers, EraseHandle(t) PROVE QueueInv'
  BY <1>4 DEF EraseHandle
<1>5. ASSUME NEW t \in Timers, StopTask(t) PROVE QueueInv'
  BY <1>5 DEF StopTask
<1>6. ASSUME NEW t \in Timers, TestQueued(t) PROVE QueueInv'
  BY <1>6 DEF TestQueued
<1>7. ASSUME NEW t \in Timers, Dequeue(t) PROVE QueueInv'
  <2>1. /\ timerQueue_' \in Seq(Timers) /\ Once(timerQueue_')
        /\ Elements(timerQueue_') = Elements(timerQueue_) \ {t}
    BY <1>7, Erased DEF Dequeue
  <2> QED
    BY <1>7, <2>1 DEF Dequeue
<1>8. CASE Loop
  BY <1>8 DEF Loop
<1>9. CASE WaitEmpty
  BY <1>9 DEF WaitEmpty
<1>10. CASE Pick
  <2>1. /\ timerQueue_' \in Seq(Timers) /\ Once(timerQueue_')
        /\ task' \in Elements(timerQueue_)
        /\ \/ pc' = "test" /\ Elements(timerQueue_') = Elements(timerQueue_) \ {task'}
           \/ pc' = "waitUntil" /\ Elements(timerQueue_') = Elements(timerQueue_)
    BY <1>10, PickTakes
  <2> QED
    BY <1>10, <2>1, ElementsType DEF Pick
<1>11. CASE Timeout
  BY <1>11 DEF Timeout
<1>12. CASE WakeUp
  BY <1>12 DEF WakeUp
<1>13. CASE TestTask
  BY <1>13 DEF TestTask
<1>14. CASE Call
  BY <1>14 DEF Call
<1>15. CASE UpdateNextTimer
  BY <1>15 DEF UpdateNextTimer
<1>16. CASE MarkQueued
  BY <1>16 DEF MarkQueued
<1>17. CASE PushAgain
  <2>1. timerQueue_' \in PushHeap(timerQueue_, task, point) /\ task \in Timers
    BY <1>17 DEF PushAgain
  <2>2. /\ timerQueue_' \in Seq(Timers) /\ Once(timerQueue_')
        /\ Elements(timerQueue_') = Elements(timerQueue_) \cup {task}
    BY <2>1, Pushed
  <2> QED
    BY <1>17, <2>1, <2>2 DEF PushAgain
<1>18. CASE RemoveOwn
  BY <1>18 DEF RemoveOwn
<1>19. CASE SpuriousWakeup
  BY <1>19 DEF SpuriousWakeup
<1>20. CASE Stop
  BY <1>20 DEF Stop
<1>21. CASE Tick
  BY <1>21 DEF Tick
<1> QED
  BY <1>1, <1>2, <1>3, <1>4, <1>5, <1>6, <1>7, <1>8, <1>9, <1>10, <1>11, <1>12, <1>13,
     <1>14, <1>15, <1>16, <1>17, <1>18, <1>19, <1>20, <1>21 DEF Next, Run, Remove

\* A step keeps the order in which a handle and its timer are given up.
LEMMA HandleStep ==
  ASSUME IInv, Next
  PROVE  HandleInv'
<1> USE TimersAssumption DEF IInv, Types, TypeOK, QueueInv, HandleInv, Erase, own, flags, thread, Goto
<1>1. ASSUME NEW t \in Timers, AddHandle(t) PROVE HandleInv'
  BY <1>1 DEF AddHandle
<1>2. ASSUME NEW t \in Timers, AddToQueue(t) PROVE HandleInv'
  BY <1>2 DEF AddToQueue
<1>3. ASSUME NEW t \in Timers, FindHandle(t) PROVE HandleInv'
  <2> SUFFICES ASSUME NEW u \in Timers
               PROVE  /\ client'[u] \in {"none", "stop", "test", "dequeue", "removed"} => u \notin memoryTimers_'
                      /\ u \notin memoryTimers_' /\ client'[u] \notin {"none", "stop"} =>
                           stop'[u] \/ (pc' = "stop" /\ task' = u)
    OBVIOUS
  <2>1. CASE u = t
    BY <1>3, <2>1 DEF FindHandle
  <2>2. CASE u # t
    BY <1>3, <2>2 DEF FindHandle
  <2> QED
    BY <2>1, <2>2
<1>4. ASSUME NEW t \in Timers, EraseHandle(t) PROVE HandleInv'
  BY <1>4 DEF EraseHandle
<1>5. ASSUME NEW t \in Timers, StopTask(t) PROVE HandleInv'
  BY <1>5 DEF StopTask
<1>6. ASSUME NEW t \in Timers, TestQueued(t) PROVE HandleInv'
  BY <1>6 DEF TestQueued
<1>7. ASSUME NEW t \in Timers, Dequeue(t) PROVE HandleInv'
  BY <1>7 DEF Dequeue
<1>8. CASE Loop
  BY <1>8 DEF Loop
<1>9. CASE WaitEmpty
  BY <1>9 DEF WaitEmpty
<1>10. CASE Pick
  <2>1. /\ timerQueue_' \in Seq(Timers) /\ Once(timerQueue_')
        /\ task' \in Elements(timerQueue_)
        /\ \/ pc' = "test" /\ Elements(timerQueue_') = Elements(timerQueue_) \ {task'}
           \/ pc' = "waitUntil" /\ Elements(timerQueue_') = Elements(timerQueue_)
    BY <1>10, PickTakes
  <2> QED
    BY <1>10, <2>1, ElementsType DEF Pick
<1>11. CASE Timeout
  BY <1>11 DEF Timeout
<1>12. CASE WakeUp
  BY <1>12 DEF WakeUp
<1>13. CASE TestTask
  BY <1>13 DEF TestTask
<1>14. CASE Call
  BY <1>14 DEF Call
<1>15. CASE UpdateNextTimer
  BY <1>15 DEF UpdateNextTimer
<1>16. CASE MarkQueued
  BY <1>16 DEF MarkQueued
<1>17. CASE PushAgain
  BY <1>17 DEF PushAgain
<1>18. CASE RemoveOwn
  BY <1>18 DEF RemoveOwn
<1>19. CASE SpuriousWakeup
  BY <1>19 DEF SpuriousWakeup
<1>20. CASE Stop
  BY <1>20 DEF Stop
<1>21. CASE Tick
  BY <1>21 DEF Tick
<1> QED
  BY <1>1, <1>2, <1>3, <1>4, <1>5, <1>6, <1>7, <1>8, <1>9, <1>10, <1>11, <1>12, <1>13,
     <1>14, <1>15, <1>16, <1>17, <1>18, <1>19, <1>20, <1>21 DEF Next, Run, Remove

\* A step loses no timer.
LEMMA KeptStep ==
  ASSUME IInv, Next
  PROVE  KeptInv'
<1> USE TimersAssumption DEF IInv, Types, TypeOK, QueueInv, HandleInv, KeptInv, Erase, own, flags, thread, Goto
<1>1. ASSUME NEW t \in Timers, AddHandle(t) PROVE KeptInv'
  BY <1>1 DEF AddHandle
<1>2. ASSUME NEW t \in Timers, AddToQueue(t) PROVE KeptInv'
  <2>1. timerQueue_' \in PushHeap(timerQueue_, t, point) /\ client[t] = "push"
    BY <1>2 DEF AddToQueue
  <2>2. /\ timerQueue_' \in Seq(Timers) /\ Once(timerQueue_')
        /\ Elements(timerQueue_') = Elements(timerQueue_) \cup {t}
    BY <2>1, Pushed
  <2> QED
    BY <1>2, <2>1, <2>2 DEF AddToQueue
<1>3. ASSUME NEW t \in Timers, FindHandle(t) PROVE KeptInv'
  BY <1>3 DEF FindHandle
<1>4. ASSUME NEW t \in Timers, EraseHandle(t) PROVE KeptInv'
  BY <1>4 DEF EraseHandle
<1>5. ASSUME NEW t \in Timers, StopTask(t) PROVE KeptInv'
  BY <1>5 DEF StopTask
<1>6. ASSUME NEW t \in Timers, TestQueued(t) PROVE KeptInv'
  BY <1>6 DEF TestQueued
<1>7. ASSUME NEW t \in Timers, Dequeue(t) PROVE KeptInv'
  <2>1. /\ timerQueue_' \in Seq(Timers) /\ Once(timerQueue_')
        /\ Elements(timerQueue_') = Elements(timerQueue_) \ {t}
    BY <1>7, Erased DEF Dequeue
  <2> QED
    BY <1>7, <2>1 DEF Dequeue
<1>8. CASE Loop
  BY <1>8 DEF Loop
<1>9. CASE WaitEmpty
  BY <1>9 DEF WaitEmpty
<1>10. CASE Pick
  <2>1. /\ timerQueue_' \in Seq(Timers) /\ Once(timerQueue_')
        /\ task' \in Elements(timerQueue_)
        /\ \/ pc' = "test" /\ Elements(timerQueue_') = Elements(timerQueue_) \ {task'}
           \/ pc' = "waitUntil" /\ Elements(timerQueue_') = Elements(timerQueue_)
    BY <1>10, PickTakes
  <2> QED
    BY <1>10, <2>1, ElementsType DEF Pick
<1>11. CASE Timeout
  BY <1>11 DEF Timeout
<1>12. CASE WakeUp
  BY <1>12 DEF WakeUp
<1>13. CASE TestTask
  BY <1>13 DEF TestTask
<1>14. CASE Call
  BY <1>14 DEF Call
<1>15. CASE UpdateNextTimer
  BY <1>15 DEF UpdateNextTimer
<1>16. CASE MarkQueued
  BY <1>16 DEF MarkQueued
<1>17. CASE PushAgain
  <2>1. timerQueue_' \in PushHeap(timerQueue_, task, point) /\ task \in Timers
    BY <1>17 DEF PushAgain
  <2>2. /\ timerQueue_' \in Seq(Timers) /\ Once(timerQueue_')
        /\ Elements(timerQueue_') = Elements(timerQueue_) \cup {task}
    BY <2>1, Pushed
  <2> QED
    BY <1>17, <2>1, <2>2 DEF PushAgain
<1>18. CASE RemoveOwn
  BY <1>18 DEF RemoveOwn
<1>19. CASE SpuriousWakeup
  BY <1>19 DEF SpuriousWakeup
<1>20. CASE Stop
  BY <1>20 DEF Stop
<1>21. CASE Tick
  BY <1>21 DEF Tick
<1> QED
  BY <1>1, <1>2, <1>3, <1>4, <1>5, <1>6, <1>7, <1>8, <1>9, <1>10, <1>11, <1>12, <1>13,
     <1>14, <1>15, <1>16, <1>17, <1>18, <1>19, <1>20, <1>21 DEF Next, Run, Remove

\* A step does not let a timer run late twice.
LEMMA LateStep ==
  ASSUME IInv, Next
  PROVE  LateInv'
<1> USE TimersAssumption DEF IInv, Types, TypeOK, HandleInv, LateInv, Erase, own, flags, thread, Goto
<1>1. ASSUME NEW t \in Timers, AddHandle(t) PROVE LateInv'
  BY <1>1 DEF AddHandle
<1>2. ASSUME NEW t \in Timers, AddToQueue(t) PROVE LateInv'
  BY <1>2 DEF AddToQueue
<1>3. ASSUME NEW t \in Timers, FindHandle(t) PROVE LateInv'
  BY <1>3 DEF FindHandle
<1>4. ASSUME NEW t \in Timers, EraseHandle(t) PROVE LateInv'
  BY <1>4 DEF EraseHandle
<1>5. ASSUME NEW t \in Timers, StopTask(t) PROVE LateInv'
  BY <1>5 DEF StopTask
<1>6. ASSUME NEW t \in Timers, TestQueued(t) PROVE LateInv'
  BY <1>6 DEF TestQueued
<1>7. ASSUME NEW t \in Timers, Dequeue(t) PROVE LateInv'
  BY <1>7 DEF Dequeue
<1>8. CASE Loop
  BY <1>8 DEF Loop
<1>9. CASE WaitEmpty
  BY <1>9 DEF WaitEmpty
<1>10. CASE Pick
  <2>1. /\ timerQueue_' \in Seq(Timers) /\ Once(timerQueue_')
        /\ task' \in Elements(timerQueue_)
        /\ \/ pc' = "test" /\ Elements(timerQueue_') = Elements(timerQueue_) \ {task'}
           \/ pc' = "waitUntil" /\ Elements(timerQueue_') = Elements(timerQueue_)
    BY <1>10, PickTakes
  <2> QED
    BY <1>10, <2>1, ElementsType DEF Pick
<1>11. CASE Timeout
  BY <1>11 DEF Timeout
<1>12. CASE WakeUp
  BY <1>12 DEF WakeUp
<1>13. CASE TestTask
  BY <1>13 DEF TestTask
<1>14. CASE Call
  <2> SUFFICES ASSUME NEW u \in Timers
               PROVE  \/ late'[u] = 0
                      \/ /\ late'[u] = 1 /\ stop'[u] /\ client'[u] = "removed"
                         /\ ~(pc' = "call" /\ task' = u)
    OBVIOUS
  <2>1. CASE u = task
    <3>1. task \in Timers /\ pc = "call" /\ late[task] = 0
      BY <1>14, <2>1 DEF Call
    <3>2. CASE client[task] = "removed"
      <4>1. stop[task]
        BY <3>1, <3>2
      <4>2. late'[task] = 1 /\ stop' = stop /\ client' = client /\ pc' # "call"
        BY <1>14, <3>1, <3>2 DEF Call
      <4> QED
        BY <2>1, <3>2, <4>1, <4>2
    <3>3. CASE client[task] # "removed"
      BY <1>14, <2>1, <3>1, <3>3 DEF Call
    <3> QED
      BY <3>2, <3>3
  <2>2. CASE u # task
    BY <1>14, <2>2 DEF Call
  <2> QED
    BY <2>1, <2>2
<1>15. CASE UpdateNextTimer
  BY <1>15 DEF UpdateNextTimer
<1>16. CASE MarkQueued
  BY <1>16 DEF MarkQueued
<1>17. CASE PushAgain
  BY <1>17 DEF PushAgain
<1>18. CASE RemoveOwn
  <2> SUFFICES ASSUME NEW u \in Timers
               PROVE  \/ late'[u] = 0
                      \/ /\ late'[u] = 1 /\ stop'[u] /\ client'[u] = "removed"
                         /\ ~(pc' = "call" /\ task' = u)
    OBVIOUS
  <2>1. CASE u = task
    BY <1>18, <2>1 DEF RemoveOwn
  <2>2. CASE u # task
    BY <1>18, <2>2 DEF RemoveOwn
  <2> QED
    BY <2>1, <2>2
<1>19. CASE SpuriousWakeup
  BY <1>19 DEF SpuriousWakeup
<1>20. CASE Stop
  BY <1>20 DEF Stop
<1>21. CASE Tick
  BY <1>21 DEF Tick
<1> QED
  BY <1>1, <1>2, <1>3, <1>4, <1>5, <1>6, <1>7, <1>8, <1>9, <1>10, <1>11, <1>12, <1>13,
     <1>14, <1>15, <1>16, <1>17, <1>18, <1>19, <1>20, <1>21 DEF Next, Run, Remove

\* One more period: the bound on the points is one on their number.
LEMMA Multiples ==
  ASSUME NEW f \in Nat, NEW d \in Nat \ {0}, NEW n \in Nat, NEW L \in Nat, f + n * d < L
  PROVE  n + 1 \in 0 .. L /\ (f + n * d) + d = f + (n + 1) * d
<1>1. n * d \in Nat /\ n * d >= n
  OBVIOUS
<1>2. (n + 1) * d = n * d + d
  OBVIOUS
<1> QED
  BY <1>1, <1>2

\* A vector that holds nothing twice is no longer than there are timers.
LEMMA Bounded ==
  ASSUME NEW q \in Seq(Timers), Once(q)
  PROVE  Len(q) <= Cardinality(Timers)
<1>1. Len(q) \in Nat /\ q \in [1 .. Len(q) -> Timers] /\ DOMAIN q = 1 .. Len(q)
  BY LenProperties
<1>2. q \in Injection(1 .. Len(q), Timers)
  BY <1>1 DEF Injection, IsInjective, Once
<1>3. Cardinality(1 .. Len(q)) = Len(q)
  BY <1>1, FS_Interval
<1> QED
  BY <1>2, <1>3, FS_Injection, TimersAssumption


\* A step keeps the types.
LEMMA TypesStep ==
  ASSUME IInv, Next, QueueInv'
  PROVE  Types'
<1> USE TimersAssumption, Bounded DEF IInv, TypeOK, Types, QueueInv, Erase, own, flags, thread, Goto
<1>1. ASSUME NEW t \in Timers, AddHandle(t) PROVE Types'
  BY <1>1 DEF AddHandle
<1>2. ASSUME NEW t \in Timers, AddToQueue(t) PROVE Types'
  <2>1. timerQueue_' \in PushHeap(timerQueue_, t, point) /\ client[t] = "push"
    BY <1>2 DEF AddToQueue
  <2>2. /\ timerQueue_' \in Seq(Timers) /\ Once(timerQueue_')
        /\ Elements(timerQueue_') = Elements(timerQueue_) \cup {t}
    BY <2>1, Pushed
  <2> QED
    BY <1>2, <2>1, <2>2 DEF AddToQueue
<1>3. ASSUME NEW t \in Timers, FindHandle(t) PROVE Types'
  BY <1>3 DEF FindHandle
<1>4. ASSUME NEW t \in Timers, EraseHandle(t) PROVE Types'
  BY <1>4 DEF EraseHandle
<1>5. ASSUME NEW t \in Timers, StopTask(t) PROVE Types'
  BY <1>5 DEF StopTask
<1>6. ASSUME NEW t \in Timers, TestQueued(t) PROVE Types'
  BY <1>6 DEF TestQueued
<1>7. ASSUME NEW t \in Timers, Dequeue(t) PROVE Types'
  <2>1. /\ timerQueue_' \in Seq(Timers) /\ Once(timerQueue_')
        /\ Elements(timerQueue_') = Elements(timerQueue_) \ {t}
    BY <1>7, Erased DEF Dequeue
  <2> QED
    BY <1>7, <2>1 DEF Dequeue
<1>8. CASE Loop
  BY <1>8 DEF Loop
<1>9. CASE WaitEmpty
  BY <1>9 DEF WaitEmpty
<1>10. CASE Pick
  <2>1. /\ timerQueue_' \in Seq(Timers) /\ Once(timerQueue_')
        /\ task' \in Elements(timerQueue_)
        /\ \/ pc' = "test" /\ Elements(timerQueue_') = Elements(timerQueue_) \ {task'}
           \/ pc' = "waitUntil" /\ Elements(timerQueue_') = Elements(timerQueue_)
    BY <1>10, PickTakes
  <2> QED
    BY <1>10, <2>1, ElementsType DEF Pick
<1>11. CASE Timeout
  BY <1>11 DEF Timeout
<1>12. CASE WakeUp
  BY <1>12 DEF WakeUp
<1>13. CASE TestTask
  BY <1>13 DEF TestTask
<1>14. CASE Call
  BY <1>14 DEF Call
<1>15. CASE UpdateNextTimer
  <2>1. CASE pc' = "find"
    BY <1>15, <2>1 DEF UpdateNextTimer
  <2>2. CASE pc' = "mark"
    <3>1. /\ task \in Timers /\ delay[task] # 0 /\ point[task] < LastTick
          /\ point' = [point EXCEPT ![task] = @ + delay[task]]
      BY <1>15, <2>2 DEF UpdateNextTimer
    <3>2. PICK n \in 0 .. LastTick : point[task] = FirstPoint[task] + n * delay[task]
      BY <3>1
    <3>3. n + 1 \in 0 .. LastTick /\ point'[task] = FirstPoint[task] + (n + 1) * delay[task]
      <4>1. FirstPoint[task] \in Nat /\ delay[task] \in Nat \ {0} /\ n \in Nat /\ LastTick \in Nat
        BY <3>1
      <4>2. FirstPoint[task] + n * delay[task] < LastTick
        BY <3>1, <3>2
      <4>3. point'[task] = point[task] + delay[task]
        BY <3>1
      <4>4. /\ n + 1 \in 0 .. LastTick
            /\ (FirstPoint[task] + n * delay[task]) + delay[task] = FirstPoint[task] + (n + 1) * delay[task]
        BY ONLY <4>1, <4>2, Multiples
      <4> QED
        BY ONLY <3>2, <4>3, <4>4
    <3>4. \A t \in Timers :
            point'[t] \in {FirstPoint[t] + m * delay[t] : m \in 0 .. LastTick}
      BY <3>1, <3>3
    <3> QED
      BY <1>15, <2>2, <3>1, <3>4 DEF UpdateNextTimer
  <2> QED
    BY <1>15, <2>1, <2>2 DEF UpdateNextTimer
<1>16. CASE MarkQueued
  BY <1>16 DEF MarkQueued
<1>17. CASE PushAgain
  <2>1. timerQueue_' \in PushHeap(timerQueue_, task, point) /\ task \in Timers
    BY <1>17 DEF PushAgain
  <2>2. /\ timerQueue_' \in Seq(Timers) /\ Once(timerQueue_')
        /\ Elements(timerQueue_') = Elements(timerQueue_) \cup {task}
    BY <2>1, Pushed
  <2> QED
    BY <1>17, <2>1, <2>2 DEF PushAgain
<1>18. CASE RemoveOwn
  BY <1>18 DEF RemoveOwn
<1>19. CASE SpuriousWakeup
  BY <1>19 DEF SpuriousWakeup
<1>20. CASE Stop
  BY <1>20 DEF Stop
<1>21. CASE Tick
  <2>1. /\ clock' \in 0 .. LastTick
        /\ UNCHANGED <<memoryTimers_, timerQueue_, point, inTimerQueue, stop, stop_, asleep, pc,
                       now, task, client, late, corrupt>>
    BY <1>21 DEF Tick
  <2> QED
    BY <2>1
<1> QED
  BY <1>1, <1>2, <1>3, <1>4, <1>5, <1>6, <1>7, <1>8, <1>9, <1>10, <1>11, <1>12, <1>13,
     <1>14, <1>15, <1>16, <1>17, <1>18, <1>19, <1>20, <1>21 DEF Next, Run, Remove

LEMMA InitIInv == Init => IInv
<1> SUFFICES ASSUME Init PROVE IInv
  OBVIOUS
<1> USE TimersAssumption DEF Init
<1>1. Elements(timerQueue_) = {} /\ Once(timerQueue_) /\ timerQueue_ \in Seq(Timers)
  BY DEF Elements, Once
<1>2. \A t \in Timers : point[t] \in {FirstPoint[t] + k * delay[t] : k \in 0 .. LastTick}
  <2> SUFFICES ASSUME NEW t \in Timers
               PROVE  point[t] \in {FirstPoint[t] + k * delay[t] : k \in 0 .. LastTick}
    OBVIOUS
  <2>1. 0 \in 0 .. LastTick /\ point[t] = FirstPoint[t] + 0 * delay[t]
    OBVIOUS
  <2> QED
    BY <2>1
<1>3. TypeOK
  <2>1. Len(timerQueue_) <= Cardinality(Timers)
    BY <1>1, Bounded
  <2>2. DOMAIN point = Timers /\ memoryTimers_ \in SUBSET Timers /\ clock \in 0 .. LastTick
    OBVIOUS
  <2>3. /\ inTimerQueue \in [Timers -> BOOLEAN] /\ stop \in [Timers -> BOOLEAN]
        /\ late \in [Timers -> Nat]
    OBVIOUS
  <2> QED
    BY <1>1, <1>2, <2>1, <2>2, <2>3 DEF TypeOK
<1> QED
  BY <1>1, <1>3 DEF IInv, Types, QueueInv, HandleInv, KeptInv, LateInv

\* The invariant holds in every reachable state.
THEOREM Invariance == Spec => []IInv
<1>1. IInv /\ [Next]_vars => IInv'
  <2>1. ASSUME IInv, Next PROVE IInv'
    BY <2>1, QueueStep, HandleStep, KeptStep, LateStep, TypesStep DEF IInv
  <2>2. ASSUME IInv, UNCHANGED vars PROVE IInv'
    BY <2>2 DEF vars, flags, thread, IInv, Types, TypeOK, QueueInv, HandleInv, KeptInv, LateInv,
       Once, Elements
  <2> QED
    BY <2>1, <2>2
<1> QED
  BY <1>1, InitIInv, PTL DEF Spec

\* The variables of the timer thread keep their types, for any timers, periods
\* and clock; a periodic timer stays due at multiples of its period.
THEOREM TypeCorrect == Spec => []TypeOK
<1>1. IInv => TypeOK
  BY DEF IInv, Types
<1> QED
  BY <1>1, Invariance, PTL

\* However RemoveTask, AddTask and Run interleave, and whatever the heap functions
\* make of a vector that is no heap, a timer that was not removed is kept.
THEOREM TimersKept == Spec => []TimersNotLost
<1>1. IInv => TimersNotLost
  BY DEF IInv, KeptInv, TimersNotLost
<1> QED
  BY <1>1, Invariance, PTL

\* No timer is in the queue twice, nor while it runs.
THEOREM TimersQueuedOnce == Spec => []QueuedOnce
<1>1. IInv => QueuedOnce
  BY DEF IInv, QueueInv, Once, QueuedOnce
<1> QED
  BY <1>1, Invariance, PTL

\* After RemoveTask has returned a timer runs at most once more.
THEOREM AtMostOneLateRun == Spec => []OneLateRun
<1>1. IInv => OneLateRun
  BY DEF IInv, LateInv, OneLateRun
<1> QED
  BY <1>1, Invariance, PTL

-----------------------------------------------------------------------------
(* When the timer thread sleeps *)

\* It goes to sleep over an empty queue, and who pushes a timer wakes it.
SleepInv == pc = "wait" /\ asleep => timerQueue_ = <<>>

LEMMA SleepStep == IInv /\ SleepInv /\ [Next]_vars => SleepInv'
<1> SUFFICES ASSUME IInv, SleepInv, [Next]_vars PROVE SleepInv'
  OBVIOUS
<1> USE DEF SleepInv, own, flags, thread, Goto
<1>1. ASSUME NEW t \in Timers, AddHandle(t) PROVE SleepInv'
  BY <1>1 DEF AddHandle
<1>2. ASSUME NEW t \in Timers, AddToQueue(t) PROVE SleepInv'
  BY <1>2 DEF AddToQueue
<1>3. ASSUME NEW t \in Timers, FindHandle(t) PROVE SleepInv'
  BY <1>3 DEF FindHandle
<1>4. ASSUME NEW t \in Timers, EraseHandle(t) PROVE SleepInv'
  BY <1>4 DEF EraseHandle
<1>5. ASSUME NEW t \in Timers, StopTask(t) PROVE SleepInv'
  BY <1>5 DEF StopTask
<1>6. ASSUME NEW t \in Timers, TestQueued(t) PROVE SleepInv'
  BY <1>6 DEF TestQueued
<1>7. ASSUME NEW t \in Timers, Dequeue(t) PROVE SleepInv'
  <2>1. Without(<<>>, t) = <<>>
    BY DEF Without, Elements
  <2> QED
    BY <1>7, <2>1 DEF Dequeue
<1>8. CASE Loop
  BY <1>8 DEF Loop
<1>9. CASE WaitEmpty
  BY <1>9 DEF WaitEmpty
<1>10. CASE Pick
  BY <1>10 DEF Pick
<1>11. CASE Timeout
  BY <1>11 DEF Timeout
<1>12. CASE WakeUp
  BY <1>12 DEF WakeUp
<1>13. CASE TestTask
  BY <1>13 DEF TestTask
<1>14. CASE Call
  BY <1>14 DEF Call
<1>15. CASE UpdateNextTimer
  BY <1>15 DEF UpdateNextTimer
<1>16. CASE MarkQueued
  BY <1>16 DEF MarkQueued
<1>17. CASE PushAgain
  BY <1>17 DEF PushAgain
<1>18. CASE RemoveOwn
  BY <1>18 DEF RemoveOwn
<1>19. CASE SpuriousWakeup
  BY <1>19 DEF SpuriousWakeup
<1>20. CASE Stop
  BY <1>20 DEF Stop
<1>21. CASE Tick
  BY <1>21 DEF Tick
<1>22. CASE UNCHANGED vars
  BY <1>22 DEF vars
<1> QED
  BY <1>1, <1>2, <1>3, <1>4, <1>5, <1>6, <1>7, <1>8, <1>9, <1>10, <1>11, <1>12, <1>13,
     <1>14, <1>15, <1>16, <1>17, <1>18, <1>19, <1>20, <1>21, <1>22 DEF Next, Run, Remove

\* No interleaving of AddTask, RemoveTask and Run leaves the timer thread asleep
\* without a deadline over a timer that was added.
THEOREM NeverSleepsOverTimers == Spec => []NoTimerSleptOver
<1>1. Init => SleepInv
  BY DEF Init, SleepInv
<1>2. IInv /\ SleepInv => NoTimerSleptOver
  BY DEF IInv, Types, TypeOK, KeptInv, SleepInv, NoTimerSleptOver, Elements
<1> QED
  BY <1>1, <1>2, SleepStep, Invariance, PTL DEF Spec
=============================================================================
