------------------------- MODULE FutureStateProofs -------------------------
(***************************************************************************)
(* Proofs about FutureState, for every set of calls and values and for     *)
(* executors that throw as well as for those that do not.                  *)
(***************************************************************************)
EXTENDS FutureState, TLAPS

\* The lock is held between steps exactly by the producer inside do_notify.
LockInv ==
  \A c \in Calls : pc[c] \in Notifying <=> mtx_ = c

\* The fields a producer writes under the lock agree with one another.
StoreInv ==
  /\ has_stored_result_ = is_ready_
  /\ mtx_ # None => has_stored_result_
  /\ IF has_stored_result_
     THEN \/ result_ \in Values /\ ec_ptr_ = None
          \/ result_ = None /\ ec_ptr_ \in Errors
     ELSE result_ = None /\ ec_ptr_ = None

\* Who claimed the result, who sleeps, and who has been answered.
ClaimInv ==
  /\ \A c \in cv_ : pc[c] \in Waiting
  /\ \A c \in Calls : pc[c] = "getWait" => is_retrieved_ /\ got[c] = None
  /\ \A c, d \in Calls : pc[c] = "getWait" /\ pc[d] = "getWait" => c = d
  /\ \A c, d \in Calls : pc[c] = "getWait" => got[d] \notin Values
  /\ \A c \in Calls : got[c] \in Values => is_retrieved_

\* No waiter is left behind, unless a producer was thrown out of do_notify.
SleepInv ==
  is_ready_ /\ mtx_ = None /\ cv_ # {} => Faulted

\* A continuation is posted by the one do_notify there is.  A call whose
\* callback was installed has not asked for the result itself.
ContinuationInv ==
  /\ \A c \in Calls : pc[c] \in {"test", "invoke"} => posted \cup completed = {}
  /\ \A c \in Calls : pc[c] = "invoke" => ready_callback_ # None
  /\ OneContinuation
  /\ \A k \in posted \cup ({ready_callback_} \ {None}) :
       /\ pc[k] = "done" /\ outcome[k] = "attached"
       /\ k \notin completed => got[k] = None
  /\ \A k \in Calls : pc[k] # "done" => outcome[k] = None /\ got[k] = None

IInv ==
  /\ TypeOK
  /\ LockInv
  /\ StoreInv
  /\ ClaimInv
  /\ SleepInv
  /\ ContinuationInv
  /\ AnsweredFromStore
  /\ DeliveredOnce

-----------------------------------------------------------------------------
(* IInv is inductive: one lemma per conjunct, one step per action *)

\* Every step keeps the types of the variables.
LEMMA TypeStep == IInv /\ [Next]_vars => TypeOK'
<1> SUFFICES ASSUME IInv, [Next]_vars PROVE TypeOK'
  OBVIOUS
<1> USE CallsAssumption, ValuesAssumption DEF IInv, TypeOK, data, Goto,
   Finish, Notifying, Waiting, Errors, Retrieved, Outcomes, ContinuationInv
<1>1. ASSUME NEW c \in Calls, NEW v \in Values, SetValue(c, v)  PROVE TypeOK'
  <2>1. CASE Rejected(c, "promise_already_satisfied")
    BY <1>1, <2>1 DEF SetValue, Rejected
  <2>2. CASE ~has_stored_result_ /\ Store(c, v, ec_ptr_)
    BY <1>1, <2>2 DEF SetValue, Store
  <2>3. QED
    BY <1>1, <2>1, <2>2 DEF SetValue
<1>2. ASSUME NEW c \in Calls, SetException(c)  PROVE TypeOK'
  <2>1. CASE Rejected(c, "promise_already_satisfied")
    BY <1>2, <2>1 DEF SetException, Rejected
  <2>2. CASE ~has_stored_result_ /\ Store(c, result_, "user")
    BY <1>2, <2>2 DEF SetException, Store
  <2>3. QED
    BY <1>2, <2>1, <2>2 DEF SetException
<1>3. ASSUME NEW c \in Calls, Cancel(c)  PROVE TypeOK'
  <2>1. CASE Rejected(c, "nothing_to_cancel")
    BY <1>3, <2>1 DEF Cancel, Rejected
  <2>2. CASE ~has_stored_result_ /\ Store(c, result_, "broken_promise")
    BY <1>3, <2>2 DEF Cancel, Store
  <2>3. QED
    BY <1>3, <2>1, <2>2 DEF Cancel
<1>4. ASSUME NEW c \in Calls, PackagedTaskTest(c)  PROVE TypeOK'
  BY <1>4 DEF PackagedTaskTest
<1>5. ASSUME NEW c \in Calls, PackagedTaskThrow(c)  PROVE TypeOK'
  BY <1>5 DEF PackagedTaskThrow
<1>6. ASSUME NEW c \in Calls, TestCallback(c)  PROVE TypeOK'
  BY <1>6 DEF TestCallback
<1>7. ASSUME NEW c \in Calls, InvokeCallback(c)  PROVE TypeOK'
  BY <1>7 DEF InvokeCallback
<1>8. ASSUME NEW c \in Calls, InvokeCallbackThrow(c)  PROVE TypeOK'
  BY <1>8 DEF InvokeCallbackThrow
<1>9. ASSUME NEW c \in Calls, ClearCallback(c)  PROVE TypeOK'
  BY <1>9 DEF ClearCallback
<1>10. ASSUME NEW c \in Calls, NotifyAll(c)  PROVE TypeOK'
  BY <1>10 DEF NotifyAll
<1>11. ASSUME NEW c \in Calls, GetBegin(c)  PROVE TypeOK'
  <2>1. got' \in [Calls -> Values \cup Errors \cup {Retrieved, None}]
    BY <1>11 DEF GetBegin, Answer
  <2>2. is_retrieved_' \in BOOLEAN
    BY <1>11 DEF GetBegin
  <2>3. cv_' \in SUBSET Calls
    BY <1>11 DEF GetBegin, Sleep
  <2>4. pc' \in [Calls -> {"idle", "run", "lockWait", "lockTimedWait", "then",
                          "attach", "done"} \cup Notifying \cup Waiting]
    BY <1>11 DEF GetBegin, Sleep
  <2>5. QED
    BY <1>11, <2>1, <2>2, <2>3, <2>4 DEF GetBegin
<1>12. ASSUME NEW c \in Calls, NEW l \in {"lockWait", "lockTimedWait"}, WaitTest(c, l)
       PROVE TypeOK'
  BY <1>12 DEF WaitTest
<1>13. ASSUME NEW c \in Calls, WaitBegin(c)  PROVE TypeOK'
  BY <1>13 DEF WaitBegin, Sleep
<1>14. ASSUME NEW c \in Calls, SpuriousWakeup(c)  PROVE TypeOK'
  BY <1>14 DEF SpuriousWakeup
<1>15. ASSUME NEW c \in Calls, Wake(c)  PROVE TypeOK'
  BY <1>15 DEF Wake, Answer, Sleep, Result
<1>16. ASSUME NEW c \in Calls, Timeout(c)  PROVE TypeOK'
  BY <1>16 DEF Timeout
<1>17. ASSUME NEW c \in Calls, ThenBegin(c)  PROVE TypeOK'
  BY <1>17 DEF ThenBegin
<1>18. ASSUME NEW c \in Calls, ThenTest(c)  PROVE TypeOK'
  BY <1>18 DEF ThenTest
<1>19. ASSUME NEW c \in Calls, ThenAttach(c)  PROVE TypeOK'
  BY <1>19 DEF ThenAttach
<1>20. ASSUME NEW c \in Calls, RunWithValue(c)  PROVE TypeOK'
  BY <1>20 DEF RunWithValue, Answer, Result
<1>21. ASSUME NEW c \in Calls, RunPlain(c)  PROVE TypeOK'
  BY <1>21 DEF RunPlain
<1>22. CASE UNCHANGED vars
  BY <1>22 DEF vars
<1>23. QED BY <1>1, <1>2, <1>3, <1>4, <1>5, <1>6, <1>7, <1>8, <1>9, <1>10,
   <1>11, <1>12, <1>13, <1>14, <1>15, <1>16, <1>17, <1>18, <1>19, <1>20,
   <1>21, <1>22 DEF Next, Start, Step, Run

\* Only the producer that took the lock runs do_notify, and only it returns
\* the lock.
LEMMA LockStep == IInv /\ [Next]_vars => LockInv'
<1> SUFFICES ASSUME IInv, [Next]_vars PROVE LockInv'
  OBVIOUS
<1> USE CallsAssumption, ValuesAssumption DEF IInv, TypeOK, data, Goto,
   Finish, Notifying, Waiting, Errors, Retrieved, Outcomes, LockInv, StoreInv
<1>1. ASSUME NEW c \in Calls, NEW v \in Values, SetValue(c, v)  PROVE LockInv'
  BY <1>1 DEF SetValue, Store, Rejected
<1>2. ASSUME NEW c \in Calls, SetException(c)  PROVE LockInv'
  BY <1>2 DEF SetException, Store, Rejected
<1>3. ASSUME NEW c \in Calls, Cancel(c)  PROVE LockInv'
  BY <1>3 DEF Cancel, Store, Rejected
<1>4. ASSUME NEW c \in Calls, PackagedTaskTest(c)  PROVE LockInv'
  BY <1>4 DEF PackagedTaskTest
<1>5. ASSUME NEW c \in Calls, PackagedTaskThrow(c)  PROVE LockInv'
  BY <1>5 DEF PackagedTaskThrow
<1>6. ASSUME NEW c \in Calls, TestCallback(c)  PROVE LockInv'
  BY <1>6 DEF TestCallback
<1>7. ASSUME NEW c \in Calls, InvokeCallback(c)  PROVE LockInv'
  BY <1>7 DEF InvokeCallback
<1>8. ASSUME NEW c \in Calls, InvokeCallbackThrow(c)  PROVE LockInv'
  BY <1>8 DEF InvokeCallbackThrow
<1>9. ASSUME NEW c \in Calls, ClearCallback(c)  PROVE LockInv'
  BY <1>9 DEF ClearCallback
<1>10. ASSUME NEW c \in Calls, NotifyAll(c)  PROVE LockInv'
  BY <1>10 DEF NotifyAll
<1>11. ASSUME NEW c \in Calls, GetBegin(c)  PROVE LockInv'
  BY <1>11 DEF GetBegin, Answer, Sleep
<1>12. ASSUME NEW c \in Calls, NEW l \in {"lockWait", "lockTimedWait"}, WaitTest(c, l)
       PROVE LockInv'
  BY <1>12 DEF WaitTest
<1>13. ASSUME NEW c \in Calls, WaitBegin(c)  PROVE LockInv'
  BY <1>13 DEF WaitBegin, Sleep
<1>14. ASSUME NEW c \in Calls, SpuriousWakeup(c)  PROVE LockInv'
  BY <1>14 DEF SpuriousWakeup
<1>15. ASSUME NEW c \in Calls, Wake(c)  PROVE LockInv'
  BY <1>15 DEF Wake, Answer, Sleep, Result
<1>16. ASSUME NEW c \in Calls, Timeout(c)  PROVE LockInv'
  BY <1>16 DEF Timeout
<1>17. ASSUME NEW c \in Calls, ThenBegin(c)  PROVE LockInv'
  BY <1>17 DEF ThenBegin
<1>18. ASSUME NEW c \in Calls, ThenTest(c)  PROVE LockInv'
  BY <1>18 DEF ThenTest
<1>19. ASSUME NEW c \in Calls, ThenAttach(c)  PROVE LockInv'
  BY <1>19 DEF ThenAttach
<1>20. ASSUME NEW c \in Calls, RunWithValue(c)  PROVE LockInv'
  BY <1>20 DEF RunWithValue, Answer, Result
<1>21. ASSUME NEW c \in Calls, RunPlain(c)  PROVE LockInv'
  BY <1>21 DEF RunPlain
<1>22. CASE UNCHANGED vars
  BY <1>22 DEF vars
<1>23. QED BY <1>1, <1>2, <1>3, <1>4, <1>5, <1>6, <1>7, <1>8, <1>9, <1>10,
   <1>11, <1>12, <1>13, <1>14, <1>15, <1>16, <1>17, <1>18, <1>19, <1>20,
   <1>21, <1>22 DEF Next, Start, Step, Run

\* The flags, the value and the exception change together.
LEMMA StoreStep == IInv /\ [Next]_vars => StoreInv'
<1> SUFFICES ASSUME IInv, [Next]_vars PROVE StoreInv'
  OBVIOUS
<1> USE CallsAssumption, ValuesAssumption DEF IInv, TypeOK, data, Goto,
   Finish, Notifying, Waiting, Errors, Retrieved, Outcomes, LockInv, StoreInv
<1>1. ASSUME NEW c \in Calls, NEW v \in Values, SetValue(c, v)  PROVE StoreInv'
  <2>1. CASE Rejected(c, "promise_already_satisfied")
    BY <1>1, <2>1 DEF SetValue, Rejected
  <2>2. CASE ~has_stored_result_ /\ Store(c, v, ec_ptr_)
    BY <1>1, <2>2 DEF SetValue, Store
  <2>3. QED
    BY <1>1, <2>1, <2>2 DEF SetValue
<1>2. ASSUME NEW c \in Calls, SetException(c)  PROVE StoreInv'
  <2>1. CASE Rejected(c, "promise_already_satisfied")
    BY <1>2, <2>1 DEF SetException, Rejected
  <2>2. CASE ~has_stored_result_ /\ Store(c, result_, "user")
    BY <1>2, <2>2 DEF SetException, Store
  <2>3. QED
    BY <1>2, <2>1, <2>2 DEF SetException
<1>3. ASSUME NEW c \in Calls, Cancel(c)  PROVE StoreInv'
  <2>1. CASE Rejected(c, "nothing_to_cancel")
    BY <1>3, <2>1 DEF Cancel, Rejected
  <2>2. CASE ~has_stored_result_ /\ Store(c, result_, "broken_promise")
    BY <1>3, <2>2 DEF Cancel, Store
  <2>3. QED
    BY <1>3, <2>1, <2>2 DEF Cancel
<1>4. ASSUME NEW c \in Calls, PackagedTaskTest(c)  PROVE StoreInv'
  BY <1>4 DEF PackagedTaskTest
<1>5. ASSUME NEW c \in Calls, PackagedTaskThrow(c)  PROVE StoreInv'
  BY <1>5 DEF PackagedTaskThrow
<1>6. ASSUME NEW c \in Calls, TestCallback(c)  PROVE StoreInv'
  BY <1>6 DEF TestCallback
<1>7. ASSUME NEW c \in Calls, InvokeCallback(c)  PROVE StoreInv'
  BY <1>7 DEF InvokeCallback
<1>8. ASSUME NEW c \in Calls, InvokeCallbackThrow(c)  PROVE StoreInv'
  BY <1>8 DEF InvokeCallbackThrow
<1>9. ASSUME NEW c \in Calls, ClearCallback(c)  PROVE StoreInv'
  BY <1>9 DEF ClearCallback
<1>10. ASSUME NEW c \in Calls, NotifyAll(c)  PROVE StoreInv'
  BY <1>10 DEF NotifyAll
<1>11. ASSUME NEW c \in Calls, GetBegin(c)  PROVE StoreInv'
  BY <1>11 DEF GetBegin, Answer, Sleep
<1>12. ASSUME NEW c \in Calls, NEW l \in {"lockWait", "lockTimedWait"}, WaitTest(c, l)
       PROVE StoreInv'
  BY <1>12 DEF WaitTest
<1>13. ASSUME NEW c \in Calls, WaitBegin(c)  PROVE StoreInv'
  BY <1>13 DEF WaitBegin, Sleep
<1>14. ASSUME NEW c \in Calls, SpuriousWakeup(c)  PROVE StoreInv'
  BY <1>14 DEF SpuriousWakeup
<1>15. ASSUME NEW c \in Calls, Wake(c)  PROVE StoreInv'
  BY <1>15 DEF Wake, Answer, Sleep, Result
<1>16. ASSUME NEW c \in Calls, Timeout(c)  PROVE StoreInv'
  BY <1>16 DEF Timeout
<1>17. ASSUME NEW c \in Calls, ThenBegin(c)  PROVE StoreInv'
  BY <1>17 DEF ThenBegin
<1>18. ASSUME NEW c \in Calls, ThenTest(c)  PROVE StoreInv'
  BY <1>18 DEF ThenTest
<1>19. ASSUME NEW c \in Calls, ThenAttach(c)  PROVE StoreInv'
  BY <1>19 DEF ThenAttach
<1>20. ASSUME NEW c \in Calls, RunWithValue(c)  PROVE StoreInv'
  BY <1>20 DEF RunWithValue, Answer, Result
<1>21. ASSUME NEW c \in Calls, RunPlain(c)  PROVE StoreInv'
  BY <1>21 DEF RunPlain
<1>22. CASE UNCHANGED vars
  BY <1>22 DEF vars
<1>23. QED BY <1>1, <1>2, <1>3, <1>4, <1>5, <1>6, <1>7, <1>8, <1>9, <1>10,
   <1>11, <1>12, <1>13, <1>14, <1>15, <1>16, <1>17, <1>18, <1>19, <1>20,
   <1>21, <1>22 DEF Next, Start, Step, Run

\* One get(true) claims the result, and a value goes to the claimant alone.
LEMMA ClaimStep == IInv /\ [Next]_vars => ClaimInv'
<1> SUFFICES ASSUME IInv, [Next]_vars PROVE ClaimInv'
  OBVIOUS
<1> USE CallsAssumption, ValuesAssumption DEF IInv, TypeOK, data, Goto,
   Finish, Notifying, Waiting, Errors, Retrieved, Outcomes, LockInv, StoreInv,
   ClaimInv, ContinuationInv, AnsweredFromStore
<1>1. ASSUME NEW c \in Calls, NEW v \in Values, SetValue(c, v)  PROVE ClaimInv'
  BY <1>1 DEF SetValue, Store, Rejected
<1>2. ASSUME NEW c \in Calls, SetException(c)  PROVE ClaimInv'
  BY <1>2 DEF SetException, Store, Rejected
<1>3. ASSUME NEW c \in Calls, Cancel(c)  PROVE ClaimInv'
  BY <1>3 DEF Cancel, Store, Rejected
<1>4. ASSUME NEW c \in Calls, PackagedTaskTest(c)  PROVE ClaimInv'
  BY <1>4 DEF PackagedTaskTest
<1>5. ASSUME NEW c \in Calls, PackagedTaskThrow(c)  PROVE ClaimInv'
  BY <1>5 DEF PackagedTaskThrow
<1>6. ASSUME NEW c \in Calls, TestCallback(c)  PROVE ClaimInv'
  BY <1>6 DEF TestCallback
<1>7. ASSUME NEW c \in Calls, InvokeCallback(c)  PROVE ClaimInv'
  BY <1>7 DEF InvokeCallback
<1>8. ASSUME NEW c \in Calls, InvokeCallbackThrow(c)  PROVE ClaimInv'
  BY <1>8 DEF InvokeCallbackThrow
<1>9. ASSUME NEW c \in Calls, ClearCallback(c)  PROVE ClaimInv'
  BY <1>9 DEF ClearCallback
<1>10. ASSUME NEW c \in Calls, NotifyAll(c)  PROVE ClaimInv'
  BY <1>10 DEF NotifyAll
<1>11. ASSUME NEW c \in Calls, GetBegin(c)  PROVE ClaimInv'
  BY <1>11 DEF GetBegin, Answer, Sleep
<1>12. ASSUME NEW c \in Calls, NEW l \in {"lockWait", "lockTimedWait"}, WaitTest(c, l)
       PROVE ClaimInv'
  BY <1>12 DEF WaitTest
<1>13. ASSUME NEW c \in Calls, WaitBegin(c)  PROVE ClaimInv'
  BY <1>13 DEF WaitBegin, Sleep
<1>14. ASSUME NEW c \in Calls, SpuriousWakeup(c)  PROVE ClaimInv'
  BY <1>14 DEF SpuriousWakeup
<1>15. ASSUME NEW c \in Calls, Wake(c)  PROVE ClaimInv'
  BY <1>15 DEF Wake, Answer, Sleep, Result
<1>16. ASSUME NEW c \in Calls, Timeout(c)  PROVE ClaimInv'
  BY <1>16 DEF Timeout
<1>17. ASSUME NEW c \in Calls, ThenBegin(c)  PROVE ClaimInv'
  BY <1>17 DEF ThenBegin
<1>18. ASSUME NEW c \in Calls, ThenTest(c)  PROVE ClaimInv'
  BY <1>18 DEF ThenTest
<1>19. ASSUME NEW c \in Calls, ThenAttach(c)  PROVE ClaimInv'
  BY <1>19 DEF ThenAttach
<1>20. ASSUME NEW c \in Calls, RunWithValue(c)  PROVE ClaimInv'
  BY <1>20 DEF RunWithValue, Answer, Result
<1>21. ASSUME NEW c \in Calls, RunPlain(c)  PROVE ClaimInv'
  BY <1>21 DEF RunPlain
<1>22. CASE UNCHANGED vars
  BY <1>22 DEF vars
<1>23. QED BY <1>1, <1>2, <1>3, <1>4, <1>5, <1>6, <1>7, <1>8, <1>9, <1>10,
   <1>11, <1>12, <1>13, <1>14, <1>15, <1>16, <1>17, <1>18, <1>19, <1>20,
   <1>21, <1>22 DEF Next, Start, Step, Run

\* A call goes to sleep only while nothing is stored; notify_all wakes all.
LEMMA SleepStep == IInv /\ [Next]_vars => SleepInv'
<1> SUFFICES ASSUME IInv, [Next]_vars PROVE SleepInv'
  OBVIOUS
<1> USE CallsAssumption, ValuesAssumption DEF IInv, TypeOK, data, Goto,
   Finish, Notifying, Waiting, Errors, Retrieved, Outcomes, LockInv, StoreInv,
   ClaimInv, SleepInv, Faulted, ContinuationInv
<1>1. ASSUME NEW c \in Calls, NEW v \in Values, SetValue(c, v)  PROVE SleepInv'
  <2>1. CASE Rejected(c, "promise_already_satisfied")
    BY <1>1, <2>1 DEF SetValue, Rejected
  <2>2. CASE ~has_stored_result_ /\ Store(c, v, ec_ptr_)
    BY <1>1, <2>2 DEF SetValue, Store
  <2>3. QED
    BY <1>1, <2>1, <2>2 DEF SetValue
<1>2. ASSUME NEW c \in Calls, SetException(c)  PROVE SleepInv'
  <2>1. CASE Rejected(c, "promise_already_satisfied")
    BY <1>2, <2>1 DEF SetException, Rejected
  <2>2. CASE ~has_stored_result_ /\ Store(c, result_, "user")
    BY <1>2, <2>2 DEF SetException, Store
  <2>3. QED
    BY <1>2, <2>1, <2>2 DEF SetException
<1>3. ASSUME NEW c \in Calls, Cancel(c)  PROVE SleepInv'
  <2>1. CASE Rejected(c, "nothing_to_cancel")
    BY <1>3, <2>1 DEF Cancel, Rejected
  <2>2. CASE ~has_stored_result_ /\ Store(c, result_, "broken_promise")
    BY <1>3, <2>2 DEF Cancel, Store
  <2>3. QED
    BY <1>3, <2>1, <2>2 DEF Cancel
<1>4. ASSUME NEW c \in Calls, PackagedTaskTest(c)  PROVE SleepInv'
  BY <1>4 DEF PackagedTaskTest
<1>5. ASSUME NEW c \in Calls, PackagedTaskThrow(c)  PROVE SleepInv'
  BY <1>5 DEF PackagedTaskThrow
<1>6. ASSUME NEW c \in Calls, TestCallback(c)  PROVE SleepInv'
  BY <1>6 DEF TestCallback
<1>7. ASSUME NEW c \in Calls, InvokeCallback(c)  PROVE SleepInv'
  BY <1>7 DEF InvokeCallback
<1>8. ASSUME NEW c \in Calls, InvokeCallbackThrow(c)  PROVE SleepInv'
  BY <1>8 DEF InvokeCallbackThrow
<1>9. ASSUME NEW c \in Calls, ClearCallback(c)  PROVE SleepInv'
  BY <1>9 DEF ClearCallback
<1>10. ASSUME NEW c \in Calls, NotifyAll(c)  PROVE SleepInv'
  BY <1>10 DEF NotifyAll
<1>11. ASSUME NEW c \in Calls, GetBegin(c)  PROVE SleepInv'
  BY <1>11 DEF GetBegin, Answer, Sleep
<1>12. ASSUME NEW c \in Calls, NEW l \in {"lockWait", "lockTimedWait"}, WaitTest(c, l)
       PROVE SleepInv'
  BY <1>12 DEF WaitTest
<1>13. ASSUME NEW c \in Calls, WaitBegin(c)  PROVE SleepInv'
  BY <1>13 DEF WaitBegin, Sleep
<1>14. ASSUME NEW c \in Calls, SpuriousWakeup(c)  PROVE SleepInv'
  BY <1>14 DEF SpuriousWakeup
<1>15. ASSUME NEW c \in Calls, Wake(c)  PROVE SleepInv'
  BY <1>15 DEF Wake, Answer, Sleep, Result
<1>16. ASSUME NEW c \in Calls, Timeout(c)  PROVE SleepInv'
  BY <1>16 DEF Timeout
<1>17. ASSUME NEW c \in Calls, ThenBegin(c)  PROVE SleepInv'
  BY <1>17 DEF ThenBegin
<1>18. ASSUME NEW c \in Calls, ThenTest(c)  PROVE SleepInv'
  BY <1>18 DEF ThenTest
<1>19. ASSUME NEW c \in Calls, ThenAttach(c)  PROVE SleepInv'
  BY <1>19 DEF ThenAttach
<1>20. ASSUME NEW c \in Calls, RunWithValue(c)  PROVE SleepInv'
  BY <1>20 DEF RunWithValue, Answer, Result
<1>21. ASSUME NEW c \in Calls, RunPlain(c)  PROVE SleepInv'
  BY <1>21 DEF RunPlain
<1>22. CASE UNCHANGED vars
  BY <1>22 DEF vars
<1>23. QED BY <1>1, <1>2, <1>3, <1>4, <1>5, <1>6, <1>7, <1>8, <1>9, <1>10,
   <1>11, <1>12, <1>13, <1>14, <1>15, <1>16, <1>17, <1>18, <1>19, <1>20,
   <1>21, <1>22 DEF Next, Start, Step, Run

\* do_notify runs once, so that at most one continuation is ever posted.
LEMMA ContinuationStep == IInv /\ [Next]_vars => ContinuationInv'
<1> SUFFICES ASSUME IInv, [Next]_vars PROVE ContinuationInv'
  OBVIOUS
<1> USE CallsAssumption, ValuesAssumption DEF IInv, TypeOK, data, Goto,
   Finish, Notifying, Waiting, Errors, Retrieved, Outcomes, LockInv, StoreInv,
   ContinuationInv, OneContinuation
<1>1. ASSUME NEW c \in Calls, NEW v \in Values, SetValue(c, v)
      PROVE ContinuationInv'
  BY <1>1 DEF SetValue, Store, Rejected
<1>2. ASSUME NEW c \in Calls, SetException(c)  PROVE ContinuationInv'
  BY <1>2 DEF SetException, Store, Rejected
<1>3. ASSUME NEW c \in Calls, Cancel(c)  PROVE ContinuationInv'
  BY <1>3 DEF Cancel, Store, Rejected
<1>4. ASSUME NEW c \in Calls, PackagedTaskTest(c)  PROVE ContinuationInv'
  BY <1>4 DEF PackagedTaskTest
<1>5. ASSUME NEW c \in Calls, PackagedTaskThrow(c)  PROVE ContinuationInv'
  BY <1>5 DEF PackagedTaskThrow
<1>6. ASSUME NEW c \in Calls, TestCallback(c)  PROVE ContinuationInv'
  BY <1>6 DEF TestCallback
<1>7. ASSUME NEW c \in Calls, InvokeCallback(c)  PROVE ContinuationInv'
  BY <1>7 DEF InvokeCallback
<1>8. ASSUME NEW c \in Calls, InvokeCallbackThrow(c)  PROVE ContinuationInv'
  BY <1>8 DEF InvokeCallbackThrow
<1>9. ASSUME NEW c \in Calls, ClearCallback(c)  PROVE ContinuationInv'
  BY <1>9 DEF ClearCallback
<1>10. ASSUME NEW c \in Calls, NotifyAll(c)  PROVE ContinuationInv'
  BY <1>10 DEF NotifyAll
<1>11. ASSUME NEW c \in Calls, GetBegin(c)  PROVE ContinuationInv'
  BY <1>11 DEF GetBegin, Answer, Sleep
<1>12. ASSUME NEW c \in Calls, NEW l \in {"lockWait", "lockTimedWait"}, WaitTest(c, l)
       PROVE ContinuationInv'
  BY <1>12 DEF WaitTest
<1>13. ASSUME NEW c \in Calls, WaitBegin(c)  PROVE ContinuationInv'
  BY <1>13 DEF WaitBegin, Sleep
<1>14. ASSUME NEW c \in Calls, SpuriousWakeup(c)  PROVE ContinuationInv'
  BY <1>14 DEF SpuriousWakeup
<1>15. ASSUME NEW c \in Calls, Wake(c)  PROVE ContinuationInv'
  BY <1>15 DEF Wake, Answer, Sleep, Result
<1>16. ASSUME NEW c \in Calls, Timeout(c)  PROVE ContinuationInv'
  BY <1>16 DEF Timeout
<1>17. ASSUME NEW c \in Calls, ThenBegin(c)  PROVE ContinuationInv'
  BY <1>17 DEF ThenBegin
<1>18. ASSUME NEW c \in Calls, ThenTest(c)  PROVE ContinuationInv'
  BY <1>18 DEF ThenTest
<1>19. ASSUME NEW c \in Calls, ThenAttach(c)  PROVE ContinuationInv'
  BY <1>19 DEF ThenAttach
<1>20. ASSUME NEW c \in Calls, RunWithValue(c)  PROVE ContinuationInv'
  BY <1>20 DEF RunWithValue, Answer, Result
<1>21. ASSUME NEW c \in Calls, RunPlain(c)  PROVE ContinuationInv'
  BY <1>21 DEF RunPlain
<1>22. CASE UNCHANGED vars
  BY <1>22 DEF vars
<1>23. QED BY <1>1, <1>2, <1>3, <1>4, <1>5, <1>6, <1>7, <1>8, <1>9, <1>10,
   <1>11, <1>12, <1>13, <1>14, <1>15, <1>16, <1>17, <1>18, <1>19, <1>20,
   <1>21, <1>22 DEF Next, Start, Step, Run

\* A get() ends with what is stored, or is refused after a claim.
LEMMA AnswerStep == IInv /\ [Next]_vars => AnsweredFromStore'
<1> SUFFICES ASSUME IInv, [Next]_vars PROVE AnsweredFromStore'
  OBVIOUS
<1> USE CallsAssumption, ValuesAssumption DEF IInv, TypeOK, data, Goto,
   Finish, Notifying, Waiting, Errors, Retrieved, Outcomes, LockInv, StoreInv,
   ClaimInv, ContinuationInv, AnsweredFromStore, OneContinuation
<1>1. ASSUME NEW c \in Calls, NEW v \in Values, SetValue(c, v)
      PROVE AnsweredFromStore'
  BY <1>1 DEF SetValue, Store, Rejected
<1>2. ASSUME NEW c \in Calls, SetException(c)  PROVE AnsweredFromStore'
  BY <1>2 DEF SetException, Store, Rejected
<1>3. ASSUME NEW c \in Calls, Cancel(c)  PROVE AnsweredFromStore'
  BY <1>3 DEF Cancel, Store, Rejected
<1>4. ASSUME NEW c \in Calls, PackagedTaskTest(c)  PROVE AnsweredFromStore'
  BY <1>4 DEF PackagedTaskTest
<1>5. ASSUME NEW c \in Calls, PackagedTaskThrow(c)  PROVE AnsweredFromStore'
  BY <1>5 DEF PackagedTaskThrow
<1>6. ASSUME NEW c \in Calls, TestCallback(c)  PROVE AnsweredFromStore'
  BY <1>6 DEF TestCallback
<1>7. ASSUME NEW c \in Calls, InvokeCallback(c)  PROVE AnsweredFromStore'
  BY <1>7 DEF InvokeCallback
<1>8. ASSUME NEW c \in Calls, InvokeCallbackThrow(c)  PROVE AnsweredFromStore'
  BY <1>8 DEF InvokeCallbackThrow
<1>9. ASSUME NEW c \in Calls, ClearCallback(c)  PROVE AnsweredFromStore'
  BY <1>9 DEF ClearCallback
<1>10. ASSUME NEW c \in Calls, NotifyAll(c)  PROVE AnsweredFromStore'
  BY <1>10 DEF NotifyAll
<1>11. ASSUME NEW c \in Calls, GetBegin(c)  PROVE AnsweredFromStore'
  BY <1>11 DEF GetBegin, Answer, Sleep
<1>12. ASSUME NEW c \in Calls, NEW l \in {"lockWait", "lockTimedWait"}, WaitTest(c, l)
       PROVE AnsweredFromStore'
  BY <1>12 DEF WaitTest
<1>13. ASSUME NEW c \in Calls, WaitBegin(c)  PROVE AnsweredFromStore'
  BY <1>13 DEF WaitBegin, Sleep
<1>14. ASSUME NEW c \in Calls, SpuriousWakeup(c)  PROVE AnsweredFromStore'
  BY <1>14 DEF SpuriousWakeup
<1>15. ASSUME NEW c \in Calls, Wake(c)  PROVE AnsweredFromStore'
  BY <1>15 DEF Wake, Answer, Sleep, Result
<1>16. ASSUME NEW c \in Calls, Timeout(c)  PROVE AnsweredFromStore'
  BY <1>16 DEF Timeout
<1>17. ASSUME NEW c \in Calls, ThenBegin(c)  PROVE AnsweredFromStore'
  BY <1>17 DEF ThenBegin
<1>18. ASSUME NEW c \in Calls, ThenTest(c)  PROVE AnsweredFromStore'
  BY <1>18 DEF ThenTest
<1>19. ASSUME NEW c \in Calls, ThenAttach(c)  PROVE AnsweredFromStore'
  BY <1>19 DEF ThenAttach
<1>20. ASSUME NEW c \in Calls, RunWithValue(c)  PROVE AnsweredFromStore'
  BY <1>20 DEF RunWithValue, Answer, Result
<1>21. ASSUME NEW c \in Calls, RunPlain(c)  PROVE AnsweredFromStore'
  BY <1>21 DEF RunPlain
<1>22. CASE UNCHANGED vars
  BY <1>22 DEF vars
<1>23. QED BY <1>1, <1>2, <1>3, <1>4, <1>5, <1>6, <1>7, <1>8, <1>9, <1>10,
   <1>11, <1>12, <1>13, <1>14, <1>15, <1>16, <1>17, <1>18, <1>19, <1>20,
   <1>21, <1>22 DEF Next, Start, Step, Run

\* The value is given out once.
LEMMA DeliverStep == IInv /\ [Next]_vars => DeliveredOnce'
<1> SUFFICES ASSUME IInv, [Next]_vars PROVE DeliveredOnce'
  OBVIOUS
<1> USE CallsAssumption, ValuesAssumption DEF IInv, TypeOK, data, Goto,
   Finish, Notifying, Waiting, Errors, Retrieved, Outcomes, LockInv, StoreInv,
   ClaimInv, ContinuationInv, DeliveredOnce, OneContinuation
<1>1. ASSUME NEW c \in Calls, NEW v \in Values, SetValue(c, v)
      PROVE DeliveredOnce'
  BY <1>1 DEF SetValue, Store, Rejected
<1>2. ASSUME NEW c \in Calls, SetException(c)  PROVE DeliveredOnce'
  BY <1>2 DEF SetException, Store, Rejected
<1>3. ASSUME NEW c \in Calls, Cancel(c)  PROVE DeliveredOnce'
  BY <1>3 DEF Cancel, Store, Rejected
<1>4. ASSUME NEW c \in Calls, PackagedTaskTest(c)  PROVE DeliveredOnce'
  BY <1>4 DEF PackagedTaskTest
<1>5. ASSUME NEW c \in Calls, PackagedTaskThrow(c)  PROVE DeliveredOnce'
  BY <1>5 DEF PackagedTaskThrow
<1>6. ASSUME NEW c \in Calls, TestCallback(c)  PROVE DeliveredOnce'
  BY <1>6 DEF TestCallback
<1>7. ASSUME NEW c \in Calls, InvokeCallback(c)  PROVE DeliveredOnce'
  BY <1>7 DEF InvokeCallback
<1>8. ASSUME NEW c \in Calls, InvokeCallbackThrow(c)  PROVE DeliveredOnce'
  BY <1>8 DEF InvokeCallbackThrow
<1>9. ASSUME NEW c \in Calls, ClearCallback(c)  PROVE DeliveredOnce'
  BY <1>9 DEF ClearCallback
<1>10. ASSUME NEW c \in Calls, NotifyAll(c)  PROVE DeliveredOnce'
  BY <1>10 DEF NotifyAll
<1>11. ASSUME NEW c \in Calls, GetBegin(c)  PROVE DeliveredOnce'
  BY <1>11 DEF GetBegin, Answer, Sleep
<1>12. ASSUME NEW c \in Calls, NEW l \in {"lockWait", "lockTimedWait"}, WaitTest(c, l)
       PROVE DeliveredOnce'
  BY <1>12 DEF WaitTest
<1>13. ASSUME NEW c \in Calls, WaitBegin(c)  PROVE DeliveredOnce'
  BY <1>13 DEF WaitBegin, Sleep
<1>14. ASSUME NEW c \in Calls, SpuriousWakeup(c)  PROVE DeliveredOnce'
  BY <1>14 DEF SpuriousWakeup
<1>15. ASSUME NEW c \in Calls, Wake(c)  PROVE DeliveredOnce'
  BY <1>15 DEF Wake, Answer, Sleep, Result
<1>16. ASSUME NEW c \in Calls, Timeout(c)  PROVE DeliveredOnce'
  BY <1>16 DEF Timeout
<1>17. ASSUME NEW c \in Calls, ThenBegin(c)  PROVE DeliveredOnce'
  BY <1>17 DEF ThenBegin
<1>18. ASSUME NEW c \in Calls, ThenTest(c)  PROVE DeliveredOnce'
  BY <1>18 DEF ThenTest
<1>19. ASSUME NEW c \in Calls, ThenAttach(c)  PROVE DeliveredOnce'
  BY <1>19 DEF ThenAttach
<1>20. ASSUME NEW c \in Calls, RunWithValue(c)  PROVE DeliveredOnce'
  BY <1>20 DEF RunWithValue, Answer, Result
<1>21. ASSUME NEW c \in Calls, RunPlain(c)  PROVE DeliveredOnce'
  BY <1>21 DEF RunPlain
<1>22. CASE UNCHANGED vars
  BY <1>22 DEF vars
<1>23. QED BY <1>1, <1>2, <1>3, <1>4, <1>5, <1>6, <1>7, <1>8, <1>9, <1>10,
   <1>11, <1>12, <1>13, <1>14, <1>15, <1>16, <1>17, <1>18, <1>19, <1>20,
   <1>21, <1>22 DEF Next, Start, Step, Run

-----------------------------------------------------------------------------
(* The invariant, and what follows from it *)

LEMMA InitIInv == Init => IInv
<1> SUFFICES ASSUME Init PROVE IInv
  OBVIOUS
<1> USE CallsAssumption, ValuesAssumption DEF Init, Notifying, Waiting, Errors,
   Retrieved, Outcomes
<1>1. TypeOK
  BY DEF TypeOK
<1>2. LockInv /\ StoreInv /\ ClaimInv /\ SleepInv
  BY DEF LockInv, StoreInv, ClaimInv, SleepInv
<1>3. ContinuationInv /\ AnsweredFromStore /\ DeliveredOnce
  BY DEF ContinuationInv, OneContinuation, AnsweredFromStore, DeliveredOnce
<1>4. QED
  BY <1>1, <1>2, <1>3 DEF IInv

\* The inductive invariant: the lock, the stored result, the claim, the
\* sleepers and the callback of FutureImpl agree in every reachable state.
THEOREM Invariance == Spec => []IInv
<1>1. Init => IInv
  BY InitIInv
<1>2. IInv /\ [Next]_vars => IInv'
  BY TypeStep, LockStep, StoreStep, ClaimStep, SleepStep, ContinuationStep,
     AnswerStep, DeliverStep DEF IInv
<1>3. QED
  BY <1>1, <1>2, PTL DEF Spec

\* The variables keep their types, whatever the calls and their order.
THEOREM TypeCorrect == Spec => []TypeOK
<1>1. IInv => TypeOK
  BY DEF IInv
<1>2. QED
  BY Invariance, <1>1, PTL

\* However many get() calls and continuations compete, the value is given to
\* at most one of them.
THEOREM ValueDeliveredOnce == Spec => []DeliveredOnce
<1>1. IInv => DeliveredOnce
  BY DEF IInv
<1>2. QED
  BY Invariance, <1>1, PTL

\* A get() ends only with what a producer stored, or is refused after a claim.
THEOREM AnswersComeFromStore == Spec => []AnsweredFromStore
<1>1. IInv => AnsweredFromStore
  BY DEF IInv
<1>2. QED
  BY Invariance, <1>1, PTL

\* When the producer has returned the lock nobody sleeps on cv_, unless the
\* executor threw the producer out of do_notify.
THEOREM NoWaiterStranded == Spec => []NoStrandedWaiter
<1>1. IInv => NoStrandedWaiter
  BY DEF IInv, SleepInv, NoStrandedWaiter
<1>2. QED
  BY Invariance, <1>1, PTL

\* A future hands at most one continuation to the executor, after the store.
THEOREM AtMostOneContinuation == Spec => []OneContinuation
<1>1. IInv => OneContinuation
  BY DEF IInv, ContinuationInv
<1>2. QED
  BY Invariance, <1>1, PTL

\* No call changes a result that was stored.
THEOREM StoredOnce == Spec => SingleAssignment
<1>1. IInv /\ [Next]_vars => [has_stored_result_ => UNCHANGED data]_vars
  <2> SUFFICES ASSUME IInv, [Next]_vars, has_stored_result_
               PROVE  UNCHANGED data
    OBVIOUS
  <2> USE DEF data
  <2>1. ASSUME NEW c \in Calls, NEW v \in Values, SetValue(c, v)
        PROVE UNCHANGED data
    BY <2>1 DEF SetValue, Store, Rejected
  <2>2. ASSUME NEW c \in Calls, SetException(c)  PROVE UNCHANGED data
    BY <2>2 DEF SetException, Store, Rejected
  <2>3. ASSUME NEW c \in Calls, Cancel(c)  PROVE UNCHANGED data
    BY <2>3 DEF Cancel, Store, Rejected
  <2>4. ASSUME NEW c \in Calls, PackagedTaskTest(c)  PROVE UNCHANGED data
    BY <2>4 DEF PackagedTaskTest
  <2>5. ASSUME NEW c \in Calls, PackagedTaskThrow(c)  PROVE UNCHANGED data
    BY <2>5 DEF PackagedTaskThrow
  <2>6. ASSUME NEW c \in Calls, TestCallback(c)  PROVE UNCHANGED data
    BY <2>6 DEF TestCallback
  <2>7. ASSUME NEW c \in Calls, InvokeCallback(c)  PROVE UNCHANGED data
    BY <2>7 DEF InvokeCallback
  <2>8. ASSUME NEW c \in Calls, InvokeCallbackThrow(c)  PROVE UNCHANGED data
    BY <2>8 DEF InvokeCallbackThrow
  <2>9. ASSUME NEW c \in Calls, ClearCallback(c)  PROVE UNCHANGED data
    BY <2>9 DEF ClearCallback
  <2>10. ASSUME NEW c \in Calls, NotifyAll(c)  PROVE UNCHANGED data
    BY <2>10 DEF NotifyAll
  <2>11. ASSUME NEW c \in Calls, GetBegin(c)  PROVE UNCHANGED data
    BY <2>11 DEF GetBegin, Answer, Sleep
  <2>12. ASSUME NEW c \in Calls, NEW l \in {"lockWait", "lockTimedWait"}, WaitTest(c, l)
         PROVE UNCHANGED data
    BY <2>12 DEF WaitTest
  <2>13. ASSUME NEW c \in Calls, WaitBegin(c)  PROVE UNCHANGED data
    BY <2>13 DEF WaitBegin, Sleep
  <2>14. ASSUME NEW c \in Calls, SpuriousWakeup(c)  PROVE UNCHANGED data
    BY <2>14 DEF SpuriousWakeup
  <2>15. ASSUME NEW c \in Calls, Wake(c)  PROVE UNCHANGED data
    BY <2>15 DEF Wake, Answer, Sleep, Result
  <2>16. ASSUME NEW c \in Calls, Timeout(c)  PROVE UNCHANGED data
    BY <2>16 DEF Timeout
  <2>17. ASSUME NEW c \in Calls, ThenBegin(c)  PROVE UNCHANGED data
    BY <2>17 DEF ThenBegin
  <2>18. ASSUME NEW c \in Calls, ThenTest(c)  PROVE UNCHANGED data
    BY <2>18 DEF ThenTest
  <2>19. ASSUME NEW c \in Calls, ThenAttach(c)  PROVE UNCHANGED data
    BY <2>19 DEF ThenAttach
  <2>20. ASSUME NEW c \in Calls, RunWithValue(c)  PROVE UNCHANGED data
    BY <2>20 DEF RunWithValue, Answer, Result
  <2>21. ASSUME NEW c \in Calls, RunPlain(c)  PROVE UNCHANGED data
    BY <2>21 DEF RunPlain
  <2>22. CASE UNCHANGED vars
    BY <2>22 DEF vars
  <2>23. QED BY <2>1, <2>2, <2>3, <2>4, <2>5, <2>6, <2>7, <2>8, <2>9, <2>10,
     <2>11, <2>12, <2>13, <2>14, <2>15, <2>16, <2>17, <2>18, <2>19, <2>20,
     <2>21, <2>22 DEF Next, Start, Step, Run
<1>2. QED
  BY <1>1, Invariance, PTL DEF Spec, SingleAssignment

-----------------------------------------------------------------------------
(* Refinement of OneShot *)

Cell == <<Result, is_retrieved_, {c \in Calls : pc[c] = "getWait"}, got>>

LEMMA RefinementInit == Init => OneShotCell!Init
BY ValuesAssumption DEF Init, OneShotCell!Init, Result

\* Only a store, and the steps in which a get() claims or ends, show in the
\* cell; each is the action of OneShot named for it.
LEMMA RefinementStep ==
  IInv /\ [Next]_vars => [OneShotCell!Next]_(OneShotCell!cellVars)
<1> SUFFICES ASSUME IInv, [Next]_vars
             PROVE  OneShotCell!Next \/ UNCHANGED Cell
  BY DEF OneShotCell!cellVars, Cell
<1> USE CallsAssumption, ValuesAssumption DEF IInv, TypeOK, StoreInv, Goto,
   Finish, Errors, Retrieved, data
<1>1. ASSUME NEW c \in Calls, NEW v \in Values, SetValue(c, v)
      PROVE  OneShotCell!Next \/ UNCHANGED Cell
  <2>1. CASE Rejected(c, "promise_already_satisfied")
    BY <1>1, <2>1 DEF SetValue, Rejected, Cell, Result
  <2>2. CASE ~has_stored_result_ /\ Store(c, v, ec_ptr_)
    BY <1>1, <2>2 DEF SetValue, Store, Result, OneShotCell!Next,
       OneShotCell!Fill
  <2>3. QED
    BY <1>1, <2>1, <2>2 DEF SetValue
<1>2. ASSUME NEW c \in Calls, SetException(c)
      PROVE  OneShotCell!Next \/ UNCHANGED Cell
  <2>1. CASE Rejected(c, "promise_already_satisfied")
    BY <1>2, <2>1 DEF SetException, Rejected, Cell, Result
  <2>2. CASE ~has_stored_result_ /\ Store(c, result_, "user")
    BY <1>2, <2>2 DEF SetException, Store, Result, OneShotCell!Next,
       OneShotCell!Fill
  <2>3. QED
    BY <1>2, <2>1, <2>2 DEF SetException
<1>3. ASSUME NEW c \in Calls, Cancel(c)
      PROVE  OneShotCell!Next \/ UNCHANGED Cell
  <2>1. CASE Rejected(c, "nothing_to_cancel")
    BY <1>3, <2>1 DEF Cancel, Rejected, Cell, Result
  <2>2. CASE ~has_stored_result_ /\ Store(c, result_, "broken_promise")
    BY <1>3, <2>2 DEF Cancel, Store, Result, OneShotCell!Next, OneShotCell!Fill
  <2>3. QED
    BY <1>3, <2>1, <2>2 DEF Cancel
<1>4. ASSUME NEW c \in Calls, PackagedTaskTest(c)
      PROVE  OneShotCell!Next \/ UNCHANGED Cell
  BY <1>4 DEF PackagedTaskTest, Cell, Result
<1>5. ASSUME NEW c \in Calls, PackagedTaskThrow(c)
      PROVE  OneShotCell!Next \/ UNCHANGED Cell
  BY <1>5 DEF PackagedTaskThrow, Cell, Result
<1>6. ASSUME NEW c \in Calls, TestCallback(c)
      PROVE  OneShotCell!Next \/ UNCHANGED Cell
  BY <1>6 DEF TestCallback, Cell, Result
<1>7. ASSUME NEW c \in Calls, InvokeCallback(c)
      PROVE  OneShotCell!Next \/ UNCHANGED Cell
  BY <1>7 DEF InvokeCallback, Cell, Result
<1>8. ASSUME NEW c \in Calls, InvokeCallbackThrow(c)
      PROVE  OneShotCell!Next \/ UNCHANGED Cell
  BY <1>8 DEF InvokeCallbackThrow, Cell, Result
<1>9. ASSUME NEW c \in Calls, ClearCallback(c)
      PROVE  OneShotCell!Next \/ UNCHANGED Cell
  BY <1>9 DEF ClearCallback, Cell, Result
<1>10. ASSUME NEW c \in Calls, NotifyAll(c)
      PROVE  OneShotCell!Next \/ UNCHANGED Cell
  BY <1>10 DEF NotifyAll, Cell, Result
<1>11. ASSUME NEW c \in Calls, GetBegin(c)
      PROVE  OneShotCell!Next \/ UNCHANGED Cell
  BY <1>11 DEF GetBegin, Answer, Sleep, Result, Cell, ClaimInv,
     ContinuationInv, OneShotCell!Next, OneShotCell!Claim, OneShotCell!Deliver,
     OneShotCell!Fail, OneShotCell!Refuse, OneShotCell!Give
<1>12. ASSUME NEW c \in Calls, NEW l \in {"lockWait", "lockTimedWait"}, WaitTest(c, l)
      PROVE  OneShotCell!Next \/ UNCHANGED Cell
  BY <1>12 DEF WaitTest, Cell, Result
<1>13. ASSUME NEW c \in Calls, WaitBegin(c)
      PROVE  OneShotCell!Next \/ UNCHANGED Cell
  BY <1>13 DEF WaitBegin, Sleep, Cell, Result
<1>14. ASSUME NEW c \in Calls, SpuriousWakeup(c)
      PROVE  OneShotCell!Next \/ UNCHANGED Cell
  BY <1>14 DEF SpuriousWakeup, Cell, Result
<1>15. ASSUME NEW c \in Calls, Wake(c)
      PROVE  OneShotCell!Next \/ UNCHANGED Cell
  BY <1>15 DEF Wake, Waiting, Answer, Sleep, Result, Cell, ClaimInv,
     ContinuationInv, OneShotCell!Next, OneShotCell!Claim, OneShotCell!Deliver,
     OneShotCell!Fail, OneShotCell!Refuse, OneShotCell!Give
<1>16. ASSUME NEW c \in Calls, Timeout(c)
      PROVE  OneShotCell!Next \/ UNCHANGED Cell
  BY <1>16 DEF Timeout, Cell, Result
<1>17. ASSUME NEW c \in Calls, ThenBegin(c)
      PROVE  OneShotCell!Next \/ UNCHANGED Cell
  BY <1>17 DEF ThenBegin, Cell, Result
<1>18. ASSUME NEW c \in Calls, ThenTest(c)
      PROVE  OneShotCell!Next \/ UNCHANGED Cell
  BY <1>18 DEF ThenTest, Cell, Result
<1>19. ASSUME NEW c \in Calls, ThenAttach(c)
      PROVE  OneShotCell!Next \/ UNCHANGED Cell
  BY <1>19 DEF ThenAttach, Cell, Result
<1>20. ASSUME NEW c \in Calls, RunWithValue(c)
      PROVE  OneShotCell!Next \/ UNCHANGED Cell
  <2>1. /\ c \in Calls /\ got[c] = None /\ pc[c] = "done"
        /\ c \notin {d \in Calls : pc[d] = "getWait"}
        /\ UNCHANGED <<pc, result_, ec_ptr_>>
    BY <1>20 DEF RunWithValue, Result, ContinuationInv, OneContinuation
  <2>2. has_stored_result_
    BY <1>20 DEF RunWithValue, ContinuationInv, OneContinuation
  <2>3. CASE is_retrieved_
    <3>1. is_retrieved_' = is_retrieved_
      BY <1>20, <2>3 DEF RunWithValue
    <3>2. OneShotCell!Give(c, Retrieved)
      BY <1>20, <2>1, <2>3 DEF RunWithValue, Answer, Result, OneShotCell!Give
    <3>3. QED
      BY <2>1, <2>3, <3>1, <3>2 DEF OneShotCell!Next, OneShotCell!Refuse
  <2>4. CASE ~is_retrieved_ /\ ec_ptr_ # None
    BY <1>20, <2>1, <2>2, <2>4 DEF RunWithValue, Answer, Result,
       OneShotCell!Next,
       OneShotCell!Fail, OneShotCell!Give
  <2>5. CASE ~is_retrieved_ /\ ec_ptr_ = None
    BY <1>20, <2>1, <2>2, <2>5 DEF RunWithValue, Answer, Result,
       OneShotCell!Next,
       OneShotCell!Deliver, OneShotCell!Give
  <2>6. QED
    BY <2>3, <2>4, <2>5
<1>21. ASSUME NEW c \in Calls, RunPlain(c)
      PROVE  OneShotCell!Next \/ UNCHANGED Cell
  BY <1>21 DEF RunPlain, Cell, Result
<1>22. CASE UNCHANGED vars
  BY <1>22 DEF vars, Cell, Result
<1>23. QED BY <1>1, <1>2, <1>3, <1>4, <1>5, <1>6, <1>7, <1>8, <1>9, <1>10,
   <1>11, <1>12, <1>13, <1>14, <1>15, <1>16, <1>17, <1>18, <1>19, <1>20,
   <1>21, <1>22 DEF Next, Start, Step, Run

\* A future is a one-shot cell: its locks, callbacks and notifications never
\* change who is given the result, or how often.
THEOREM ImplementsOneShot == Spec => OneShotSpec
<1>1. IInv /\ [Next]_vars => [OneShotCell!Next]_(OneShotCell!cellVars)
  BY RefinementStep
<1>2. QED
  BY RefinementInit, <1>1, Invariance, PTL
     DEF Spec, OneShotSpec, OneShotCell!Spec

-----------------------------------------------------------------------------
(* The fate of a continuation *)

\* What do_notify has called was accepted, and it empties ready_callback_ only
\* after it has called something.
FateInv ==
  /\ NoContinuationLost
  /\ \A c \in Calls : pc[c] = "clear" => posted \cup completed # {}
  /\ \A k \in posted \cup completed : outcome[k] = "attached"

LEMMA FateStep ==
  ASSUME IInv, FateInv, [Next]_vars
  PROVE  FateInv'
<1> USE CallsAssumption, ValuesAssumption DEF IInv, TypeOK, ContinuationInv, FateInv,
   NoContinuationLost, data, Goto, Finish, Outcomes, Waiting
<1>1. ASSUME NEW c \in Calls, NEW v \in Values, SetValue(c, v) PROVE FateInv'
  BY <1>1 DEF SetValue, Store, Rejected
<1>2. ASSUME NEW c \in Calls, SetException(c) PROVE FateInv'
  BY <1>2 DEF SetException, Store, Rejected
<1>3. ASSUME NEW c \in Calls, Cancel(c) PROVE FateInv'
  BY <1>3 DEF Cancel, Store, Rejected
<1>4. ASSUME NEW c \in Calls, PackagedTaskTest(c) PROVE FateInv'
  BY <1>4 DEF PackagedTaskTest
<1>5. ASSUME NEW c \in Calls, PackagedTaskThrow(c) PROVE FateInv'
  BY <1>5 DEF PackagedTaskThrow
<1>6. ASSUME NEW c \in Calls, TestCallback(c) PROVE FateInv'
  BY <1>6 DEF TestCallback
<1>7. ASSUME NEW c \in Calls, InvokeCallback(c) PROVE FateInv'
  BY <1>7 DEF InvokeCallback
<1>8. ASSUME NEW c \in Calls, InvokeCallbackThrow(c) PROVE FateInv'
  BY <1>8 DEF InvokeCallbackThrow
<1>9. ASSUME NEW c \in Calls, ClearCallback(c) PROVE FateInv'
  BY <1>9 DEF ClearCallback
<1>10. ASSUME NEW c \in Calls, NotifyAll(c) PROVE FateInv'
  BY <1>10 DEF NotifyAll
<1>11. ASSUME NEW c \in Calls, GetBegin(c) PROVE FateInv'
  BY <1>11 DEF GetBegin, Answer, Sleep
<1>12. ASSUME NEW c \in Calls, NEW l \in {"lockWait", "lockTimedWait"}, WaitTest(c, l)
      PROVE  FateInv'
  BY <1>12 DEF WaitTest
<1>13. ASSUME NEW c \in Calls, WaitBegin(c) PROVE FateInv'
  BY <1>13 DEF WaitBegin, Sleep
<1>14. ASSUME NEW c \in Calls, SpuriousWakeup(c) PROVE FateInv'
  BY <1>14 DEF SpuriousWakeup
<1>15. ASSUME NEW c \in Calls, Wake(c) PROVE FateInv'
  BY <1>15 DEF Wake, Answer, Sleep
<1>16. ASSUME NEW c \in Calls, Timeout(c) PROVE FateInv'
  BY <1>16 DEF Timeout
<1>17. ASSUME NEW c \in Calls, ThenBegin(c) PROVE FateInv'
  BY <1>17 DEF ThenBegin
<1>18. ASSUME NEW c \in Calls, ThenTest(c) PROVE FateInv'
  BY <1>18 DEF ThenTest
<1>19. ASSUME NEW c \in Calls, ThenAttach(c) PROVE FateInv'
  BY <1>19 DEF ThenAttach
<1>20. ASSUME NEW c \in Calls, RunWithValue(c) PROVE FateInv'
  BY <1>20 DEF RunWithValue, Answer
<1>21. ASSUME NEW c \in Calls, RunPlain(c) PROVE FateInv'
  BY <1>21 DEF RunPlain
<1>22. CASE UNCHANGED vars
  BY <1>22 DEF vars
<1>23. QED BY <1>1, <1>2, <1>3, <1>4, <1>5, <1>6, <1>7, <1>8, <1>9, <1>10,
   <1>11, <1>12, <1>13, <1>14, <1>15, <1>16, <1>17, <1>18, <1>19, <1>20,
   <1>21, <1>22 DEF Next, Start, Step, Run

\* No continuation is dropped unless two then() calls were accepted.
THEOREM AcceptedNotLost == Spec => []NoContinuationLost
<1>1. Init => FateInv
  BY ValuesAssumption DEF Init, FateInv, NoContinuationLost, Outcomes
<1>2. IInv /\ FateInv /\ [Next]_vars => FateInv'
  BY FateStep
<1>3. FateInv => NoContinuationLost
  BY DEF FateInv
<1>4. QED
  BY <1>1, <1>2, <1>3, Invariance, PTL DEF Spec

-----------------------------------------------------------------------------
(* Refinement of Notifier *)

Notified == <<ready_callback_, producer, posted>>

\* do_notify and then() are the actions of Notifier named for them; nothing
\* else shows.
LEMMA NotifierStep ==
  ASSUME IInv, [Next]_vars
  PROVE  Callback!Next \/ UNCHANGED Notified
<1> USE CallsAssumption, ValuesAssumption DEF IInv, TypeOK, LockInv, StoreInv,
   ContinuationInv, data, Goto, Finish, Notifying, Waiting, Notified, producer
<1>1. ASSUME NEW c \in Calls, NEW v \in Values, SetValue(c, v)
      PROVE  Callback!Next \/ UNCHANGED Notified
  BY <1>1 DEF SetValue, Store, Rejected, Callback!Next, Callback!Store
<1>2. ASSUME NEW c \in Calls, SetException(c) PROVE Callback!Next \/ UNCHANGED Notified
  BY <1>2 DEF SetException, Store, Rejected, Callback!Next, Callback!Store
<1>3. ASSUME NEW c \in Calls, Cancel(c) PROVE Callback!Next \/ UNCHANGED Notified
  BY <1>3 DEF Cancel, Store, Rejected, Callback!Next, Callback!Store
<1>4. ASSUME NEW c \in Calls, PackagedTaskTest(c)
      PROVE  Callback!Next \/ UNCHANGED Notified
  BY <1>4 DEF PackagedTaskTest
<1>5. ASSUME NEW c \in Calls, PackagedTaskThrow(c)
      PROVE  Callback!Next \/ UNCHANGED Notified
  BY <1>5 DEF PackagedTaskThrow
<1>6. ASSUME NEW c \in Calls, TestCallback(c) PROVE Callback!Next \/ UNCHANGED Notified
  BY <1>6 DEF TestCallback, Callback!Next, Callback!Test
<1>7. ASSUME NEW c \in Calls, InvokeCallback(c)
      PROVE  Callback!Next \/ UNCHANGED Notified
  BY <1>7 DEF InvokeCallback, Callback!Next, Callback!Invoke, Callback!Post
<1>8. ASSUME NEW c \in Calls, InvokeCallbackThrow(c)
      PROVE  Callback!Next \/ UNCHANGED Notified
  BY <1>8 DEF InvokeCallbackThrow, Callback!Next, Callback!InvokeThrow, Callback!Post
<1>9. ASSUME NEW c \in Calls, ClearCallback(c) PROVE Callback!Next \/ UNCHANGED Notified
  BY <1>9 DEF ClearCallback, Callback!Next, Callback!Clear
<1>10. ASSUME NEW c \in Calls, NotifyAll(c) PROVE Callback!Next \/ UNCHANGED Notified
  BY <1>10 DEF NotifyAll
<1>11. ASSUME NEW c \in Calls, GetBegin(c) PROVE Callback!Next \/ UNCHANGED Notified
  BY <1>11 DEF GetBegin, Answer, Sleep
<1>12. ASSUME NEW c \in Calls, NEW l \in {"lockWait", "lockTimedWait"}, WaitTest(c, l)
      PROVE  Callback!Next \/ UNCHANGED Notified
  BY <1>12 DEF WaitTest
<1>13. ASSUME NEW c \in Calls, WaitBegin(c) PROVE Callback!Next \/ UNCHANGED Notified
  BY <1>13 DEF WaitBegin, Sleep
<1>14. ASSUME NEW c \in Calls, SpuriousWakeup(c)
      PROVE  Callback!Next \/ UNCHANGED Notified
  BY <1>14 DEF SpuriousWakeup
<1>15. ASSUME NEW c \in Calls, Wake(c) PROVE Callback!Next \/ UNCHANGED Notified
  BY <1>15 DEF Wake, Answer, Sleep
<1>16. ASSUME NEW c \in Calls, Timeout(c) PROVE Callback!Next \/ UNCHANGED Notified
  BY <1>16 DEF Timeout
<1>17. ASSUME NEW c \in Calls, ThenBegin(c) PROVE Callback!Next \/ UNCHANGED Notified
  BY <1>17 DEF ThenBegin
<1>18. ASSUME NEW c \in Calls, ThenTest(c) PROVE Callback!Next \/ UNCHANGED Notified
  BY <1>18 DEF ThenTest
<1>19. ASSUME NEW c \in Calls, ThenAttach(c) PROVE Callback!Next \/ UNCHANGED Notified
  BY <1>19 DEF ThenAttach, Callback!Next, Callback!Attach
<1>20. ASSUME NEW c \in Calls, RunWithValue(c) PROVE Callback!Next \/ UNCHANGED Notified
  BY <1>20 DEF RunWithValue, Answer, Callback!Next, Callback!Run
<1>21. ASSUME NEW c \in Calls, RunPlain(c) PROVE Callback!Next \/ UNCHANGED Notified
  BY <1>21 DEF RunPlain, Callback!Next, Callback!Run
<1>22. CASE UNCHANGED vars
  BY <1>22 DEF vars
<1>23. QED BY <1>1, <1>2, <1>3, <1>4, <1>5, <1>6, <1>7, <1>8, <1>9, <1>10,
   <1>11, <1>12, <1>13, <1>14, <1>15, <1>16, <1>17, <1>18, <1>19, <1>20,
   <1>21, <1>22 DEF Next, Start, Step, Run

\* The shared state starts its continuation as Notifier says.
THEOREM ImplementsNotifier == Spec => NotifierSpec
<1>1. Init => Callback!Init
  BY DEF Init, Callback!Init, producer
<1>2. IInv /\ [Next]_vars => [Callback!Next]_(Callback!notifierVars)
  BY NotifierStep DEF Callback!notifierVars, Notified, producer
<1>3. QED
  BY <1>1, <1>2, Invariance, PTL DEF Spec, NotifierSpec, Callback!Spec
=============================================================================
