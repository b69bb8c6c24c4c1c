-------------------------- MODULE FutureChainProofs --------------------------
(***************************************************************************)
(* Proofs about FutureChain, for any number of links, any futures they are *)
(* attached to and any mix of kinds.                                       *)
(***************************************************************************)
EXTENDS FutureChain, TLAPS

\* A result is stored by the step that begins do_notify; after it the guarded
\* call may only fail because the executor did.
Stored(f) ==
  \/ pc[f] \in {"test", "invoke", "clear", "done", "escaped"}
  \/ pc[f] = "caught" /\ exc[f] = Fault(f)

StoredInv ==
  \A f \in Futures :
    /\ is_ready(f) <=> Stored(f)
    /\ pc[f] = "escaped" => exc[f] = Fault(f)
    /\ result[f].is # "executor" /\ result[f].by <= f
    /\ result[f].is = "none" => result[f] = Nothing
    /\ result[f].is = "value" => result[f].by = f

\* What a catch clause holds: an exception of its owner or of an earlier one.
ExcInv ==
  /\ \A f \in Futures : pc[f] = "caught" =>
       /\ exc[f].is \notin {"none", "value"} /\ exc[f].by <= f
       /\ exc[f].is = "executor" => exc[f] = Fault(f)
  /\ pc[0] = "caught" => exc[0].by = 0

\* An exception of another owner is that of the future a link is attached to.
HandedInv ==
  \A l \in Links : pc[l] = "caught" /\ exc[l].by # l =>
    Asks(l) /\ is_ready(awaits[l]) /\ exc[l] = result[awaits[l]]

\* do_notify has handed the callback of f to the executor.
Called(f) ==
  \/ pc[f] \in {"clear", "done", "escaped"}
  \/ pc[f] = "caught" /\ exc[f] = Fault(f)

\* An installed callback belongs to a link of the future, which sleeps until
\* do_notify has called it.
CallbackInv ==
  /\ \A f \in Futures : pc[f] = "invoke" => ready_callback_[f] # 0
  /\ \A f \in Futures, l \in Links : ready_callback_[f] = l =>
       /\ awaits[l] = f
       /\ Given(l)
       /\ ~Called(f) => pc[l] = "suspended"

\* What do_notify hands to the executor sleeps on a future that is complete.
PostedInv == \A l \in posted : pc[l] = "suspended" /\ Called(awaits[l])

\* Who has been given a value, and that somebody has when it is retrieved.
ClaimInv ==
  /\ \A l \in got :
       is_retrieved_[awaits[l]] /\ result[awaits[l]].is = "value" /\ Given(l)
  /\ \A f \in taken : is_retrieved_[f]
  /\ \A f \in Futures : is_retrieved_[f] =>
       f \in taken \/ \E l \in got : awaits[l] = f
  /\ \A l \in Links : pc[l] = "body" =>
       /\ kind[l] = "value" => l \in got
       /\ kind[l] = "await" => l \in got \/ exc[l] # Nothing

\* A link that holds a refusal has lost to the program, to itself or to a rival.
RefusedInv ==
  \A l \in Links : pc[l] = "caught" /\ exc[l] = Refused(l) => Reason(l)

\* The continuation of a link that takes nothing calls no get().
PlainInv == \A l \in Links : kind[l] = "plain" => pc[l] # "resume"

\* A step never replaces a result, nor takes back what was given or claimed.
Stable ==
  /\ \A f \in Futures : is_ready(f) => is_ready(f)' /\ result'[f] = result[f]
  /\ \A f \in Futures : Given(f) => Given(f)'
  /\ got \subseteq got' /\ taken \subseteq taken' /\ kind' = kind

IInv ==
  /\ TypeOK
  /\ StoredInv
  /\ ExcInv
  /\ HandedInv
  /\ CallbackInv
  /\ PostedInv
  /\ ClaimInv
  /\ RefusedInv
  /\ PlainInv
  /\ NeverBlocks
  /\ ErrorsTravel
  /\ ClaimedByOne

-----------------------------------------------------------------------------

\* Every link is attached to an earlier future, and has one of its own.
LEMMA AwaitsTypes ==
  /\ \A l \in Links : /\ awaits[l] \in Futures /\ awaits[l] # l /\ awaits[l] < l
                       /\ l \in Futures /\ l # 0 /\ l \in Nat /\ awaits[l] \in Nat
  /\ 0 \in Futures
  /\ \A f \in Futures : f \in Nat
BY ChainAssumption DEF Links, Futures

\* Every future but the first is that of a link.
LEMMA LinkFutures == \A f \in Futures : f # 0 => f \in Links
BY ChainAssumption DEF Links, Futures

\* The results that the actions make, and those that must not be confused.
LEMMA ResultTypes ==
  /\ Nothing \in Results
  /\ \A f \in Futures :
       /\ Value(f) \in Results /\ Value(f) # Nothing
       /\ Threw(f) \in Results /\ Threw(f) # Nothing
       /\ Refused(f) \in Results /\ Refused(f) # Nothing
       /\ Fault(f) \in Results /\ Fault(f) # Nothing
       /\ Threw(f) # Fault(f) /\ Refused(f) # Fault(f) /\ Value(f) # Refused(f)
       /\ Threw(f) # Refused(f)
BY AwaitsTypes DEF Results, Nothing, Value, Threw, Refused, Fault

\* What they are, and whose.
LEMMA ResultFields ==
  /\ Nothing.is = "none" /\ Nothing.by = 0
  /\ \A f \in Futures :
       /\ Value(f).is = "value" /\ Value(f).by = f
       /\ Threw(f).is = "threw" /\ Threw(f).by = f
       /\ Refused(f).is = "refused" /\ Refused(f).by = f
       /\ Fault(f).is = "executor" /\ Fault(f).by = f
BY DEF Nothing, Value, Threw, Refused, Fault

\* A result is never replaced, and what was given or claimed stays so.
LEMMA StableStep == IInv /\ [Next]_vars => Stable
<1> SUFFICES ASSUME IInv, [Next]_vars PROVE Stable
  OBVIOUS
<1> USE AwaitsTypes, ResultTypes DEF IInv, TypeOK, StoredInv, ExcInv, PostedInv,
      Stable, Given, Stored, claims, Goto, is_ready, Locked, Throw, Store
<1>1. ASSUME NEW l \in Links, await_ready(l) PROVE Stable
  BY <1>1 DEF await_ready
<1>2. ASSUME NEW l \in Links, ThenBegin(l) PROVE Stable
  BY <1>2 DEF ThenBegin, ThenThrow, Raise
<1>3. ASSUME NEW l \in Links, ThenTest(l) PROVE Stable
  BY <1>3 DEF ThenTest, ThenThrow, Raise
<1>4. ASSUME NEW l \in Links, ThenAttach(l) PROVE Stable
  BY <1>4 DEF ThenAttach
<1>5. ASSUME NEW l \in Links, Resume(l) PROVE Stable
  BY <1>5 DEF Resume
<1>6. ASSUME NEW l \in Links, Get(l) PROVE Stable
  BY <1>6 DEF Get, Claim, ClaimFails, Raise
<1>7. ASSUME NEW l \in Links, GetInBody(l) PROVE Stable
  BY <1>7 DEF GetInBody, Claim, ClaimFails, Raise
<1>8. ASSUME NEW f \in Futures, Return(f) PROVE Stable
  BY <1>8 DEF Return
<1>9. CASE HandlerError
  BY <1>9 DEF HandlerError
<1>10. ASSUME NEW f \in Futures, BodyThrow(f) PROVE Stable
  BY <1>10 DEF BodyThrow
<1>11. ASSUME NEW f \in Futures, Catch(f) PROVE Stable
  BY <1>11 DEF Catch
<1>12. ASSUME NEW f \in Futures, TestCallback(f) PROVE Stable
  BY <1>12 DEF TestCallback
<1>13. ASSUME NEW f \in Futures, InvokeCallback(f) PROVE Stable
  BY <1>13 DEF InvokeCallback
<1>14. ASSUME NEW f \in Futures, InvokeCallbackThrow(f) PROVE Stable
  BY <1>14 DEF InvokeCallbackThrow
<1>15. ASSUME NEW f \in Futures, ClearCallback(f) PROVE Stable
  BY <1>15 DEF ClearCallback
<1>16. ASSUME NEW f \in Futures, ProgramGet(f) PROVE Stable
  BY <1>16 DEF ProgramGet
<1>17. CASE UNCHANGED vars
  BY <1>17 DEF vars
<1>18. QED
  BY <1>1, <1>2, <1>3, <1>4, <1>5, <1>6, <1>7, <1>8, <1>9, <1>10, <1>11,
     <1>12, <1>13, <1>14, <1>15, <1>16, <1>17 DEF Next, attach, then_fn,
     asio_handler_invoke, do_notify

\* Every step keeps the types of the variables.
LEMMA TypeStep == IInv /\ [Next]_vars => TypeOK'
<1> SUFFICES ASSUME IInv, [Next]_vars PROVE TypeOK'
  OBVIOUS
<1> USE AwaitsTypes, ResultTypes DEF IInv, TypeOK, claims, Goto, is_ready,
      Locked, Throw, Store
<1>1. ASSUME NEW l \in Links, await_ready(l) PROVE TypeOK'
  BY <1>1 DEF await_ready
<1>2. ASSUME NEW l \in Links, ThenBegin(l) PROVE TypeOK'
  BY <1>2 DEF ThenBegin, ThenThrow, Raise
<1>3. ASSUME NEW l \in Links, ThenTest(l) PROVE TypeOK'
  BY <1>3 DEF ThenTest, ThenThrow, Raise
<1>4. ASSUME NEW l \in Links, ThenAttach(l) PROVE TypeOK'
  BY <1>4 DEF ThenAttach
<1>5. ASSUME NEW l \in Links, Resume(l) PROVE TypeOK'
  BY <1>5 DEF Resume
<1>6. ASSUME NEW l \in Links, Get(l) PROVE TypeOK'
  <2>1. CASE Claim(l)
    BY <1>6, <2>1 DEF Get, Claim, ClaimFails, Raise
  <2>2. CASE is_retrieved_[awaits[l]] /\ ClaimFails(l)
    BY <1>6, <2>2 DEF Get, Claim, ClaimFails, Raise
  <2>3. CASE ~is_retrieved_[awaits[l]] /\ ClaimFails(l)
    BY <1>6, <2>3 DEF Get, Claim, ClaimFails, Raise
  <2>4. QED
    BY <1>6, <2>1, <2>2, <2>3 DEF Get, Claim, ClaimFails, Raise
<1>7. ASSUME NEW l \in Links, GetInBody(l) PROVE TypeOK'
  <2>1. CASE Claim(l)
    BY <1>7, <2>1 DEF GetInBody, Claim, ClaimFails, Raise
  <2>2. CASE is_retrieved_[awaits[l]] /\ ClaimFails(l)
    BY <1>7, <2>2 DEF GetInBody, Claim, ClaimFails, Raise
  <2>3. CASE ~is_retrieved_[awaits[l]] /\ ClaimFails(l)
    BY <1>7, <2>3 DEF GetInBody, Claim, ClaimFails, Raise
  <2>4. QED
    BY <1>7, <2>1, <2>2, <2>3 DEF GetInBody, Claim, ClaimFails, Raise
<1>8. ASSUME NEW f \in Futures, Return(f) PROVE TypeOK'
  BY <1>8 DEF Return
<1>9. CASE HandlerError
  BY <1>9 DEF HandlerError
<1>10. ASSUME NEW f \in Futures, BodyThrow(f) PROVE TypeOK'
  BY <1>10 DEF BodyThrow
<1>11. ASSUME NEW f \in Futures, Catch(f) PROVE TypeOK'
  BY <1>11 DEF Catch
<1>12. ASSUME NEW f \in Futures, TestCallback(f) PROVE TypeOK'
  BY <1>12 DEF TestCallback
<1>13. ASSUME NEW f \in Futures, InvokeCallback(f) PROVE TypeOK'
  <2>1. ready_callback_[f] \in Links /\ awaits[ready_callback_[f]] = f
    BY <1>13, LinkFutures DEF InvokeCallback, CallbackInv
  <2>2. QED
    BY <1>13, <2>1 DEF InvokeCallback
<1>14. ASSUME NEW f \in Futures, InvokeCallbackThrow(f) PROVE TypeOK'
  <2>1. ready_callback_[f] \in Links /\ awaits[ready_callback_[f]] = f
    BY <1>14, LinkFutures DEF InvokeCallbackThrow, CallbackInv
  <2>2. QED
    BY <1>14, <2>1 DEF InvokeCallbackThrow
<1>15. ASSUME NEW f \in Futures, ClearCallback(f) PROVE TypeOK'
  BY <1>15 DEF ClearCallback
<1>16. ASSUME NEW f \in Futures, ProgramGet(f) PROVE TypeOK'
  BY <1>16 DEF ProgramGet
<1>17. CASE UNCHANGED vars
  BY <1>17 DEF vars
<1>18. QED
  BY <1>1, <1>2, <1>3, <1>4, <1>5, <1>6, <1>7, <1>8, <1>9, <1>10, <1>11,
     <1>12, <1>13, <1>14, <1>15, <1>16, <1>17 DEF Next, attach, then_fn,
     asio_handler_invoke, do_notify

\* A result is stored once, by the step that begins do_notify.
LEMMA StoredStep == IInv /\ [Next]_vars => StoredInv'
<1> SUFFICES ASSUME IInv, [Next]_vars PROVE StoredInv'
  OBVIOUS
<1> USE AwaitsTypes, ResultTypes, ResultFields DEF IInv, TypeOK, StoredInv,
      ExcInv, PostedInv, CallbackInv, Stored, claims, Goto, is_ready, Locked,
      Throw, Store
<1>1. ASSUME NEW l \in Links, await_ready(l) PROVE StoredInv'
  BY <1>1 DEF await_ready
<1>2. ASSUME NEW l \in Links, ThenBegin(l) PROVE StoredInv'
  BY <1>2 DEF ThenBegin, ThenThrow, Raise
<1>3. ASSUME NEW l \in Links, ThenTest(l) PROVE StoredInv'
  <2>1. CASE ready_callback_[awaits[l]] = 0
    BY <1>3, <2>1 DEF ThenTest, ThenThrow, Raise
  <2>2. CASE ready_callback_[awaits[l]] # 0 /\ kind[l] = "await"
    BY <1>3, <2>2 DEF ThenTest, ThenThrow, Raise
  <2>3. CASE ready_callback_[awaits[l]] # 0 /\ kind[l] # "await"
    <3>1. pc' = [pc EXCEPT ![l] = "failed"] /\ UNCHANGED <<exc, result>>
      BY <1>3, <2>3 DEF ThenTest, ThenThrow, Raise
    <3>2. pc[l] = "then"
      BY <1>3 DEF ThenTest
    <3>3. QED
      BY <3>1, <3>2
  <2>4. QED
    BY <1>3, <2>1, <2>2, <2>3 DEF ThenTest, ThenThrow, Raise
<1>4. ASSUME NEW l \in Links, ThenAttach(l) PROVE StoredInv'
  BY <1>4 DEF ThenAttach
<1>5. ASSUME NEW l \in Links, Resume(l) PROVE StoredInv'
  BY <1>5 DEF Resume
<1>6. ASSUME NEW l \in Links, Get(l) PROVE StoredInv'
  <2>1. CASE Claim(l)
    BY <1>6, <2>1 DEF Get, Claim, ClaimFails, Raise
  <2>2. CASE is_retrieved_[awaits[l]] /\ ClaimFails(l)
    BY <1>6, <2>2 DEF Get, Claim, ClaimFails, Raise
  <2>3. CASE ~is_retrieved_[awaits[l]] /\ ClaimFails(l)
    BY <1>6, <2>3 DEF Get, Claim, ClaimFails, Raise
  <2>4. QED
    BY <1>6, <2>1, <2>2, <2>3 DEF Get, Claim, ClaimFails, Raise
<1>7. ASSUME NEW l \in Links, GetInBody(l) PROVE StoredInv'
  BY <1>7 DEF GetInBody, Claim, ClaimFails, Raise
<1>8. ASSUME NEW f \in Futures, Return(f) PROVE StoredInv'
  BY <1>8 DEF Return
<1>9. CASE HandlerError
  BY <1>9 DEF HandlerError
<1>10. ASSUME NEW f \in Futures, BodyThrow(f) PROVE StoredInv'
  BY <1>10 DEF BodyThrow
<1>11. ASSUME NEW f \in Futures, Catch(f) PROVE StoredInv'
  BY <1>11 DEF Catch
<1>12. ASSUME NEW f \in Futures, TestCallback(f) PROVE StoredInv'
  BY <1>12 DEF TestCallback
<1>13. ASSUME NEW f \in Futures, InvokeCallback(f) PROVE StoredInv'
  BY <1>13 DEF InvokeCallback
<1>14. ASSUME NEW f \in Futures, InvokeCallbackThrow(f) PROVE StoredInv'
  BY <1>14 DEF InvokeCallbackThrow
<1>15. ASSUME NEW f \in Futures, ClearCallback(f) PROVE StoredInv'
  BY <1>15 DEF ClearCallback
<1>16. ASSUME NEW f \in Futures, ProgramGet(f) PROVE StoredInv'
  BY <1>16 DEF ProgramGet
<1>17. CASE UNCHANGED vars
  BY <1>17 DEF vars
<1>18. QED
  BY <1>1, <1>2, <1>3, <1>4, <1>5, <1>6, <1>7, <1>8, <1>9, <1>10, <1>11,
     <1>12, <1>13, <1>14, <1>15, <1>16, <1>17 DEF Next, attach, then_fn,
     asio_handler_invoke, do_notify

\* The exception that get() rethrows is no failure of the executor, and comes
\* from an earlier owner.
LEMMA Rethrown ==
  ASSUME IInv, NEW l \in Links, is_ready(awaits[l]), result[awaits[l]].is # "value"
  PROVE  LET e == result[awaits[l]]
         IN  e.is \notin {"none", "value", "executor"} /\ e.by <= l
<1>1. result[awaits[l]].by \in Nat /\ result[awaits[l]].by <= awaits[l]
  BY AwaitsTypes DEF IInv, TypeOK, StoredInv, Results
<1>2. result[awaits[l]].by <= l
  BY <1>1, AwaitsTypes
<1>3. QED
  BY <1>2, AwaitsTypes DEF IInv, StoredInv, is_ready

\* get() throws a refusal or what it rethrows, which the body may catch.
LEMMA GetThrows ==
  ASSUME IInv, NEW l \in Links, Get(l) \/ GetInBody(l), ClaimFails(l)
  PROVE  \E e \in Results :
           /\ e.is \notin {"none", "value", "executor"} /\ e.by <= l
           /\ \/ pc' = [pc EXCEPT ![l] = "caught"]
              \/ pc' = [pc EXCEPT ![l] = "body"]
           /\ exc' = [exc EXCEPT ![l] = e]
<1>1. CASE is_retrieved_[awaits[l]]
  BY <1>1, AwaitsTypes, ResultTypes, ResultFields DEF ClaimFails, Raise, Throw, Goto
<1>2. CASE ~is_retrieved_[awaits[l]]
  BY <1>2, AwaitsTypes, Rethrown DEF IInv, TypeOK, Get, GetInBody, ClaimFails, Raise,
     Throw, Goto
<1>3. QED
  BY <1>1, <1>2

\* A catch clause is entered with an exception of its owner or of an earlier one.
LEMMA ExcStep == IInv /\ [Next]_vars => ExcInv'
<1> SUFFICES ASSUME IInv, [Next]_vars PROVE ExcInv'
  OBVIOUS
<1> USE AwaitsTypes, ResultTypes, ResultFields DEF IInv, TypeOK, StoredInv,
      ExcInv, PostedInv, Stored, claims, Goto, is_ready, Locked, Throw, Store
<1>1. ASSUME NEW l \in Links, await_ready(l) PROVE ExcInv'
  BY <1>1 DEF await_ready
<1>2. ASSUME NEW l \in Links, ThenBegin(l) PROVE ExcInv'
  BY <1>2 DEF ThenBegin, ThenThrow, Raise
<1>3. ASSUME NEW l \in Links, ThenTest(l) PROVE ExcInv'
  <2>1. CASE ready_callback_[awaits[l]] = 0
    BY <1>3, <2>1 DEF ThenTest, ThenThrow, Raise
  <2>2. CASE ready_callback_[awaits[l]] # 0 /\ kind[l] = "await"
    <3>1. /\ pc' = [pc EXCEPT ![l] = "caught"] \/ pc' = [pc EXCEPT ![l] = "body"]
          /\ exc' = [exc EXCEPT ![l] = Refused(l)]
      BY <1>3, <2>2 DEF ThenTest, ThenThrow, Raise
    <3>2. pc[l] = "then"
      BY <1>3 DEF ThenTest
    <3>3. QED
      BY <3>1, <3>2
  <2>3. CASE ready_callback_[awaits[l]] # 0 /\ kind[l] # "await"
    BY <1>3, <2>3 DEF ThenTest, ThenThrow, Raise
  <2>4. QED
    BY <1>3, <2>1, <2>2, <2>3 DEF ThenTest, ThenThrow, Raise
<1>4. ASSUME NEW l \in Links, ThenAttach(l) PROVE ExcInv'
  BY <1>4 DEF ThenAttach
<1>5. ASSUME NEW l \in Links, Resume(l) PROVE ExcInv'
  BY <1>5 DEF Resume
<1>6. ASSUME NEW l \in Links, Get(l) PROVE ExcInv'
  <2>1. CASE Claim(l)
    BY <1>6, <2>1 DEF Get, Claim
  <2>2. CASE ClaimFails(l)
    <3>1. PICK e \in Results :
            /\ e.is \notin {"none", "value", "executor"} /\ e.by <= l
            /\ \/ pc' = [pc EXCEPT ![l] = "caught"]
               \/ pc' = [pc EXCEPT ![l] = "body"]
            /\ exc' = [exc EXCEPT ![l] = e]
      BY <1>6, <2>2, GetThrows
    <3>2. QED
      BY <3>1
  <2>3. QED
    BY <1>6, <2>1, <2>2 DEF Get
<1>7. ASSUME NEW l \in Links, GetInBody(l) PROVE ExcInv'
  <2>1. CASE Claim(l)
    BY <1>7, <2>1 DEF GetInBody, Claim
  <2>2. CASE ClaimFails(l)
    <3>1. PICK e \in Results :
            /\ e.is \notin {"none", "value", "executor"} /\ e.by <= l
            /\ \/ pc' = [pc EXCEPT ![l] = "caught"]
               \/ pc' = [pc EXCEPT ![l] = "body"]
            /\ exc' = [exc EXCEPT ![l] = e]
      BY <1>7, <2>2, GetThrows
    <3>2. QED
      BY <3>1
  <2>3. QED
    BY <1>7, <2>1, <2>2 DEF GetInBody
<1>8. ASSUME NEW f \in Futures, Return(f) PROVE ExcInv'
  BY <1>8 DEF Return
<1>9. CASE HandlerError
  BY <1>9 DEF HandlerError
<1>10. ASSUME NEW f \in Futures, BodyThrow(f) PROVE ExcInv'
  BY <1>10 DEF BodyThrow
<1>11. ASSUME NEW f \in Futures, Catch(f) PROVE ExcInv'
  BY <1>11 DEF Catch
<1>12. ASSUME NEW f \in Futures, TestCallback(f) PROVE ExcInv'
  BY <1>12 DEF TestCallback
<1>13. ASSUME NEW f \in Futures, InvokeCallback(f) PROVE ExcInv'
  BY <1>13 DEF InvokeCallback
<1>14. ASSUME NEW f \in Futures, InvokeCallbackThrow(f) PROVE ExcInv'
  BY <1>14 DEF InvokeCallbackThrow
<1>15. ASSUME NEW f \in Futures, ClearCallback(f) PROVE ExcInv'
  BY <1>15 DEF ClearCallback
<1>16. ASSUME NEW f \in Futures, ProgramGet(f) PROVE ExcInv'
  BY <1>16 DEF ProgramGet
<1>17. CASE UNCHANGED vars
  BY <1>17 DEF vars
<1>18. QED
  BY <1>1, <1>2, <1>3, <1>4, <1>5, <1>6, <1>7, <1>8, <1>9, <1>10, <1>11,
     <1>12, <1>13, <1>14, <1>15, <1>16, <1>17 DEF Next, attach, then_fn,
     asio_handler_invoke, do_notify

\* A link that asks for the value is handed the exception of its input.
LEMMA HandedStep == IInv /\ [Next]_vars => HandedInv'
<1> SUFFICES ASSUME IInv, [Next]_vars PROVE HandedInv'
  OBVIOUS
<1> USE AwaitsTypes, ResultTypes, ResultFields DEF IInv, TypeOK, StoredInv,
      HandedInv, PostedInv, PlainInv, NeverBlocks, Stable, Stored, Asks,
      claims, Goto, is_ready, Locked, Throw, Store
<1>a. Stable
  BY StableStep
<1> USE <1>a
<1>1. ASSUME NEW l \in Links, await_ready(l) PROVE HandedInv'
  BY <1>1 DEF await_ready
<1>2. ASSUME NEW l \in Links, ThenBegin(l) PROVE HandedInv'
  BY <1>2 DEF ThenBegin, ThenThrow, Raise
<1>3. ASSUME NEW l \in Links, ThenTest(l) PROVE HandedInv'
  BY <1>3 DEF ThenTest, ThenThrow, Raise
<1>4. ASSUME NEW l \in Links, ThenAttach(l) PROVE HandedInv'
  BY <1>4 DEF ThenAttach
<1>5. ASSUME NEW l \in Links, Resume(l) PROVE HandedInv'
  BY <1>5 DEF Resume
<1>6. ASSUME NEW l \in Links, Get(l) PROVE HandedInv'
  BY <1>6 DEF Get, Claim, ClaimFails, Raise
<1>7. ASSUME NEW l \in Links, GetInBody(l) PROVE HandedInv'
  BY <1>7 DEF GetInBody, Claim, ClaimFails, Raise
<1>8. ASSUME NEW f \in Futures, Return(f) PROVE HandedInv'
  BY <1>8 DEF Return
<1>9. CASE HandlerError
  BY <1>9 DEF HandlerError
<1>10. ASSUME NEW f \in Futures, BodyThrow(f) PROVE HandedInv'
  BY <1>10 DEF BodyThrow
<1>11. ASSUME NEW f \in Futures, Catch(f) PROVE HandedInv'
  BY <1>11 DEF Catch
<1>12. ASSUME NEW f \in Futures, TestCallback(f) PROVE HandedInv'
  BY <1>12 DEF TestCallback
<1>13. ASSUME NEW f \in Futures, InvokeCallback(f) PROVE HandedInv'
  BY <1>13 DEF InvokeCallback
<1>14. ASSUME NEW f \in Futures, InvokeCallbackThrow(f) PROVE HandedInv'
  BY <1>14 DEF InvokeCallbackThrow
<1>15. ASSUME NEW f \in Futures, ClearCallback(f) PROVE HandedInv'
  BY <1>15 DEF ClearCallback
<1>16. ASSUME NEW f \in Futures, ProgramGet(f) PROVE HandedInv'
  BY <1>16 DEF ProgramGet
<1>17. CASE UNCHANGED vars
  BY <1>17 DEF vars
<1>18. QED
  BY <1>1, <1>2, <1>3, <1>4, <1>5, <1>6, <1>7, <1>8, <1>9, <1>10, <1>11,
     <1>12, <1>13, <1>14, <1>15, <1>16, <1>17 DEF Next, attach, then_fn,
     asio_handler_invoke, do_notify

\* A callback is installed before its link sleeps, and only called once.
LEMMA CallbackStep == IInv /\ [Next]_vars => CallbackInv'
<1> SUFFICES ASSUME IInv, [Next]_vars PROVE CallbackInv'
  OBVIOUS
<1>a. \A f \in Futures : Given(f) => Given(f)'
  BY StableStep DEF Stable
<1> USE AwaitsTypes, ResultTypes DEF IInv, TypeOK, StoredInv, CallbackInv,
      PostedInv, ExcInv, Called, Stored, Given, claims, Goto, is_ready,
      Locked, Throw, Store
<1>1. ASSUME NEW l \in Links, await_ready(l) PROVE CallbackInv'
  BY <1>1 DEF await_ready
<1>2. ASSUME NEW l \in Links, ThenBegin(l) PROVE CallbackInv'
  <2>1. /\ pc[l] \in {"start", "suspend"} /\ ready_callback_' = ready_callback_
        /\ pc' = [pc EXCEPT ![l] = pc'[l]] /\ pc'[l] \in {"then", "failed", "caught", "body"}
        /\ \/ exc' = exc /\ pc'[l] # "caught"
           \/ exc' = [exc EXCEPT ![l] = Refused(l)]
    BY <1>2 DEF ThenBegin, ThenThrow, Raise
  <2>2. \A f \in Futures : Called(f) <=> Called(f)'
    BY <2>1
  <2>3. QED
    BY <1>a, <2>1, <2>2
<1>3. ASSUME NEW l \in Links, ThenTest(l) PROVE CallbackInv'
  <2>1. /\ pc[l] = "then" /\ ready_callback_' = ready_callback_
        /\ pc' = [pc EXCEPT ![l] = pc'[l]] /\ pc'[l] \in {"attach", "failed", "caught", "body"}
        /\ \/ exc' = exc /\ pc'[l] # "caught"
           \/ exc' = [exc EXCEPT ![l] = Refused(l)]
    BY <1>3 DEF ThenTest, ThenThrow, Raise
  <2>2. \A f \in Futures : Called(f) <=> Called(f)'
    BY <2>1
  <2>3. QED
    BY <1>a, <2>1, <2>2
<1>4. ASSUME NEW l \in Links, ThenAttach(l) PROVE CallbackInv'
  BY <1>4 DEF ThenAttach
<1>5. ASSUME NEW l \in Links, Resume(l) PROVE CallbackInv'
  BY <1>5 DEF Resume
<1>6. ASSUME NEW l \in Links, Get(l) PROVE CallbackInv'
  BY <1>6 DEF Get, Claim, ClaimFails, Raise
<1>7. ASSUME NEW l \in Links, GetInBody(l) PROVE CallbackInv'
  <2>1. \/ pc' = [pc EXCEPT ![l] = "body"] /\ exc' = exc
        \/ /\ pc' = [pc EXCEPT ![l] = "caught"] \/ pc' = [pc EXCEPT ![l] = "body"]
           /\ exc' = [exc EXCEPT ![l] = exc'[l]]
    BY <1>7 DEF GetInBody, Claim, ClaimFails, Raise
  <2>2. pc[l] = "body" /\ UNCHANGED ready_callback_
    BY <1>7 DEF GetInBody
  <2>3. \A f \in Futures : Called(f) => Called(f)'
    BY <2>1, <2>2
  <2>4. \A f \in Futures : Given(f) => Given(f)'
    BY <2>1, <2>2
  <2>5. QED
    BY <2>1, <2>2, <2>3, <2>4
<1>8. ASSUME NEW f \in Futures, Return(f) PROVE CallbackInv'
  BY <1>8 DEF Return
<1>9. CASE HandlerError
  BY <1>9 DEF HandlerError
<1>10. ASSUME NEW f \in Futures, BodyThrow(f) PROVE CallbackInv'
  BY <1>10 DEF BodyThrow
<1>11. ASSUME NEW f \in Futures, Catch(f) PROVE CallbackInv'
  BY <1>11 DEF Catch
<1>12. ASSUME NEW f \in Futures, TestCallback(f) PROVE CallbackInv'
  BY <1>12 DEF TestCallback
<1>13. ASSUME NEW f \in Futures, InvokeCallback(f) PROVE CallbackInv'
  BY <1>13 DEF InvokeCallback
<1>14. ASSUME NEW f \in Futures, InvokeCallbackThrow(f) PROVE CallbackInv'
  BY <1>14 DEF InvokeCallbackThrow
<1>15. ASSUME NEW f \in Futures, ClearCallback(f) PROVE CallbackInv'
  BY <1>15 DEF ClearCallback
<1>16. ASSUME NEW f \in Futures, ProgramGet(f) PROVE CallbackInv'
  BY <1>16 DEF ProgramGet
<1>17. CASE UNCHANGED vars
  BY <1>17 DEF vars
<1>18. QED
  BY <1>1, <1>2, <1>3, <1>4, <1>5, <1>6, <1>7, <1>8, <1>9, <1>10, <1>11,
     <1>12, <1>13, <1>14, <1>15, <1>16, <1>17 DEF Next, attach, then_fn,
     asio_handler_invoke, do_notify

\* The executor is handed sleeping links only.
LEMMA PostedStep == IInv /\ [Next]_vars => PostedInv'
<1> SUFFICES ASSUME IInv, [Next]_vars PROVE PostedInv'
  OBVIOUS
<1> USE AwaitsTypes, ResultTypes DEF IInv, TypeOK, StoredInv, CallbackInv,
      PostedInv, ExcInv, Called, Stored, claims, Goto, is_ready, Locked,
      Throw, Store
<1>1. ASSUME NEW l \in Links, await_ready(l) PROVE PostedInv'
  BY <1>1 DEF await_ready
<1>2. ASSUME NEW l \in Links, ThenBegin(l) PROVE PostedInv'
  BY <1>2 DEF ThenBegin, ThenThrow, Raise
<1>3. ASSUME NEW l \in Links, ThenTest(l) PROVE PostedInv'
  BY <1>3 DEF ThenTest, ThenThrow, Raise
<1>4. ASSUME NEW l \in Links, ThenAttach(l) PROVE PostedInv'
  BY <1>4 DEF ThenAttach
<1>5. ASSUME NEW l \in Links, Resume(l) PROVE PostedInv'
  BY <1>5 DEF Resume
<1>6. ASSUME NEW l \in Links, Get(l) PROVE PostedInv'
  BY <1>6 DEF Get, Claim, ClaimFails, Raise
<1>7. ASSUME NEW l \in Links, GetInBody(l) PROVE PostedInv'
  BY <1>7 DEF GetInBody, Claim, ClaimFails, Raise
<1>8. ASSUME NEW f \in Futures, Return(f) PROVE PostedInv'
  BY <1>8 DEF Return
<1>9. CASE HandlerError
  BY <1>9 DEF HandlerError
<1>10. ASSUME NEW f \in Futures, BodyThrow(f) PROVE PostedInv'
  BY <1>10 DEF BodyThrow
<1>11. ASSUME NEW f \in Futures, Catch(f) PROVE PostedInv'
  BY <1>11 DEF Catch
<1>12. ASSUME NEW f \in Futures, TestCallback(f) PROVE PostedInv'
  BY <1>12 DEF TestCallback
<1>13. ASSUME NEW f \in Futures, InvokeCallback(f) PROVE PostedInv'
  <2>1. ready_callback_[f] \in Links /\ awaits[ready_callback_[f]] = f
    BY <1>13, LinkFutures DEF InvokeCallback, CallbackInv
  <2>2. QED
    BY <1>13, <2>1 DEF InvokeCallback
<1>14. ASSUME NEW f \in Futures, InvokeCallbackThrow(f) PROVE PostedInv'
  <2>1. ready_callback_[f] \in Links /\ awaits[ready_callback_[f]] = f
    BY <1>14, LinkFutures DEF InvokeCallbackThrow, CallbackInv
  <2>2. QED
    BY <1>14, <2>1 DEF InvokeCallbackThrow
<1>15. ASSUME NEW f \in Futures, ClearCallback(f) PROVE PostedInv'
  BY <1>15 DEF ClearCallback
<1>16. ASSUME NEW f \in Futures, ProgramGet(f) PROVE PostedInv'
  BY <1>16 DEF ProgramGet
<1>17. CASE UNCHANGED vars
  BY <1>17 DEF vars
<1>18. QED
  BY <1>1, <1>2, <1>3, <1>4, <1>5, <1>6, <1>7, <1>8, <1>9, <1>10, <1>11,
     <1>12, <1>13, <1>14, <1>15, <1>16, <1>17 DEF Next, attach, then_fn,
     asio_handler_invoke, do_notify

\* A value is claimed by the link that goes on with it, or by the program.
LEMMA ClaimStep == IInv /\ [Next]_vars => ClaimInv'
<1> SUFFICES ASSUME IInv, [Next]_vars PROVE ClaimInv'
  OBVIOUS
<1> USE AwaitsTypes, ResultTypes, ResultFields DEF IInv, TypeOK, StoredInv,
      ClaimInv, PostedInv, CallbackInv, Given, Stored, Stable, claims, Goto,
      is_ready, Locked, Throw, Store
<1>a. Stable
  BY StableStep
<1> USE <1>a
<1>b. \A l \in got : result'[awaits[l]].is = "value" /\ Given(l)'
  OBVIOUS
<1> USE <1>b
<1>1. ASSUME NEW l \in Links, await_ready(l) PROVE ClaimInv'
  BY <1>1 DEF await_ready
<1>2. ASSUME NEW l \in Links, ThenBegin(l) PROVE ClaimInv'
  BY <1>2 DEF ThenBegin, ThenThrow, Raise
<1>3. ASSUME NEW l \in Links, ThenTest(l) PROVE ClaimInv'
  BY <1>3 DEF ThenTest, ThenThrow, Raise
<1>4. ASSUME NEW l \in Links, ThenAttach(l) PROVE ClaimInv'
  BY <1>4 DEF ThenAttach
<1>5. ASSUME NEW l \in Links, Resume(l) PROVE ClaimInv'
  BY <1>5 DEF Resume
<1>6. ASSUME NEW l \in Links, Get(l) PROVE ClaimInv'
  <2>1. CASE Claim(l)
    BY <1>6, <2>1 DEF Get, Claim, ClaimFails, Raise
  <2>2. CASE is_retrieved_[awaits[l]] /\ ClaimFails(l)
    BY <1>6, <2>2 DEF Get, Claim, ClaimFails, Raise
  <2>3. CASE ~is_retrieved_[awaits[l]] /\ ClaimFails(l)
    BY <1>6, <2>3 DEF Get, Claim, ClaimFails, Raise
  <2>4. QED
    BY <1>6, <2>1, <2>2, <2>3 DEF Get, Claim, ClaimFails, Raise
<1>7. ASSUME NEW l \in Links, GetInBody(l) PROVE ClaimInv'
  <2>1. CASE Claim(l)
    BY <1>7, <2>1 DEF GetInBody, Claim, ClaimFails, Raise
  <2>2. CASE is_retrieved_[awaits[l]] /\ ClaimFails(l)
    BY <1>7, <2>2 DEF GetInBody, Claim, ClaimFails, Raise
  <2>3. CASE ~is_retrieved_[awaits[l]] /\ ClaimFails(l)
    BY <1>7, <2>3 DEF GetInBody, Claim, ClaimFails, Raise
  <2>4. QED
    BY <1>7, <2>1, <2>2, <2>3 DEF GetInBody, Claim, ClaimFails, Raise
<1>8. ASSUME NEW f \in Futures, Return(f) PROVE ClaimInv'
  BY <1>8 DEF Return
<1>9. CASE HandlerError
  BY <1>9 DEF HandlerError
<1>10. ASSUME NEW f \in Futures, BodyThrow(f) PROVE ClaimInv'
  BY <1>10 DEF BodyThrow
<1>11. ASSUME NEW f \in Futures, Catch(f) PROVE ClaimInv'
  BY <1>11 DEF Catch
<1>12. ASSUME NEW f \in Futures, TestCallback(f) PROVE ClaimInv'
  BY <1>12 DEF TestCallback
<1>13. ASSUME NEW f \in Futures, InvokeCallback(f) PROVE ClaimInv'
  BY <1>13 DEF InvokeCallback
<1>14. ASSUME NEW f \in Futures, InvokeCallbackThrow(f) PROVE ClaimInv'
  BY <1>14 DEF InvokeCallbackThrow
<1>15. ASSUME NEW f \in Futures, ClearCallback(f) PROVE ClaimInv'
  BY <1>15 DEF ClearCallback
<1>16. ASSUME NEW f \in Futures, ProgramGet(f) PROVE ClaimInv'
  BY <1>16 DEF ProgramGet
<1>17. CASE UNCHANGED vars
  BY <1>17 DEF vars
<1>18. QED
  BY <1>1, <1>2, <1>3, <1>4, <1>5, <1>6, <1>7, <1>8, <1>9, <1>10, <1>11,
     <1>12, <1>13, <1>14, <1>15, <1>16, <1>17 DEF Next, attach, then_fn,
     asio_handler_invoke, do_notify

\* Somebody holds the value of a future that is retrieved ...
LEMMA RetrievedReason ==
  ASSUME IInv, NEW l \in Links, is_retrieved_[awaits[l]]
  PROVE  Reason(l)
BY AwaitsTypes DEF IInv, TypeOK, ClaimInv, Reason, Rivals

\* ... and a callback that is installed belongs to a rival.
LEMMA CallbackReason ==
  ASSUME IInv, NEW l \in Links, pc[l] = "then", ready_callback_[awaits[l]] # 0
  PROVE  Reason(l)
<1>1. PICK m \in Links : ready_callback_[awaits[l]] = m
  BY AwaitsTypes, LinkFutures DEF IInv, TypeOK
<1>2. awaits[m] = awaits[l] /\ Given(m)
  BY <1>1, AwaitsTypes DEF IInv, CallbackInv
<1>3. ~Given(l)
  BY AwaitsTypes DEF Given
<1>4. QED
  BY <1>2, <1>3 DEF Reason, Rivals

\* An exception that was handed on is not a refusal of the link itself.
LEMMA HandedOn ==
  ASSUME IInv, NEW l \in Links
  PROVE  result[awaits[l]] # Refused(l)
BY AwaitsTypes, ResultFields DEF IInv, StoredInv

\* A reason for a refusal stays one.
LEMMA ReasonStep == IInv /\ [Next]_vars => \A l \in Links : Reason(l) => Reason(l)'
<1> SUFFICES ASSUME IInv, [Next]_vars, NEW l \in Links, Reason(l) PROVE Reason(l)'
  OBVIOUS
<1>1. Stable
  BY StableStep
<1>2. Rivals(l)' = Rivals(l) /\ Rivals(l) \subseteq Links
  BY DEF Rivals
<1>3. QED
  BY <1>1, <1>2, AwaitsTypes DEF Stable, Reason

\* then() and get() refuse a link only when somebody else was there.
LEMMA RefusedStep == IInv /\ [Next]_vars => RefusedInv'
<1> SUFFICES ASSUME IInv, [Next]_vars PROVE RefusedInv'
  OBVIOUS
<1> USE AwaitsTypes, ResultTypes DEF IInv, TypeOK, RefusedInv, PostedInv,
      claims, Goto, is_ready, Locked, Throw, Store
<1>a. \A l \in Links : Reason(l) => Reason(l)'
  BY ReasonStep
<1> USE <1>a
<1>1. ASSUME NEW l \in Links, await_ready(l) PROVE RefusedInv'
  BY <1>1 DEF await_ready
<1>2. ASSUME NEW l \in Links, ThenBegin(l) PROVE RefusedInv'
  BY <1>2, RetrievedReason DEF ThenBegin, ThenThrow, Raise
<1>3. ASSUME NEW l \in Links, ThenTest(l) PROVE RefusedInv'
  BY <1>3, CallbackReason DEF ThenTest, ThenThrow, Raise
<1>4. ASSUME NEW l \in Links, ThenAttach(l) PROVE RefusedInv'
  BY <1>4 DEF ThenAttach
<1>5. ASSUME NEW l \in Links, Resume(l) PROVE RefusedInv'
  BY <1>5 DEF Resume
<1>6. ASSUME NEW l \in Links, Get(l) PROVE RefusedInv'
  BY <1>6, RetrievedReason, HandedOn DEF Get, Claim, ClaimFails, Raise
<1>7. ASSUME NEW l \in Links, GetInBody(l) PROVE RefusedInv'
  BY <1>7, RetrievedReason, HandedOn DEF GetInBody, Claim, ClaimFails, Raise
<1>8. ASSUME NEW f \in Futures, Return(f) PROVE RefusedInv'
  BY <1>8 DEF Return
<1>9. CASE HandlerError
  BY <1>9 DEF HandlerError
<1>10. ASSUME NEW f \in Futures, BodyThrow(f) PROVE RefusedInv'
  BY <1>10 DEF BodyThrow
<1>11. ASSUME NEW f \in Futures, Catch(f) PROVE RefusedInv'
  BY <1>11 DEF Catch
<1>12. ASSUME NEW f \in Futures, TestCallback(f) PROVE RefusedInv'
  BY <1>12 DEF TestCallback
<1>13. ASSUME NEW f \in Futures, InvokeCallback(f) PROVE RefusedInv'
  BY <1>13 DEF InvokeCallback
<1>14. ASSUME NEW f \in Futures, InvokeCallbackThrow(f) PROVE RefusedInv'
  BY <1>14 DEF InvokeCallbackThrow
<1>15. ASSUME NEW f \in Futures, ClearCallback(f) PROVE RefusedInv'
  BY <1>15 DEF ClearCallback
<1>16. ASSUME NEW f \in Futures, ProgramGet(f) PROVE RefusedInv'
  BY <1>16 DEF ProgramGet
<1>17. CASE UNCHANGED vars
  BY <1>17 DEF vars
<1>18. QED
  BY <1>1, <1>2, <1>3, <1>4, <1>5, <1>6, <1>7, <1>8, <1>9, <1>10, <1>11,
     <1>12, <1>13, <1>14, <1>15, <1>16, <1>17 DEF Next, attach, then_fn,
     asio_handler_invoke, do_notify

\* A link that takes nothing does not ask for its input.
LEMMA PlainStep == IInv /\ [Next]_vars => PlainInv'
<1> SUFFICES ASSUME IInv, [Next]_vars PROVE PlainInv'
  OBVIOUS
<1> USE AwaitsTypes, ResultTypes DEF IInv, TypeOK, PlainInv, PostedInv, claims,
      Goto, is_ready, Locked, Throw, Store
<1>1. ASSUME NEW l \in Links, await_ready(l) PROVE PlainInv'
  BY <1>1 DEF await_ready
<1>2. ASSUME NEW l \in Links, ThenBegin(l) PROVE PlainInv'
  BY <1>2 DEF ThenBegin, ThenThrow, Raise
<1>3. ASSUME NEW l \in Links, ThenTest(l) PROVE PlainInv'
  BY <1>3 DEF ThenTest, ThenThrow, Raise
<1>4. ASSUME NEW l \in Links, ThenAttach(l) PROVE PlainInv'
  BY <1>4 DEF ThenAttach
<1>5. ASSUME NEW l \in Links, Resume(l) PROVE PlainInv'
  BY <1>5 DEF Resume
<1>6. ASSUME NEW l \in Links, Get(l) PROVE PlainInv'
  BY <1>6 DEF Get, Claim, ClaimFails, Raise
<1>7. ASSUME NEW l \in Links, GetInBody(l) PROVE PlainInv'
  BY <1>7 DEF GetInBody, Claim, ClaimFails, Raise
<1>8. ASSUME NEW f \in Futures, Return(f) PROVE PlainInv'
  BY <1>8 DEF Return
<1>9. CASE HandlerError
  BY <1>9 DEF HandlerError
<1>10. ASSUME NEW f \in Futures, BodyThrow(f) PROVE PlainInv'
  BY <1>10 DEF BodyThrow
<1>11. ASSUME NEW f \in Futures, Catch(f) PROVE PlainInv'
  BY <1>11 DEF Catch
<1>12. ASSUME NEW f \in Futures, TestCallback(f) PROVE PlainInv'
  BY <1>12 DEF TestCallback
<1>13. ASSUME NEW f \in Futures, InvokeCallback(f) PROVE PlainInv'
  BY <1>13 DEF InvokeCallback
<1>14. ASSUME NEW f \in Futures, InvokeCallbackThrow(f) PROVE PlainInv'
  BY <1>14 DEF InvokeCallbackThrow
<1>15. ASSUME NEW f \in Futures, ClearCallback(f) PROVE PlainInv'
  BY <1>15 DEF ClearCallback
<1>16. ASSUME NEW f \in Futures, ProgramGet(f) PROVE PlainInv'
  BY <1>16 DEF ProgramGet
<1>17. CASE UNCHANGED vars
  BY <1>17 DEF vars
<1>18. QED
  BY <1>1, <1>2, <1>3, <1>4, <1>5, <1>6, <1>7, <1>8, <1>9, <1>10, <1>11,
     <1>12, <1>13, <1>14, <1>15, <1>16, <1>17 DEF Next, attach, then_fn,
     asio_handler_invoke, do_notify

\* A link goes on when its future is complete.
LEMMA BlockStep == IInv /\ [Next]_vars => NeverBlocks'
<1> SUFFICES ASSUME IInv, [Next]_vars PROVE NeverBlocks'
  OBVIOUS
<1> USE AwaitsTypes, ResultTypes DEF IInv, TypeOK, StoredInv, PostedInv,
      NeverBlocks, Called, Stored, claims, Goto, is_ready, Locked, Throw,
      Store
<1>1. ASSUME NEW l \in Links, await_ready(l) PROVE NeverBlocks'
  BY <1>1 DEF await_ready
<1>2. ASSUME NEW l \in Links, ThenBegin(l) PROVE NeverBlocks'
  BY <1>2 DEF ThenBegin, ThenThrow, Raise
<1>3. ASSUME NEW l \in Links, ThenTest(l) PROVE NeverBlocks'
  BY <1>3 DEF ThenTest, ThenThrow, Raise
<1>4. ASSUME NEW l \in Links, ThenAttach(l) PROVE NeverBlocks'
  BY <1>4 DEF ThenAttach
<1>5. ASSUME NEW l \in Links, Resume(l) PROVE NeverBlocks'
  BY <1>5 DEF Resume
<1>6. ASSUME NEW l \in Links, Get(l) PROVE NeverBlocks'
  BY <1>6 DEF Get, Claim, ClaimFails, Raise
<1>7. ASSUME NEW l \in Links, GetInBody(l) PROVE NeverBlocks'
  BY <1>7 DEF GetInBody, Claim, ClaimFails, Raise
<1>8. ASSUME NEW f \in Futures, Return(f) PROVE NeverBlocks'
  BY <1>8 DEF Return
<1>9. CASE HandlerError
  BY <1>9 DEF HandlerError
<1>10. ASSUME NEW f \in Futures, BodyThrow(f) PROVE NeverBlocks'
  BY <1>10 DEF BodyThrow
<1>11. ASSUME NEW f \in Futures, Catch(f) PROVE NeverBlocks'
  BY <1>11 DEF Catch
<1>12. ASSUME NEW f \in Futures, TestCallback(f) PROVE NeverBlocks'
  BY <1>12 DEF TestCallback
<1>13. ASSUME NEW f \in Futures, InvokeCallback(f) PROVE NeverBlocks'
  <2>1. ready_callback_[f] \in Links /\ awaits[ready_callback_[f]] = f
    BY <1>13, LinkFutures DEF InvokeCallback, CallbackInv
  <2>2. QED
    BY <1>13, <2>1 DEF InvokeCallback
<1>14. ASSUME NEW f \in Futures, InvokeCallbackThrow(f) PROVE NeverBlocks'
  <2>1. ready_callback_[f] \in Links /\ awaits[ready_callback_[f]] = f
    BY <1>14, LinkFutures DEF InvokeCallbackThrow, CallbackInv
  <2>2. QED
    BY <1>14, <2>1 DEF InvokeCallbackThrow
<1>15. ASSUME NEW f \in Futures, ClearCallback(f) PROVE NeverBlocks'
  BY <1>15 DEF ClearCallback
<1>16. ASSUME NEW f \in Futures, ProgramGet(f) PROVE NeverBlocks'
  BY <1>16 DEF ProgramGet
<1>17. CASE UNCHANGED vars
  BY <1>17 DEF vars
<1>18. QED
  BY <1>1, <1>2, <1>3, <1>4, <1>5, <1>6, <1>7, <1>8, <1>9, <1>10, <1>11,
     <1>12, <1>13, <1>14, <1>15, <1>16, <1>17 DEF Next, attach, then_fn,
     asio_handler_invoke, do_notify

\* An exception is handed on by links that ask for the value.
LEMMA ErrorStep == IInv /\ [Next]_vars => ErrorsTravel'
<1> SUFFICES ASSUME IInv, [Next]_vars PROVE ErrorsTravel'
  OBVIOUS
<1> USE AwaitsTypes, ResultTypes, ResultFields DEF IInv, TypeOK, StoredInv,
      ExcInv, HandedInv, ClaimInv, ErrorsTravel, Asks, Stored, Stable, claims,
      Goto, is_ready, Locked, Throw, Store
<1>a. Stable
  BY StableStep
<1> USE <1>a
<1>1. ASSUME NEW l \in Links, await_ready(l) PROVE ErrorsTravel'
  BY <1>1 DEF await_ready
<1>2. ASSUME NEW l \in Links, ThenBegin(l) PROVE ErrorsTravel'
  BY <1>2 DEF ThenBegin, ThenThrow, Raise
<1>3. ASSUME NEW l \in Links, ThenTest(l) PROVE ErrorsTravel'
  BY <1>3 DEF ThenTest, ThenThrow, Raise
<1>4. ASSUME NEW l \in Links, ThenAttach(l) PROVE ErrorsTravel'
  BY <1>4 DEF ThenAttach
<1>5. ASSUME NEW l \in Links, Resume(l) PROVE ErrorsTravel'
  BY <1>5 DEF Resume
<1>6. ASSUME NEW l \in Links, Get(l) PROVE ErrorsTravel'
  BY <1>6 DEF Get, Claim, ClaimFails, Raise
<1>7. ASSUME NEW l \in Links, GetInBody(l) PROVE ErrorsTravel'
  BY <1>7 DEF GetInBody, Claim, ClaimFails, Raise
<1>8. ASSUME NEW f \in Futures, Return(f) PROVE ErrorsTravel'
  BY <1>8 DEF Return
<1>9. CASE HandlerError
  BY <1>9 DEF HandlerError
<1>10. ASSUME NEW f \in Futures, BodyThrow(f) PROVE ErrorsTravel'
  BY <1>10 DEF BodyThrow
<1>11. ASSUME NEW f \in Futures, Catch(f) PROVE ErrorsTravel'
  <2>1. CASE is_ready(f)
    BY <1>11, <2>1 DEF Catch
  <2>2. CASE ~is_ready(f)
    BY <1>11, <2>2 DEF Catch
  <2>3. QED
    BY <1>11, <2>1, <2>2 DEF Catch
<1>12. ASSUME NEW f \in Futures, TestCallback(f) PROVE ErrorsTravel'
  BY <1>12 DEF TestCallback
<1>13. ASSUME NEW f \in Futures, InvokeCallback(f) PROVE ErrorsTravel'
  BY <1>13 DEF InvokeCallback
<1>14. ASSUME NEW f \in Futures, InvokeCallbackThrow(f) PROVE ErrorsTravel'
  BY <1>14 DEF InvokeCallbackThrow
<1>15. ASSUME NEW f \in Futures, ClearCallback(f) PROVE ErrorsTravel'
  BY <1>15 DEF ClearCallback
<1>16. ASSUME NEW f \in Futures, ProgramGet(f) PROVE ErrorsTravel'
  BY <1>16 DEF ProgramGet
<1>17. CASE UNCHANGED vars
  BY <1>17 DEF vars
<1>18. QED
  BY <1>1, <1>2, <1>3, <1>4, <1>5, <1>6, <1>7, <1>8, <1>9, <1>10, <1>11,
     <1>12, <1>13, <1>14, <1>15, <1>16, <1>17 DEF Next, attach, then_fn,
     asio_handler_invoke, do_notify

\* One reader is given the value, and refusals keep their reasons.
LEMMA ClaimedStep == IInv /\ [Next]_vars => ClaimedByOne'
<1> SUFFICES ASSUME IInv, [Next]_vars PROVE ClaimedByOne'
  OBVIOUS
<1> USE AwaitsTypes, ResultTypes DEF IInv, TypeOK, StoredInv, ClaimInv,
      RefusedInv, ClaimedByOne, Rivals, claims, Goto, is_ready, Locked, Throw,
      Store
<1>a. \A l \in Links : Reason(l) => Reason(l)'
  BY ReasonStep
<1> USE <1>a
<1>1. ASSUME NEW l \in Links, await_ready(l) PROVE ClaimedByOne'
  BY <1>1 DEF await_ready
<1>2. ASSUME NEW l \in Links, ThenBegin(l) PROVE ClaimedByOne'
  BY <1>2 DEF ThenBegin, ThenThrow, Raise
<1>3. ASSUME NEW l \in Links, ThenTest(l) PROVE ClaimedByOne'
  BY <1>3 DEF ThenTest, ThenThrow, Raise
<1>4. ASSUME NEW l \in Links, ThenAttach(l) PROVE ClaimedByOne'
  BY <1>4 DEF ThenAttach
<1>5. ASSUME NEW l \in Links, Resume(l) PROVE ClaimedByOne'
  BY <1>5 DEF Resume
<1>6. ASSUME NEW l \in Links, Get(l) PROVE ClaimedByOne'
  BY <1>6 DEF Get, Claim, ClaimFails, Raise
<1>7. ASSUME NEW l \in Links, GetInBody(l) PROVE ClaimedByOne'
  BY <1>7 DEF GetInBody, Claim, ClaimFails, Raise
<1>8. ASSUME NEW f \in Futures, Return(f) PROVE ClaimedByOne'
  BY <1>8 DEF Return
<1>9. CASE HandlerError
  BY <1>9 DEF HandlerError
<1>10. ASSUME NEW f \in Futures, BodyThrow(f) PROVE ClaimedByOne'
  BY <1>10 DEF BodyThrow
<1>11. ASSUME NEW f \in Futures, Catch(f) PROVE ClaimedByOne'
  BY <1>11 DEF Catch
<1>12. ASSUME NEW f \in Futures, TestCallback(f) PROVE ClaimedByOne'
  BY <1>12 DEF TestCallback
<1>13. ASSUME NEW f \in Futures, InvokeCallback(f) PROVE ClaimedByOne'
  BY <1>13 DEF InvokeCallback
<1>14. ASSUME NEW f \in Futures, InvokeCallbackThrow(f) PROVE ClaimedByOne'
  BY <1>14 DEF InvokeCallbackThrow
<1>15. ASSUME NEW f \in Futures, ClearCallback(f) PROVE ClaimedByOne'
  BY <1>15 DEF ClearCallback
<1>16. ASSUME NEW f \in Futures, ProgramGet(f) PROVE ClaimedByOne'
  BY <1>16 DEF ProgramGet
<1>17. CASE UNCHANGED vars
  BY <1>17 DEF vars
<1>18. QED
  BY <1>1, <1>2, <1>3, <1>4, <1>5, <1>6, <1>7, <1>8, <1>9, <1>10, <1>11,
     <1>12, <1>13, <1>14, <1>15, <1>16, <1>17 DEF Next, attach, then_fn,
     asio_handler_invoke, do_notify

\* Nothing is stored, installed or claimed at the start.
LEMMA InitIInv == Init => IInv
<1> SUFFICES ASSUME Init PROVE IInv
  OBVIOUS
<1> USE AwaitsTypes, ResultTypes, ResultFields DEF Init, is_ready
<1>1. TypeOK
  BY ChainAssumption DEF TypeOK
<1>2. StoredInv /\ ExcInv /\ HandedInv
  BY DEF StoredInv, ExcInv, HandedInv, Stored
<1>3. CallbackInv /\ PostedInv /\ PlainInv
  BY DEF CallbackInv, PostedInv, PlainInv
<1>4. ClaimInv /\ RefusedInv
  BY DEF ClaimInv, RefusedInv
<1>5. NeverBlocks /\ ErrorsTravel /\ ClaimedByOne
  BY DEF NeverBlocks, ErrorsTravel, ClaimedByOne
<1>6. QED
  BY <1>1, <1>2, <1>3, <1>4, <1>5 DEF IInv

\* The invariant holds in every reachable state.
THEOREM Invariance == Spec => []IInv
<1>1. IInv /\ [Next]_vars => IInv'
  BY TypeStep, StoredStep, ExcStep, HandedStep, CallbackStep, PostedStep, ClaimStep,
     RefusedStep, PlainStep, BlockStep, ErrorStep, ClaimedStep DEF IInv
<1>2. QED
  BY InitIInv, <1>1, PTL DEF Spec

\* The variables keep their types.
THEOREM TypeCorrect == Spec => []TypeOK
<1>1. IInv => TypeOK
  BY DEF IInv
<1>2. QED
  BY <1>1, Invariance, PTL

\* A link that runs finds the future it is attached to complete: get() in
\* await_resume and in a continuation never waits on a thread of the executor.
THEOREM ChainNeverBlocks == Spec => []NeverBlocks
<1>1. IInv => NeverBlocks
  BY DEF IInv
<1>2. QED
  BY <1>1, Invariance, PTL

\* An exception reaches a link only through links that ask for the value; a
\* continuation by value never returns a value without having got one, and a
\* coroutine that does had an exception thrown into its body.
THEOREM ChainErrorsTravel == Spec => []ErrorsTravel
<1>1. IInv => ErrorsTravel
  BY DEF IInv
<1>2. QED
  BY <1>1, Invariance, PTL

\* One reader at most is given a value, and a refusal has a cause.
THEOREM ChainClaimedByOne == Spec => []ClaimedByOne
<1>1. IInv => ClaimedByOne
  BY DEF IInv
<1>2. QED
  BY <1>1, Invariance, PTL

\* A guarded call that has ended has completed its future.
THEOREM ChainGuardedStores == Spec => []GuardedStores
<1>1. IInv => GuardedStores
  BY DEF IInv, StoredInv, Stored, GuardedStores
<1>2. QED
  BY <1>1, Invariance, PTL

\* What leaves a guarded call is a failure of the executor that its future does
\* not hold.
THEOREM ChainFaultsEscape == Spec => []FaultsEscape
<1>1. IInv => FaultsEscape
  BY ResultFields DEF IInv, StoredInv, FaultsEscape
<1>2. QED
  BY <1>1, Invariance, PTL

\* The executor is handed sleeping coroutines and continuations only.
THEOREM ChainResumedSuspended == Spec => []ResumedSuspended
<1>1. IInv => ResumedSuspended
  BY DEF IInv, PostedInv, ResumedSuspended
<1>2. QED
  BY <1>1, Invariance, PTL

-----------------------------------------------------------------------------
(* The fate of a link that sleeps *)

\* do_notify empties ready_callback_ only after it has posted a link, which may
\* have run since.
EmptiedInv ==
  \A f \in Futures : pc[f] = "clear" =>
    \E m \in Links :
      awaits[m] = f /\ Given(m) /\ (m \in posted \/ pc[m] # "suspended")

\* What is given stays so, and a link that was given goes to sleep no more.
LEMMA AwakeStep ==
  ASSUME IInv, [Next]_vars, NEW m \in Links, Given(m)
  PROVE  Given(m)' /\ (m \in posted \/ pc[m] # "suspended"
                         => m \in posted' \/ pc'[m] # "suspended")
<1>a. Given(m)'
  BY StableStep, AwaitsTypes DEF Stable
<1> SUFFICES ASSUME m \in posted \/ pc[m] # "suspended"
             PROVE  m \in posted' \/ pc'[m] # "suspended"
  BY <1>a
<1> DEFINE awake == m \in posted' \/ pc'[m] # "suspended"
<1> USE AwaitsTypes DEF IInv, TypeOK, Given, Goto, Throw, Store
<1>1. ASSUME NEW l \in Links, await_ready(l) PROVE awake
  BY <1>1 DEF await_ready
<1>2. ASSUME NEW l \in Links, ThenBegin(l) PROVE awake
  BY <1>2 DEF ThenBegin, ThenThrow, Raise
<1>3. ASSUME NEW l \in Links, ThenTest(l) PROVE awake
  BY <1>3 DEF ThenTest, ThenThrow, Raise
<1>4. ASSUME NEW l \in Links, ThenAttach(l) PROVE awake
  BY <1>4 DEF ThenAttach
<1>5. ASSUME NEW l \in Links, Resume(l) PROVE awake
  BY <1>5 DEF Resume
<1>6. ASSUME NEW l \in Links, Get(l) PROVE awake
  BY <1>6 DEF Get, Claim, ClaimFails, Raise
<1>7. ASSUME NEW l \in Links, GetInBody(l) PROVE awake
  BY <1>7 DEF GetInBody, Claim, ClaimFails, Raise
<1>8. ASSUME NEW f \in Futures, Return(f) PROVE awake
  BY <1>8 DEF Return
<1>9. CASE HandlerError
  BY <1>9 DEF HandlerError
<1>10. ASSUME NEW f \in Futures, BodyThrow(f) PROVE awake
  BY <1>10 DEF BodyThrow
<1>11. ASSUME NEW f \in Futures, Catch(f) PROVE awake
  BY <1>11 DEF Catch
<1>12. ASSUME NEW f \in Futures, TestCallback(f) PROVE awake
  BY <1>12 DEF TestCallback
<1>13. ASSUME NEW f \in Futures, InvokeCallback(f) PROVE awake
  BY <1>13 DEF InvokeCallback
<1>14. ASSUME NEW f \in Futures, InvokeCallbackThrow(f) PROVE awake
  BY <1>14 DEF InvokeCallbackThrow
<1>15. ASSUME NEW f \in Futures, ClearCallback(f) PROVE awake
  BY <1>15 DEF ClearCallback
<1>16. ASSUME NEW f \in Futures, ProgramGet(f) PROVE awake
  BY <1>16 DEF ProgramGet
<1>17. CASE UNCHANGED vars
  BY <1>17 DEF vars
<1>18. QED
  BY <1>1, <1>2, <1>3, <1>4, <1>5, <1>6, <1>7, <1>8, <1>9, <1>10, <1>11,
     <1>12, <1>13, <1>14, <1>15, <1>16, <1>17 DEF Next, attach, then_fn,
     asio_handler_invoke, do_notify

LEMMA SleepersStep ==
  ASSUME IInv, EmptiedInv, SleepersAccounted, [Next]_vars
  PROVE  EmptiedInv' /\ SleepersAccounted'
<1> DEFINE Goal == EmptiedInv' /\ SleepersAccounted'
<1> SUFFICES Goal
  OBVIOUS
<1>a. \A m \in Links : Given(m) =>
        Given(m)' /\ (m \in posted \/ pc[m] # "suspended"
                        => m \in posted' \/ pc'[m] # "suspended")
  BY AwakeStep
<1> USE <1>a, AwaitsTypes DEF IInv, TypeOK, CallbackInv, EmptiedInv,
      SleepersAccounted, Rivals, claims, Goto, Throw, Store
<1>1. ASSUME NEW l \in Links, await_ready(l) PROVE Goal
  BY <1>1 DEF await_ready
<1>2. ASSUME NEW l \in Links, ThenBegin(l) PROVE Goal
  BY <1>2 DEF ThenBegin, ThenThrow, Raise
<1>3. ASSUME NEW l \in Links, ThenTest(l) PROVE Goal
  BY <1>3 DEF ThenTest, ThenThrow, Raise
<1>4. ASSUME NEW l \in Links, ThenAttach(l) PROVE Goal
  <2>1. pc[l] = "attach" /\ pc' = [pc EXCEPT ![l] = "suspended"] /\ posted' = posted
        /\ ready_callback_' = [ready_callback_ EXCEPT ![awaits[l]] = l]
    BY <1>4 DEF ThenAttach
  <2>2. Given(l)'
    BY <2>1 DEF Given
  <2>3. EmptiedInv'
    BY <2>1
  <2>4. ASSUME NEW k \in Links, pc'[k] = "suspended", k # l, k \notin posted'
        PROVE  ready_callback_'[awaits[k]] = k \/ \E m \in Rivals(k) : Given(m)'
    <3>1. pc[k] = "suspended" /\ k \notin posted
      BY <2>1, <2>4
    <3>2. CASE awaits[k] = awaits[l]
      BY <2>2, <2>4, <3>2
    <3>3. CASE awaits[k] # awaits[l]
      BY <2>1, <2>4, <3>1, <3>3
    <3>4. QED
      BY <3>2, <3>3
  <2>5. ready_callback_'[awaits[l]] = l
    BY <2>1
  <2>6. SleepersAccounted'
    BY <2>4, <2>5
  <2>7. QED
    BY <2>3, <2>6
<1>5. ASSUME NEW l \in Links, Resume(l) PROVE Goal
  BY <1>5 DEF Resume
<1>6. ASSUME NEW l \in Links, Get(l) PROVE Goal
  BY <1>6 DEF Get, Claim, ClaimFails, Raise
<1>7. ASSUME NEW l \in Links, GetInBody(l) PROVE Goal
  BY <1>7 DEF GetInBody, Claim, ClaimFails, Raise
<1>8. ASSUME NEW f \in Futures, Return(f) PROVE Goal
  BY <1>8 DEF Return
<1>9. CASE HandlerError
  BY <1>9 DEF HandlerError
<1>10. ASSUME NEW f \in Futures, BodyThrow(f) PROVE Goal
  BY <1>10 DEF BodyThrow
<1>11. ASSUME NEW f \in Futures, Catch(f) PROVE Goal
  BY <1>11 DEF Catch
<1>12. ASSUME NEW f \in Futures, TestCallback(f) PROVE Goal
  BY <1>12 DEF TestCallback
<1>13. ASSUME NEW f \in Futures, InvokeCallback(f) PROVE Goal
  <2> DEFINE k == ready_callback_[f]
  <2>1. pc[f] = "invoke" /\ pc' = [pc EXCEPT ![f] = "clear"]
        /\ posted' = posted \cup {k} /\ UNCHANGED ready_callback_
    BY <1>13 DEF InvokeCallback
  <2>2. k \in Links /\ awaits[k] = f /\ Given(k)
    BY <2>1, LinkFutures
  <2>3. SleepersAccounted'
    BY <2>1
  <2>4. EmptiedInv'
    BY <2>1, <2>2
  <2>5. QED
    BY <2>3, <2>4
<1>14. ASSUME NEW f \in Futures, InvokeCallbackThrow(f) PROVE Goal
  BY <1>14 DEF InvokeCallbackThrow
<1>15. ASSUME NEW f \in Futures, ClearCallback(f) PROVE Goal
  BY <1>15 DEF ClearCallback
<1>16. ASSUME NEW f \in Futures, ProgramGet(f) PROVE Goal
  BY <1>16 DEF ProgramGet
<1>17. CASE UNCHANGED vars
  BY <1>17 DEF vars
<1>18. QED
  BY <1>1, <1>2, <1>3, <1>4, <1>5, <1>6, <1>7, <1>8, <1>9, <1>10, <1>11,
     <1>12, <1>13, <1>14, <1>15, <1>16, <1>17 DEF Next, attach, then_fn,
     asio_handler_invoke, do_notify

\* No link is left asleep with nobody to wake it, unless a rival took its place.
THEOREM NoSleeperLost == Spec => []SleepersAccounted
<1>1. Init => EmptiedInv /\ SleepersAccounted
  BY AwaitsTypes DEF Init, EmptiedInv, SleepersAccounted
<1>2. IInv /\ EmptiedInv /\ SleepersAccounted /\ [Next]_vars
        => EmptiedInv' /\ SleepersAccounted'
  BY SleepersStep
<1>3. QED
  BY <1>1, <1>2, Invariance, PTL DEF Spec

-----------------------------------------------------------------------------
(* Refinement of Notifier *)

\* Each step is that of one future, or of none.
LEMMA FutureStep ==
  ASSUME IInv, IInv', [Next]_vars, NEW f \in Futures
  PROVE  [FutureNotifier(f)!Next]_(FutureNotifier(f)!notifierVars)
<1> DEFINE stage == IF Locked(f) THEN pc[f] ELSE IF is_ready(f) THEN "done" ELSE "idle"
           mine == {l \in posted : awaits[l] = f}
           notified == <<ready_callback_[f], stage, mine>>
           Goal == FutureNotifier(f)!Next \/ UNCHANGED notified
<1> SUFFICES Goal
  BY DEF FutureNotifier!notifierVars
<1> USE AwaitsTypes, LinkFutures DEF IInv, TypeOK, StoredInv, Stored, PostedInv,
   CallbackInv, claims, Goto, Throw, Store, Locked, is_ready
<1>1. ASSUME NEW l \in Links, await_ready(l) PROVE Goal
  BY <1>1 DEF await_ready
<1>2. ASSUME NEW l \in Links, ThenBegin(l) PROVE Goal
  BY <1>2 DEF ThenBegin, ThenThrow, Raise
<1>3. ASSUME NEW l \in Links, ThenTest(l) PROVE Goal
  BY <1>3 DEF ThenTest, ThenThrow, Raise
<1>4. ASSUME NEW l \in Links, ThenAttach(l) PROVE Goal
  BY <1>4 DEF ThenAttach, FutureNotifier!Next, FutureNotifier!Attach
<1>5. ASSUME NEW l \in Links, Resume(l) PROVE Goal
  BY <1>5 DEF Resume, FutureNotifier!Next, FutureNotifier!Run
<1>6. ASSUME NEW l \in Links, Get(l) PROVE Goal
  BY <1>6 DEF Get, Claim, ClaimFails, Raise
<1>7. ASSUME NEW l \in Links, GetInBody(l) PROVE Goal
  BY <1>7 DEF GetInBody, Claim, ClaimFails, Raise
<1>8. ASSUME NEW g \in Futures, Return(g) PROVE Goal
  BY <1>8 DEF Return, FutureNotifier!Next, FutureNotifier!Store
<1>9. CASE HandlerError
  BY <1>9 DEF HandlerError, FutureNotifier!Next, FutureNotifier!Store
<1>10. ASSUME NEW g \in Futures, BodyThrow(g) PROVE Goal
  BY <1>10 DEF BodyThrow
<1>11. ASSUME NEW g \in Futures, Catch(g) PROVE Goal
  BY <1>11 DEF Catch, FutureNotifier!Next, FutureNotifier!Store
<1>12. ASSUME NEW g \in Futures, TestCallback(g) PROVE Goal
  BY <1>12 DEF TestCallback, FutureNotifier!Next, FutureNotifier!Test
<1>13. ASSUME NEW g \in Futures, InvokeCallback(g) PROVE Goal
  BY <1>13 DEF InvokeCallback, FutureNotifier!Next, FutureNotifier!Invoke,
     FutureNotifier!Post
<1>14. ASSUME NEW g \in Futures, InvokeCallbackThrow(g) PROVE Goal
  BY <1>14 DEF InvokeCallbackThrow, FutureNotifier!Next,
     FutureNotifier!InvokeThrow, FutureNotifier!Post
<1>15. ASSUME NEW g \in Futures, ClearCallback(g) PROVE Goal
  BY <1>15 DEF ClearCallback, FutureNotifier!Next, FutureNotifier!Clear
<1>16. ASSUME NEW g \in Futures, ProgramGet(g) PROVE Goal
  BY <1>16 DEF ProgramGet
<1>17. CASE UNCHANGED vars
  BY <1>17 DEF vars
<1>18. QED
  BY <1>1, <1>2, <1>3, <1>4, <1>5, <1>6, <1>7, <1>8, <1>9, <1>10, <1>11,
     <1>12, <1>13, <1>14, <1>15, <1>16, <1>17 DEF Next, attach, then_fn,
     asio_handler_invoke, do_notify

\* Every future of a chain starts its continuation as Notifier says.
THEOREM FuturesImplementNotifier ==
  ASSUME NEW f \in Futures PROVE Spec => FutureNotifier(f)!Spec
<1>1. Init => FutureNotifier(f)!Init
  BY DEF Init, Locked, is_ready, FutureNotifier!Init
<1>2. IInv /\ IInv' /\ [Next]_vars
        => [FutureNotifier(f)!Next]_(FutureNotifier(f)!notifierVars)
  BY FutureStep
<1>3. QED
  BY <1>1, <1>2, Invariance, PTL DEF Spec, FutureNotifier!Spec
=============================================================================
