---------------------------- MODULE WhenAnyProofs ----------------------------
(***************************************************************************)
(* Proofs about WhenAny, for any number of inputs.                         *)
(***************************************************************************)
EXTENDS WhenAny, TLAPS

\* Inputs are registered on one after the other, and a continuation runs only
\* when its input is complete.
OrderInv ==
  /\ step \in {"test", "attach"} => \A i \in Inputs : i >= next => pc[i] = "none"
  /\ \A i \in Inputs : pc[i] \notin {"none", "installed"} => i \in ready

\* The lock belongs to the continuation that is between try_lock and unlock.
LockInv ==
  \A i \in Inputs : pc[i] \in {"locked", "set", "store", "unlock"} <=> mtx_ = i

\* The index is claimed by the holder of the lock, which then delivers it.
IndexInv ==
  /\ fulfilled \/ moved => has_index_
  /\ has_index_ => index \in ready /\ (fulfilled \/ pc[index] \in {"set", "store"})
  /\ moved => fulfilled \/ pc[index] = "store"
  /\ \A i \in Inputs : pc[i] \in {"set", "store"} => has_index_ /\ index = i /\ ~fulfilled
  /\ \A i \in Inputs : pc[i] = "set" => ~moved
  /\ \A i \in Inputs : pc[i] = "unlock" => has_index_

IInv ==
  /\ TypeOK
  /\ OrderInv
  /\ LockInv
  /\ IndexInv
  /\ GivingUpIsSafe
  /\ FailsOnlyInDelivery

-----------------------------------------------------------------------------

\* Inputs are numbers, and no input is NoOne.
LEMMA InputTypes ==
  /\ M \in Nat \ {0} /\ NoOne \notin Inputs
  /\ 0 \in Inputs /\ M - 1 \in Inputs
  /\ \A i \in Inputs : i \in Nat /\ i < M /\ (i # M - 1 => i + 1 \in Inputs)
BY InputsAssumption DEF Inputs, NoOne

\* Every step keeps the types of the variables.
LEMMA TypeStep == IInv /\ [Next]_vars => TypeOK'
<1> SUFFICES ASSUME IInv, [Next]_vars PROVE TypeOK'
  OBVIOUS
<1> USE InputTypes DEF IInv, TypeOK, OrderInv, registration, Goto
<1>1. CASE Test
  BY <1>1 DEF Test
<1>2. CASE Attach
  BY <1>2 DEF Attach
<1>3. ASSUME NEW i \in Inputs, Complete(i) PROVE TypeOK'
  BY <1>3 DEF Complete
<1>4. ASSUME NEW i \in Inputs, Begin(i) PROVE TypeOK'
  BY <1>4 DEF Begin
<1>5. ASSUME NEW i \in Inputs, TryLock(i) PROVE TypeOK'
  BY <1>5 DEF TryLock
<1>6. ASSUME NEW i \in Inputs, Claim(i) PROVE TypeOK'
  BY <1>6 DEF Claim
<1>7. ASSUME NEW i \in Inputs, MoveResult(i) PROVE TypeOK'
  BY <1>7 DEF MoveResult
<1>8. ASSUME NEW i \in Inputs, SetValue(i) PROVE TypeOK'
  BY <1>8 DEF SetValue
<1>9. ASSUME NEW i \in Inputs, Unlock(i) PROVE TypeOK'
  BY <1>9 DEF Unlock
<1>10. CASE UNCHANGED vars
  BY <1>10 DEF vars
<1>11. QED
  BY <1>1, <1>2, <1>3, <1>4, <1>5, <1>6, <1>7, <1>8, <1>9, <1>10 DEF Next, notify

\* A continuation is installed on the next input, and begins when that completes.
LEMMA OrderStep == IInv /\ [Next]_vars => OrderInv'
<1> SUFFICES ASSUME IInv, [Next]_vars PROVE OrderInv'
  OBVIOUS
<1> USE InputTypes DEF IInv, TypeOK, OrderInv, registration, Goto
<1>1. CASE Test
  BY <1>1 DEF Test
<1>2. CASE Attach
  <2>1. ASSUME ~moved PROVE pc' = [pc EXCEPT ![next] = "installed"] /\ ready' = ready
    BY <1>2, <2>1 DEF Attach
  <2>2. CASE moved
    BY <1>2, <2>2 DEF Attach
  <2>3. CASE ~moved /\ next = M - 1
    BY <1>2, <2>1, <2>3 DEF Attach
  <2>4. CASE ~moved /\ next # M - 1
    <3>1. next' = next + 1 /\ next \in Nat /\ step = "attach"
      BY <1>2, <2>4 DEF Attach
    <3>2. ASSUME NEW i \in Inputs, i >= next + 1 PROVE i >= next /\ i # next
      BY <3>1, <3>2 DEF Inputs
    <3>3. \A i \in Inputs : i >= next' => pc'[i] = "none"
      BY <2>1, <2>4, <3>1, <3>2
    <3>4. \A i \in Inputs : pc'[i] \notin {"none", "installed"} => i \in ready'
      BY <2>1, <2>4
    <3>5. QED
      BY <3>3, <3>4
  <2>5. QED
    BY <2>2, <2>3, <2>4
<1>3. ASSUME NEW i \in Inputs, Complete(i) PROVE OrderInv'
  BY <1>3 DEF Complete
<1>4. ASSUME NEW i \in Inputs, Begin(i) PROVE OrderInv'
  BY <1>4 DEF Begin
<1>5. ASSUME NEW i \in Inputs, TryLock(i) PROVE OrderInv'
  BY <1>5 DEF TryLock
<1>6. ASSUME NEW i \in Inputs, Claim(i) PROVE OrderInv'
  BY <1>6 DEF Claim
<1>7. ASSUME NEW i \in Inputs, MoveResult(i) PROVE OrderInv'
  BY <1>7 DEF MoveResult
<1>8. ASSUME NEW i \in Inputs, SetValue(i) PROVE OrderInv'
  BY <1>8 DEF SetValue
<1>9. ASSUME NEW i \in Inputs, Unlock(i) PROVE OrderInv'
  BY <1>9 DEF Unlock
<1>10. CASE UNCHANGED vars
  BY <1>10 DEF vars
<1>11. QED
  BY <1>1, <1>2, <1>3, <1>4, <1>5, <1>6, <1>7, <1>8, <1>9, <1>10 DEF Next, notify

\* try_lock gives the lock to one continuation.
LEMMA LockStep == IInv /\ [Next]_vars => LockInv'
<1> SUFFICES ASSUME IInv, [Next]_vars PROVE LockInv'
  OBVIOUS
<1> USE InputTypes DEF IInv, TypeOK, OrderInv, LockInv, registration, Goto
<1>1. CASE Test
  BY <1>1 DEF Test
<1>2. CASE Attach
  BY <1>2 DEF Attach
<1>3. ASSUME NEW i \in Inputs, Complete(i) PROVE LockInv'
  BY <1>3 DEF Complete
<1>4. ASSUME NEW i \in Inputs, Begin(i) PROVE LockInv'
  BY <1>4 DEF Begin
<1>5. ASSUME NEW i \in Inputs, TryLock(i) PROVE LockInv'
  BY <1>5 DEF TryLock
<1>6. ASSUME NEW i \in Inputs, Claim(i) PROVE LockInv'
  BY <1>6 DEF Claim
<1>7. ASSUME NEW i \in Inputs, MoveResult(i) PROVE LockInv'
  BY <1>7 DEF MoveResult
<1>8. ASSUME NEW i \in Inputs, SetValue(i) PROVE LockInv'
  BY <1>8 DEF SetValue
<1>9. ASSUME NEW i \in Inputs, Unlock(i) PROVE LockInv'
  BY <1>9 DEF Unlock
<1>10. CASE UNCHANGED vars
  BY <1>10 DEF vars
<1>11. QED
  BY <1>1, <1>2, <1>3, <1>4, <1>5, <1>6, <1>7, <1>8, <1>9, <1>10 DEF Next, notify

\* The index is claimed once, and delivered by the one that claimed it.
LEMMA IndexStep == IInv /\ [Next]_vars => IndexInv'
<1> SUFFICES ASSUME IInv, [Next]_vars PROVE IndexInv'
  OBVIOUS
<1> USE InputTypes DEF IInv, TypeOK, OrderInv, LockInv, IndexInv, registration,
      Goto
<1>1. CASE Test
  BY <1>1 DEF Test
<1>2. CASE Attach
  BY <1>2 DEF Attach
<1>3. ASSUME NEW i \in Inputs, Complete(i) PROVE IndexInv'
  BY <1>3 DEF Complete
<1>4. ASSUME NEW i \in Inputs, Begin(i) PROVE IndexInv'
  BY <1>4 DEF Begin
<1>5. ASSUME NEW i \in Inputs, TryLock(i) PROVE IndexInv'
  BY <1>5 DEF TryLock
<1>6. ASSUME NEW i \in Inputs, Claim(i) PROVE IndexInv'
  BY <1>6 DEF Claim
<1>7. ASSUME NEW i \in Inputs, MoveResult(i) PROVE IndexInv'
  BY <1>7 DEF MoveResult
<1>8. ASSUME NEW i \in Inputs, SetValue(i) PROVE IndexInv'
  BY <1>8 DEF SetValue
<1>9. ASSUME NEW i \in Inputs, Unlock(i) PROVE IndexInv'
  BY <1>9 DEF Unlock
<1>10. CASE UNCHANGED vars
  BY <1>10 DEF vars
<1>11. QED
  BY <1>1, <1>2, <1>3, <1>4, <1>5, <1>6, <1>7, <1>8, <1>9, <1>10 DEF Next, notify

\* Whoever gives up has seen the index, or somebody who is to set it, or was unlucky.
LEMMA GivingUpStep == IInv /\ [Next]_vars => GivingUpIsSafe'
<1> SUFFICES ASSUME IInv, [Next]_vars PROVE GivingUpIsSafe'
  OBVIOUS
<1> USE InputTypes DEF IInv, TypeOK, OrderInv, LockInv, IndexInv,
      GivingUpIsSafe, registration, Goto
<1>1. CASE Test
  BY <1>1 DEF Test
<1>2. CASE Attach
  BY <1>2 DEF Attach
<1>3. ASSUME NEW i \in Inputs, Complete(i) PROVE GivingUpIsSafe'
  BY <1>3 DEF Complete
<1>4. ASSUME NEW i \in Inputs, Begin(i) PROVE GivingUpIsSafe'
  BY <1>4 DEF Begin
<1>5. ASSUME NEW i \in Inputs, TryLock(i) PROVE GivingUpIsSafe'
  BY <1>5 DEF TryLock
<1>6. ASSUME NEW i \in Inputs, Claim(i) PROVE GivingUpIsSafe'
  BY <1>6 DEF Claim
<1>7. ASSUME NEW i \in Inputs, MoveResult(i) PROVE GivingUpIsSafe'
  BY <1>7 DEF MoveResult
<1>8. ASSUME NEW i \in Inputs, SetValue(i) PROVE GivingUpIsSafe'
  BY <1>8 DEF SetValue
<1>9. ASSUME NEW i \in Inputs, Unlock(i) PROVE GivingUpIsSafe'
  BY <1>9 DEF Unlock
<1>10. CASE UNCHANGED vars
  BY <1>10 DEF vars
<1>11. QED
  BY <1>1, <1>2, <1>3, <1>4, <1>5, <1>6, <1>7, <1>8, <1>9, <1>10 DEF Next, notify

\* Registration fails on futures that were taken, or moved to the caller.
LEMMA FailsStep == IInv /\ [Next]_vars => FailsOnlyInDelivery'
<1> SUFFICES ASSUME IInv, [Next]_vars PROVE FailsOnlyInDelivery'
  OBVIOUS
<1> USE InputTypes DEF IInv, TypeOK, IndexInv, FailsOnlyInDelivery,
      Delivering,      registration, Goto
<1>1. CASE Test
  BY <1>1 DEF Test
<1>2. CASE Attach
  BY <1>2 DEF Attach
<1>3. ASSUME NEW i \in Inputs, Complete(i) PROVE FailsOnlyInDelivery'
  BY <1>3 DEF Complete
<1>4. ASSUME NEW i \in Inputs, Begin(i) PROVE FailsOnlyInDelivery'
  BY <1>4 DEF Begin
<1>5. ASSUME NEW i \in Inputs, TryLock(i) PROVE FailsOnlyInDelivery'
  BY <1>5 DEF TryLock
<1>6. ASSUME NEW i \in Inputs, Claim(i) PROVE FailsOnlyInDelivery'
  BY <1>6 DEF Claim
<1>7. ASSUME NEW i \in Inputs, MoveResult(i) PROVE FailsOnlyInDelivery'
  BY <1>7 DEF MoveResult
<1>8. ASSUME NEW i \in Inputs, SetValue(i) PROVE FailsOnlyInDelivery'
  BY <1>8 DEF SetValue
<1>9. ASSUME NEW i \in Inputs, Unlock(i) PROVE FailsOnlyInDelivery'
  BY <1>9 DEF Unlock
<1>10. CASE UNCHANGED vars
  BY <1>10 DEF vars
<1>11. QED
  BY <1>1, <1>2, <1>3, <1>4, <1>5, <1>6, <1>7, <1>8, <1>9, <1>10 DEF Next, notify

\* Nothing is registered, claimed or delivered at the start.
LEMMA InitIInv == Init => IInv
BY InputTypes DEF Init, IInv, TypeOK, OrderInv, LockInv, IndexInv, GivingUpIsSafe,
   FailsOnlyInDelivery

\* The invariant holds in every reachable state.
THEOREM Invariance == Spec => []IInv
<1>1. IInv /\ [Next]_vars => IInv'
  BY TypeStep, OrderStep, LockStep, IndexStep, GivingUpStep, FailsStep DEF IInv
<1>2. QED
  BY InitIInv, <1>1, PTL DEF Spec

\* The variables keep their types.
THEOREM TypeCorrect == Spec => []TypeOK
<1>1. IInv => TypeOK
  BY DEF IInv
<1>2. QED
  BY <1>1, Invariance, PTL

\* The index that the caller sees is that of a complete input.
THEOREM AnyIndexIsReady == Spec => []IndexIsReady
<1>1. IInv => IndexIsReady
  BY DEF IInv, IndexInv, IndexIsReady
<1>2. QED
  BY <1>1, Invariance, PTL

\* A continuation that found the lock taken was not needed; nothing is said of one
\* whose try_lock failed by itself.
THEOREM AnyGivingUpIsSafe == Spec => []GivingUpIsSafe
<1>1. IInv => GivingUpIsSafe
  BY DEF IInv
<1>2. QED
  BY <1>1, Invariance, PTL

\* Registration on free inputs fails only while or after a continuation delivers.
THEOREM AnyFailsOnlyInDelivery == Spec => []FailsOnlyInDelivery
<1>1. IInv => FailsOnlyInDelivery
  BY DEF IInv
<1>2. QED
  BY <1>1, Invariance, PTL

\* Whichever continuations run, index and futures are delivered once.
THEOREM AnyDeliveredOnce == Spec => DeliveredOnce
<1> DEFINE Once == /\ fulfilled => UNCHANGED index /\ \A i \in Inputs : pc[i] # "store"
                   /\ moved => \A i \in Inputs : pc[i] # "set"
<1>1. IInv /\ [Next]_vars => [Once]_vars
  <2> SUFFICES ASSUME IInv, Next PROVE Once
    BY DEF vars
  <2>1. moved => \A i \in Inputs : pc[i] # "set"
    BY DEF IInv, IndexInv
  <2>2. ASSUME fulfilled PROVE UNCHANGED index
    <3>1. has_index_
      BY <2>2 DEF IInv, IndexInv
    <3>2. QED
      BY <3>1 DEF Next, notify, Test, Attach, Complete, Begin, TryLock, Claim, MoveResult,
         SetValue, Unlock
  <2>3. fulfilled => \A i \in Inputs : pc[i] # "store"
    BY DEF IInv, IndexInv
  <2>4. QED
    BY <2>1, <2>2, <2>3
<1>2. QED
  BY <1>1, Invariance, PTL DEF Spec, DeliveredOnce

\* The continuations cannot all give up in favour of one another, unless try_lock
\* fails by itself: the safety part of AnyCompletes.
THEOREM AnySettles == Spec => []AnySettled
<1>1. IInv => AnySettled
  <2> SUFFICES ASSUME IInv, \E i \in Inputs : pc[i] = "done" /\ i \notin unlucky,
                      \A i \in Inputs : pc[i] \in {"none", "installed", "done"}
               PROVE  fulfilled
    BY DEF AnySettled
  <2>1. \A i \in Inputs : mtx_ # i
    BY DEF IInv, LockInv
  <2>2. has_index_
    BY <2>1 DEF IInv, TypeOK, GivingUpIsSafe
  <2>3. QED
    BY <2>2 DEF IInv, TypeOK, IndexInv
<1>2. QED
  BY <1>1, Invariance, PTL
=============================================================================
