-------------------------- MODULE LiteralSplitProofs --------------------------
(***************************************************************************)
(* Proofs about LiteralSplit, for arrays of any size and any number of     *)
(* strings.                                                                *)
(***************************************************************************)
EXTENDS LiteralSplit, FiniteSetTheorems, TLAPS

\* The text ends at the first NUL.
TextInv == s[length] = NUL /\ \A p \in 0 .. length - 1 : s[p] # NUL

\* Iteration i begins after i delimiters, the last of which is next to start,
\* and has found the next one.
LoopInv ==
  /\ start <= length /\ Before(start) = i
  /\ start = 0 \/ s[start - 1] = delimiter
  /\ finds(delimiter, start, end)
  /\ ~done => i < M
  /\ done => end = npos \/ i = M

\* The strings up to i hold their fields, the others are empty.
ArrayInv ==
  /\ \A k \in 0 .. M - 1 : k < i \/ done => FieldRight(k)
  /\ \A k \in 0 .. M - 1 : k >= i /\ ~done => r[k] = Empty

IInv == TypeOK /\ TextInv /\ LoopInv /\ ArrayInv

-----------------------------------------------------------------------------
(* Counting the delimiters *)

Delimiters(p) == {q \in 0 .. p - 1 : s[q] = delimiter}

\* There is a number of delimiters before every position.
LEMMA BeforeType ==
  ASSUME NEW p \in Nat
  PROVE  IsFiniteSet(Delimiters(p)) /\ Before(p) \in Nat
<1>1. IsFiniteSet(0 .. p - 1)
  BY FS_Interval
<1>2. Delimiters(p) \in SUBSET (0 .. p - 1)
  BY DEF Delimiters
<1>3. IsFiniteSet(Delimiters(p))
  BY <1>1, <1>2, FS_Subset
<1>4. QED
  BY <1>3, FS_CardinalityType DEF Before, Delimiters

\* A delimiter is counted once it has been passed.
LEMMA BeforeNext ==
  ASSUME NEW p \in Nat, s[p] = delimiter
  PROVE  Before(p + 1) = Before(p) + 1
<1>1. Delimiters(p + 1) = Delimiters(p) \cup {p}
  BY DEF Delimiters
<1>2. p \notin Delimiters(p)
  BY DEF Delimiters
<1>3. QED
  BY <1>1, <1>2, BeforeType, FS_AddElement DEF Before, Delimiters

\* Other characters are not counted.
LEMMA BeforeSame ==
  ASSUME NEW a \in Nat, NEW b \in Nat, a <= b, \A q \in a .. b - 1 : s[q] # delimiter
  PROVE  Before(a) = Before(b)
<1>1. Delimiters(a) = Delimiters(b)
  BY DEF Delimiters
<1>2. QED
  BY <1>1 DEF Before, Delimiters

\* The number never falls ...
LEMMA BeforeGrows ==
  ASSUME NEW a \in Nat, NEW b \in Nat, a <= b
  PROVE  Before(a) <= Before(b)
<1>1. Delimiters(a) \in SUBSET Delimiters(b)
  BY DEF Delimiters
<1>2. QED
  BY <1>1, BeforeType, FS_Subset DEF Before, Delimiters

\* ... and is greater after a delimiter.
LEMMA BeforeMore ==
  ASSUME NEW a \in Nat, NEW b \in Nat, a < b, s[a] = delimiter
  PROVE  Before(a) < Before(b)
<1>1. Before(a + 1) = Before(a) + 1
  BY BeforeNext
<1>2. Before(a + 1) <= Before(b)
  BY BeforeGrows
<1>3. QED
  BY <1>1, <1>2, BeforeType

-----------------------------------------------------------------------------
(* One iteration *)

\* Positions do not wrap as long as they stay below npos.
LEMMA NoWrap == \A x \in 0 .. npos : x % SizeT = x
BY SizeAssumption DEF npos

\* Where the string of the current iteration ends.
stop == IF end = npos THEN length ELSE end

\* The iteration stays inside the text.
LEMMA StopFacts ==
  ASSUME IInv
  PROVE  /\ N \in Nat /\ npos \in Nat /\ N < npos /\ length \in Nat /\ length <= N
         /\ start \in Nat /\ stop \in Nat /\ start <= stop /\ stop <= length
         /\ \A q \in start .. stop - 1 : s[q] # delimiter
         /\ end # npos => s[end] = delimiter /\ end \in Nat /\ end < length /\ stop = end
         /\ end = npos => stop = length
<1>1. /\ N \in Nat /\ npos \in Nat /\ N < npos
      /\ length \in Nat /\ length <= N /\ start \in Nat /\ start <= length
  BY SizeAssumption DEF IInv, TypeOK, LoopInv, Positions, npos
<1>2. CASE end = npos
  BY <1>1, <1>2 DEF IInv, LoopInv, finds, stop
<1>3. CASE end # npos
  BY <1>1, <1>3 DEF IInv, LoopInv, finds, stop
<1>4. QED
  BY <1>1, <1>2, <1>3

\* substr copies what lies between the start and the next delimiter.
LEMMA CopiedAll ==
  ASSUME IInv
  PROVE  Copied(start, (end - start) % SizeT) = stop - start
<1>1. (length - start) % SizeT = length - start
  BY StopFacts, NoWrap DEF IInv, LoopInv
<1>2. (end - start) % SizeT = end - start
  BY StopFacts, NoWrap DEF IInv, LoopInv, stop
<1>3. QED
  BY <1>1, <1>2, StopFacts DEF Copied, Least

\* That is field i.
LEMMA FieldShape ==
  ASSUME IInv
  PROVE  Field(i) = start .. stop - 1
<1> USE StopFacts
<1>1. Before(start) = i
  BY DEF IInv, LoopInv
<1>2. ASSUME NEW p \in start .. stop - 1 PROVE p \in Field(i)
  <2>1. Before(start) = Before(p)
    BY BeforeSame
  <2>2. QED
    BY <1>1, <2>1 DEF Field
<1>3. ASSUME NEW p \in Field(i), p < start PROVE FALSE
  <2>1. p \in Nat /\ s[p] # delimiter /\ Before(p) = i
    BY DEF Field
  <2>2. s[start - 1] = delimiter /\ start - 1 \in Nat /\ p <= start - 1
    BY <1>3, <2>1 DEF IInv, LoopInv
  <2>3. Before(start - 1) < Before(start) /\ Before(p) <= Before(start - 1)
    BY <2>1, <2>2, BeforeMore, BeforeGrows
  <2>4. QED
    BY <1>1, <2>1, <2>3, <2>2, BeforeType
<1>4. ASSUME NEW p \in Field(i), p >= stop PROVE FALSE
  <2>1. p \in Nat /\ p < length /\ s[p] # delimiter /\ Before(p) = i
    BY DEF Field
  <2>2. end # npos /\ s[end] = delimiter /\ end \in Nat /\ stop = end /\ end < p
    BY <1>4, <2>1
  <2>3. Before(end) < Before(p) /\ Before(start) = Before(end)
    BY <2>1, <2>2, BeforeMore, BeforeSame
  <2>4. QED
    BY <1>1, <2>1, <2>2, <2>3, BeforeType
<1>5. ASSUME NEW p \in Field(i) PROVE p \in start .. stop - 1
  <2>1. p \in Nat
    BY DEF Field
  <2>2. QED
    BY <1>3, <1>4, <2>1
<1>6. QED
  BY <1>2, <1>5

\* substr(start, end - start) is what string i should be.
LEMMA SubstrRight ==
  ASSUME IInv, NEW t, t = substr(start, (end - start) % SizeT)
  PROVE  /\ \A p \in Field(i) : t[Cardinality({q \in Field(i) : q < p})] = s[p]
         /\ \A p \in Positions : p >= Cardinality(Field(i)) => t[p] = NUL
<1> USE StopFacts
<1>1. t = [p \in Positions |-> IF p < stop - start THEN s[start + p] ELSE NUL]
  BY CopiedAll DEF substr
<1>2. ASSUME NEW p \in Field(i) PROVE t[Cardinality({q \in Field(i) : q < p})] = s[p]
  <2>1. p \in start .. stop - 1
    BY FieldShape
  <2>2. {q \in Field(i) : q < p} = start .. p - 1
    BY <2>1, FieldShape
  <2>3. Cardinality(start .. p - 1) = p - start
    BY <2>1, FS_Interval
  <2>4. p - start \in Positions /\ p - start < stop - start /\ start + (p - start) = p
    BY <2>1 DEF Positions
  <2>5. QED
    BY <1>1, <2>2, <2>3, <2>4
<1>3. Cardinality(Field(i)) = stop - start
  <2>1. Cardinality(start .. stop - 1) = stop - start
    <3>1. start \in Int /\ stop - 1 \in Int /\ start <= stop /\ start \in Nat /\ stop \in Nat
      OBVIOUS
    <3>2. Cardinality(start .. stop - 1)
            = IF start > stop - 1 THEN 0 ELSE (stop - 1) - start + 1
      BY <3>1, FS_Interval
    <3>3. QED
      BY <3>1, <3>2
  <2>2. QED
    BY <2>1, FieldShape
<1>4. ASSUME NEW p \in Positions, p >= stop - start PROVE t[p] = NUL
  BY <1>1, <1>4 DEF Positions
<1>5. QED
  BY <1>2, <1>3, <1>4

\* After the last delimiter no field has characters.
LEMMA NoFurtherField ==
  ASSUME IInv, end = npos, NEW k \in Nat, k > i
  PROVE  Field(k) = {}
<1> SUFFICES ASSUME NEW p \in Field(k) PROVE FALSE
  OBVIOUS
<1>1. p \in Nat /\ p < length /\ Before(p) = k
  BY StopFacts DEF Field
<1>2. Before(p) <= Before(length)
  BY <1>1, StopFacts, BeforeGrows
<1>3. Before(start) = Before(length)
  BY StopFacts, BeforeSame
<1>4. QED
  BY <1>1, <1>2, <1>3, StopFacts, BeforeType DEF IInv, LoopInv
-----------------------------------------------------------------------------
(* The invariant *)

\* A string of the result does not change when its field does not.
LEMMA FieldKept ==
  ASSUME UNCHANGED args, NEW k, r'[k] = r[k], FieldRight(k)
  PROVE  FieldRight(k)'
<1>1. Field(k)' = Field(k)
  BY DEF Field, Before, args
<1>2. QED
  BY <1>1 DEF FieldRight, args

\* The array holds what substr returned.
LEMMA StoreFacts ==
  ASSUME IInv, Store, NEW k, k = i
  PROVE  /\ UNCHANGED args /\ ~done /\ i \in 0 .. M - 1
         /\ r' = [r EXCEPT ![i] = substr(start, (end - start) % SizeT)]
         /\ substr(start, (end - start) % SizeT) \in Strings
         /\ FieldRight(k)'
<1>1. /\ UNCHANGED args /\ ~done /\ i \in 0 .. M - 1
      /\ r' = [r EXCEPT ![i] = substr(start, (end - start) % SizeT)]
  BY SizeAssumption DEF IInv, TypeOK, LoopInv, Store
<1>2. substr(start, (end - start) % SizeT) \in Strings
  <2>1. \A p \in Positions : p < stop - start => start + p \in Positions
    BY StopFacts DEF Positions
  <2>2. s \in Strings
    BY DEF IInv, TypeOK
  <2>3. QED
    BY <2>1, <2>2, CopiedAll, SizeAssumption DEF substr, Strings
<1>3. r'[i] = substr(start, (end - start) % SizeT)
  BY <1>1 DEF IInv, TypeOK
<1>4. Field(k)' = Field(k) /\ s' = s
  BY <1>1 DEF Field, Before, args
<1>5. FieldRight(k)'
  BY <1>3, <1>4, SubstrRight DEF FieldRight
<1>6. QED
  BY <1>1, <1>2, <1>5

\* The loop stays inside the array and the text.
LEMMA TypeStep == IInv /\ [Next]_vars => TypeOK'
<1> SUFFICES ASSUME IInv, [Next]_vars PROVE TypeOK'
  OBVIOUS
<1>1. CASE UNCHANGED vars
  BY <1>1 DEF IInv, TypeOK, vars, args
<1>2. CASE Next
  <2>1. /\ UNCHANGED args /\ ~done /\ i \in 0 .. M - 1
        /\ r' = [r EXCEPT ![i] = substr(start, (end - start) % SizeT)]
        /\ substr(start, (end - start) % SizeT) \in Strings
    BY <1>2, StoreFacts DEF Next
  <2>2. r' \in [0 .. M' - 1 -> Strings]
    BY <2>1 DEF IInv, TypeOK, args
  <2>3. CASE Break
    BY <2>1, <2>2, <2>3 DEF Break, IInv, TypeOK, args
  <2>4. CASE Continue
    <3>1. start' = end + 1 /\ end + 1 \in Positions
      BY <2>4, StopFacts, NoWrap DEF Continue, Positions
    <3>2. i' \in 0 .. M' /\ done' \in BOOLEAN /\ end' \in Positions \cup {npos}
      BY <2>1, <2>4, SizeAssumption DEF Continue, IInv, TypeOK, args
    <3>3. QED
      BY <2>1, <2>2, <3>1, <3>2 DEF IInv, TypeOK, args
  <2>5. QED
    BY <1>2, <2>3, <2>4 DEF Next
<1>3. QED
  BY <1>1, <1>2

\* The text is not changed.
LEMMA TextStep == IInv /\ [Next]_vars => TextInv'
BY DEF IInv, TextInv, Next, Store, vars, args

\* The loop goes on after the delimiter it has found.
LEMMA LoopStep == IInv /\ [Next]_vars => LoopInv'
<1> SUFFICES ASSUME IInv, [Next]_vars PROVE LoopInv'
  OBVIOUS
<1>1. CASE UNCHANGED vars
  BY <1>1 DEF IInv, LoopInv, Before, finds, vars, args
<1>2. CASE Next
  <2>1. /\ UNCHANGED args /\ ~done /\ i \in 0 .. M - 1
    BY <1>2, StoreFacts DEF Next
  <2>2. CASE Break
    BY <2>1, <2>2 DEF Break, IInv, LoopInv, Before, finds, args
  <2>3. CASE Continue
    <3>1. start' = end + 1 /\ end \in Nat /\ end < length /\ s[end] = delimiter
      BY <2>3, StopFacts, NoWrap DEF Continue
    <3>2. Before(start) = i /\ Before(start) = Before(end) /\ Before(end + 1) = Before(end) + 1
      BY <3>1, <2>3, StopFacts, BeforeSame, BeforeNext DEF Continue, IInv, LoopInv
    <3>3. Before(start)' = Before(end + 1)
      BY <2>1, <3>1 DEF Before, args
    <3>4. finds(delimiter, start, end)'
      BY <2>1, <2>3 DEF Continue, finds, args
    <3>5. start' <= length' /\ s'[start' - 1] = delimiter'
      BY <2>1, <3>1, StopFacts DEF args
    <3>6. (~done)' => i' < M'
      <4>1. M' = M /\ M \in Nat /\ i' = i + 1 /\ i \in Nat /\ i < M
        BY <2>1, <2>3, SizeAssumption DEF Continue, IInv, TypeOK, args
      <4>2. ~done' => i' # M
        BY <2>3 DEF Continue
      <4>3. QED
        BY <4>1, <4>2
    <3>7. done' => end' = npos \/ i' = M'
      BY <2>1, <2>3 DEF Continue, args
    <3>8. QED
      BY <2>3, <3>2, <3>3, <3>4, <3>5, <3>6, <3>7 DEF Continue, LoopInv
  <2>4. QED
    BY <1>2, <2>2, <2>3 DEF Next
<1>3. QED
  BY <1>1, <1>2

\* One string is completed by each iteration, the others by the last.
LEMMA ArrayStep == IInv /\ [Next]_vars => ArrayInv'
<1> SUFFICES ASSUME IInv, [Next]_vars PROVE ArrayInv'
  OBVIOUS
<1>1. CASE UNCHANGED vars
  BY <1>1 DEF IInv, ArrayInv, FieldRight, Field, Before, vars, args
<1>2. CASE Next
  <2>1. /\ UNCHANGED args /\ ~done /\ i \in 0 .. M - 1
        /\ r' = [r EXCEPT ![i] = substr(start, (end - start) % SizeT)]
    BY <1>2, StoreFacts DEF Next
  <2>2. \A k \in 0 .. M - 1 : k # i => r'[k] = r[k]
    BY <2>1 DEF IInv, TypeOK
  <2>3. ASSUME NEW k \in 0 .. M - 1, k < i \/ k = i PROVE FieldRight(k)'
    <3>1. CASE k = i
      BY <1>2, <3>1, StoreFacts DEF Next
    <3>2. CASE k # i
      BY <2>1, <2>2, <2>3, <3>2, FieldKept DEF IInv, ArrayInv
    <3>3. QED
      BY <3>1, <3>2
  <2>4. ASSUME NEW k \in 0 .. M - 1, k > i PROVE r'[k] = Empty
    BY <2>1, <2>2, <2>4 DEF IInv, ArrayInv, TypeOK
  <2>5. M' = M /\ M \in Nat /\ i \in Nat
    BY <2>1, SizeAssumption DEF IInv, TypeOK, args
  <2>6. CASE Break
    <3>1. ASSUME NEW k \in 0 .. M - 1, k > i PROVE FieldRight(k)'
      <4>1. Field(k) = {}
        BY <2>5, <2>6, <3>1, NoFurtherField DEF Break
      <4>2. Field(k)' = {}
        BY <2>1, <4>1 DEF Field, Before, args
      <4>3. r'[k] = Empty
        BY <2>4, <3>1
      <4>4. QED
        BY <4>2, <4>3, FS_EmptySet DEF FieldRight, Empty
    <3>2. QED
      BY <2>3, <2>5, <2>6, <3>1 DEF Break, ArrayInv
  <2>7. CASE Continue
    <3>1. i' = i + 1 /\ (done' => i' = M)
      BY <2>7 DEF Continue
    <3>2. ASSUME NEW k \in 0 .. M - 1, k < i' \/ done' PROVE FieldRight(k)'
      BY <2>3, <2>5, <3>1, <3>2
    <3>3. ASSUME NEW k \in 0 .. M - 1, k >= i' PROVE r'[k] = Empty
      BY <2>4, <2>5, <3>1, <3>3
    <3>4. Empty' = Empty
      BY DEF Empty
    <3>5. QED
      BY <2>5, <3>2, <3>3, <3>4 DEF ArrayInv
  <2>8. QED
    BY <1>2, <2>6, <2>7 DEF Next
<1>3. QED
  BY <1>1, <1>2

\* The loop begins at the start of the text.
LEMMA InitIInv == Init => IInv
<1> SUFFICES ASSUME Init PROVE IInv
  OBVIOUS
<1>1. TypeOK
  <2>1. M \in Counts /\ M \in Nat /\ M > 0 /\ N \in Nat /\ 0 \in Positions
    BY SizeAssumption DEF Init, Positions
  <2>2. s \in Strings
    BY DEF Init
  <2>3. Empty \in Strings
    BY SizeAssumption DEF Empty, Strings
  <2>4. r \in [0 .. M - 1 -> Strings]
    BY <2>3 DEF Init
  <2>5. i \in 0 .. M
    BY <2>1 DEF Init
  <2>6. QED
    BY <2>1, <2>2, <2>4, <2>5 DEF Init, TypeOK
<1>2. TextInv
  BY DEF Init, TextInv
<1>3. Before(0) = 0
  BY FS_EmptySet DEF Before
<1>4. LoopInv
  BY <1>3, SizeAssumption DEF Init, LoopInv, Positions
<1>5. ArrayInv
  BY DEF Init, ArrayInv
<1>6. QED
  BY <1>1, <1>2, <1>4, <1>5 DEF IInv

\* The invariant holds in every reachable state.
THEOREM Invariance == Spec => []IInv
<1>1. IInv /\ [Next]_vars => IInv'
  BY TypeStep, TextStep, LoopStep, ArrayStep DEF IInv
<1>2. QED
  BY InitIInv, <1>1, PTL DEF Spec

-----------------------------------------------------------------------------
(* Theorems *)

\* The variables keep their types.
THEOREM TypeCorrect == Spec => []TypeOK
<1>1. IInv => TypeOK
  BY DEF IInv
<1>2. QED
  BY <1>1, Invariance, PTL

\* Every string of the result holds the text between two delimiters, whatever
\* the literal, the delimiter and the size of the array.
THEOREM SplitFieldsAreRight == Spec => []FieldsAreRight
<1>1. IInv => FieldsAreRight
  BY DEF IInv, ArrayInv, FieldsAreRight
<1>2. QED
  BY <1>1, Invariance, PTL

\* substr copies characters of the text only.
THEOREM SplitReadsInside == Spec => []ReadsInside
<1>1. IInv => ReadsInside
  BY CopiedAll, StopFacts DEF ReadsInside
<1>2. QED
  BY <1>1, Invariance, PTL

\* With as many strings as the macro asks for, the loop finds every delimiter.
THEOREM SplitCountSuffices == Spec => []CountSuffices
<1>1. IInv => CountSuffices
  <2> SUFFICES ASSUME IInv, done, M = count(delimiter) PROVE end = npos /\ i = M - 1
    BY DEF CountSuffices
  <2>1. count(delimiter) = Before(length) + 1
    BY DEF count, Before
  <2>2. /\ Before(start) \in Nat /\ Before(length) \in Nat
        /\ Before(start) <= Before(length) /\ Before(start) = i
    BY StopFacts, BeforeType, BeforeGrows DEF IInv, LoopInv
  <2>3. end = npos
    BY <2>1, <2>2 DEF IInv, LoopInv
  <2>4. Before(start) = Before(length)
    BY <2>3, StopFacts, BeforeSame
  <2>5. QED
    BY <2>1, <2>2, <2>3, <2>4
<1>2. QED
  BY <1>1, Invariance, PTL
=============================================================================
