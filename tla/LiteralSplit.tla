---------------------------- MODULE LiteralSplit ----------------------------
(***************************************************************************)
(* literal_split (literal_string.hpp): the compile-time split of a string  *)
(* literal at a delimiter into an array of M strings.  One step is one     *)
(* iteration of the loop of _split.                                        *)
(*                                                                         *)
(* All strings of one split are string<N>: N characters and a terminator.  *)
(* Positions are of type size_t: their arithmetic is modulo SizeT, and     *)
(* npos is the largest.                                                    *)
(***************************************************************************)
EXTENDS Integers, FiniteSets

CONSTANTS
  Chars, NUL,   \* the characters and the terminator among them
  N,            \* the size of the literal's array
  Counts,       \* the array sizes M that a program may ask for
  SizeT         \* the number of values of size_t

ASSUME SizeAssumption ==
  /\ NUL \in Chars
  /\ N \in Nat
  /\ Counts \subseteq Nat \ {0}
  /\ SizeT \in Nat /\ SizeT > N + 1

npos == SizeT - 1

Positions == 0 .. N
Strings == [Positions -> Chars]
Empty == [p \in Positions |-> NUL]

VARIABLES
  M, delimiter,   \* the arguments of the split ...
  s, length,      \* ... the string, and the number of characters before a NUL
  i, start, end,  \* the loop of _split
  r,              \* its array
  done            \* has it ended?

args == <<M, delimiter, s, length>>
vars == <<args, i, start, end, r, done>>

Least(a, b) == IF a <= b THEN a ELSE b

\* e is what find(c, pos) returns: the first c from pos on, before the first NUL.
finds(c, pos, e) ==
  \/ e \in pos .. length - 1 /\ s[e] = c /\ \A q \in pos .. e - 1 : s[q] # c
  \/ e = npos /\ \A q \in pos .. length - 1 : s[q] # c

\* Mutant: the delimiters are counted, not the strings between them.
countDelimiters(c) == Cardinality({p \in 0 .. length - 1 : s[p] = c})

\* literal::count.
count(c) == Cardinality({p \in 0 .. length - 1 : s[p] = c}) + 1

\* Mutant: the length is not limited by what is left of the string.
CopiedUnchecked(pos, len) == Least(N, len)

\* The number of characters that substr(pos, len) copies from position pos on.
Copied(pos, len) == Least(N, Least((length - pos) % SizeT, len))

\* substr(pos, len).
substr(pos, len) ==
  [p \in Positions |-> IF p < Copied(pos, len) THEN s[pos + p] ELSE NUL]

\* A literal or another array of N characters, copied by make.
Init ==
  /\ M \in Counts /\ delimiter \in Chars
  /\ s \in {t \in Strings : t[N] = NUL}
  /\ length \in Positions
  /\ s[length] = NUL /\ \A p \in 0 .. length - 1 : s[p] # NUL
  /\ i = 0 /\ start = 0
  /\ end \in Positions \cup {npos} /\ finds(delimiter, 0, end)
  /\ r = [k \in 0 .. M - 1 |-> Empty]
  /\ done = FALSE

\* The body of the loop up to its break.
Store ==
  /\ ~done
  /\ r' = [r EXCEPT ![i] = substr(start, (end - start) % SizeT)]
  /\ UNCHANGED args

Break ==
  /\ end = npos
  /\ done' = TRUE
  /\ UNCHANGED <<i, start, end>>

\* Mutant: the next string begins with the delimiter.
ContinueAtDelimiter ==
  /\ end # npos
  /\ start' = end
  /\ end' \in Positions \cup {npos} /\ finds(delimiter, start', end')
  /\ i' = i + 1
  /\ done' = (i' = M)

Continue ==
  /\ end # npos
  /\ start' = (end + 1) % SizeT
  /\ end' \in Positions \cup {npos} /\ finds(delimiter, start', end')
  /\ i' = i + 1
  /\ done' = (i' = M)

Next == Store /\ (Break \/ Continue)

Spec == Init /\ [][Next]_vars

-----------------------------------------------------------------------------
(* Properties *)

TypeOK ==
  /\ M \in Counts /\ delimiter \in Chars
  /\ s \in Strings /\ length \in Positions
  /\ i \in 0 .. M /\ start \in Positions /\ end \in Positions \cup {npos}
  /\ r \in [0 .. M - 1 -> Strings]
  /\ done \in BOOLEAN

\* A character of the text that is no delimiter belongs to the string whose
\* number is that of the delimiters before it.
Before(p) == Cardinality({q \in 0 .. p - 1 : s[q] = delimiter})

Field(k) == {p \in 0 .. length - 1 : s[p] # delimiter /\ Before(p) = k}

\* String k of the result holds its field, in order, and nothing else.
FieldRight(k) ==
  /\ \A p \in Field(k) : r[k][Cardinality({q \in Field(k) : q < p})] = s[p]
  /\ \A p \in Positions : p >= Cardinality(Field(k)) => r[k][p] = NUL

\* The split is right for any M: strings that the text does not have are
\* empty, and the text after the M-th is left out.
FieldsAreRight == done => \A k \in 0 .. M - 1 : FieldRight(k)

\* substr is never given a position after the end of the text: then length() - pos
\* would wrap to a huge number and the copy run over the end of the array.
ReadsInside ==
  ~done => start <= length /\ start + Copied(start, (end - start) % SizeT) <= length

\* The macro asks for enough strings: with M = count(delimiter) the loop ends by
\* its break, at the last string, and leaves out no text.
CountSuffices ==
  done /\ M = count(delimiter) => end = npos /\ i = M - 1
=============================================================================
