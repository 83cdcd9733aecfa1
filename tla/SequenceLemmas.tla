--------------------------- MODULE SequenceLemmas ---------------------------
(***************************************************************************)
(* Facts about sequences that the proofs about queues rest on: a queue is  *)
(* the second part of a concatenation whose first part has come out of it; *)
(* and the least number of a set, for the proofs by induction over one.    *)
(***************************************************************************)
EXTENDS Integers, Sequences, SequenceTheorems, WellFoundedInduction, TLAPS

\* Appending to the second part appends to the whole.
LEMMA AppendToConcat ==
  ASSUME NEW S, NEW s \in Seq(S), NEW t \in Seq(S), NEW e \in S
  PROVE  s \o Append(t, e) = Append(s \o t, e)
<1>1. <<e>> \in Seq(S)
  OBVIOUS
<1>2. s \o t \in Seq(S)
  BY ConcatProperties
<1>3. Append(t, e) = t \o <<e>> /\ Append(s \o t, e) = (s \o t) \o <<e>>
  BY <1>2, AppendIsConcat
<1>4. QED BY <1>1, <1>3, ConcatAssociative

\* Moving the head of the second part to the end of the first part leaves the
\* whole as it was, and that head is the element after the first part.
LEMMA MoveHead ==
  ASSUME NEW S, NEW s \in Seq(S), NEW t \in Seq(S), t # <<>>
  PROVE  /\ Append(s, Head(t)) \o Tail(t) = s \o t
         /\ Len(s) < Len(s \o t)
         /\ (s \o t)[Len(s) + 1] = Head(t)
<1>1. /\ Head(t) \in S /\ Tail(t) \in Seq(S)
      /\ Len(Tail(t)) = Len(t) - 1
      /\ \A i \in 1 .. Len(Tail(t)) : Tail(t)[i] = t[i+1]
  BY HeadTailProperties
<1>2. Head(t) = t[1] /\ Len(t) \in Nat \ {0} /\ Len(s) \in Nat
  BY EmptySeq, LenProperties
<1> DEFINE a == Append(s, Head(t))
<1>3. /\ a \in Seq(S) /\ Len(a) = Len(s) + 1
      /\ \A i \in 1 .. Len(s) : a[i] = s[i]
      /\ a[Len(s) + 1] = Head(t)
  BY <1>1, AppendProperties
<1> HIDE DEF a
<1>4. /\ s \o t \in Seq(S) /\ Len(s \o t) = Len(s) + Len(t)
      /\ \A i \in 1 .. Len(s) + Len(t) :
           (s \o t)[i] = IF i <= Len(s) THEN s[i] ELSE t[i - Len(s)]
  BY ConcatProperties
<1>5. /\ a \o Tail(t) \in Seq(S) /\ Len(a \o Tail(t)) = Len(a) + Len(Tail(t))
      /\ \A i \in 1 .. Len(a) + Len(Tail(t)) :
           (a \o Tail(t))[i] = IF i <= Len(a) THEN a[i] ELSE Tail(t)[i - Len(a)]
  BY <1>1, <1>3, ConcatProperties
<1>6. Len(a \o Tail(t)) = Len(s \o t)
  BY <1>1, <1>2, <1>3, <1>4, <1>5
<1>7. ASSUME NEW i \in 1 .. Len(s \o t)
      PROVE  (a \o Tail(t))[i] = (s \o t)[i]
  <2>1. CASE i <= Len(s)
    BY <2>1, <1>1, <1>2, <1>3, <1>4, <1>5
  <2>2. CASE i = Len(s) + 1
    BY <2>2, <1>1, <1>2, <1>3, <1>4, <1>5
  <2>3. CASE i > Len(s) + 1
    <3>1. i - Len(a) \in 1 .. Len(Tail(t)) /\ i - Len(s) = (i - Len(a)) + 1
      BY <2>3, <1>1, <1>2, <1>3, <1>4
    <3>2. (a \o Tail(t))[i] = Tail(t)[i - Len(a)]
      BY <2>3, <1>1, <1>2, <1>3, <1>4, <1>5
    <3>3. (s \o t)[i] = t[i - Len(s)]
      BY <2>3, <1>2, <1>4
    <3>4. QED BY <3>1, <3>2, <3>3, <1>1
  <2>4. i \in Int /\ Len(s) \in Int
    BY <1>2, <1>4
  <2>5. i <= Len(s) \/ i = Len(s) + 1 \/ i > Len(s) + 1
    BY <2>4
  <2>6. QED BY <2>1, <2>2, <2>3, <2>5
<1>8. a \o Tail(t) = s \o t
  BY <1>4, <1>5, <1>6, <1>7, SeqEqual
<1>9. Len(s) < Len(s \o t) /\ (s \o t)[Len(s) + 1] = Head(t)
  BY <1>2, <1>4
<1>10. QED BY <1>8, <1>9 DEF a

LEMMA HeadAndTail ==
  ASSUME NEW S, NEW s \in Seq(S), s # <<>>
  PROVE  <<Head(s)>> \o Tail(s) = s
<1>1. <<>> \in Seq(S) /\ Head(s) \in S
  BY EmptySeq, HeadTailProperties
<1>2. Append(<<>>, Head(s)) = <<Head(s)>>
  OBVIOUS
<1>3. Append(<<>>, Head(s)) \o Tail(s) = <<>> \o s
  BY <1>1, MoveHead
<1>4. QED BY <1>2, <1>3, ConcatEmptySeq

\* MoveHead where more follows.
LEMMA MoveHeadBefore ==
  ASSUME NEW S, NEW s \in Seq(S), NEW t \in Seq(S), NEW u \in Seq(S), t # <<>>
  PROVE  /\ (Append(s, Head(t)) \o Tail(t)) \o u = (s \o t) \o u
         /\ Len(s) < Len((s \o t) \o u)
         /\ ((s \o t) \o u)[Len(s) + 1] = Head(t)
<1> DEFINE st == s \o t
<1>1. /\ Append(s, Head(t)) \o Tail(t) = st
      /\ Len(s) < Len(st)
      /\ st[Len(s) + 1] = Head(t)
  BY MoveHead
<1>2. st \in Seq(S) /\ Len(st) \in Nat /\ Len(s) \in Nat /\ Len(u) \in Nat
  BY ConcatProperties, LenProperties
<1> HIDE DEF st
<1>3. /\ Len(st \o u) = Len(st) + Len(u)
      /\ \A i \in 1 .. Len(st) + Len(u) :
           (st \o u)[i] = IF i <= Len(st) THEN st[i] ELSE u[i - Len(st)]
  BY <1>2, ConcatProperties
<1>4. Len(s) < Len(st \o u) /\ (st \o u)[Len(s) + 1] = Head(t)
  BY <1>1, <1>2, <1>3
<1>5. QED BY <1>1, <1>4 DEF st

LEMMA AppendToLast ==
  ASSUME NEW S, NEW s \in Seq(S), NEW t \in Seq(S), NEW u \in Seq(S), NEW e \in S
  PROVE  s \o (t \o Append(u, e)) = Append(s \o (t \o u), e)
<1>1. t \o u \in Seq(S)
  BY ConcatProperties
<1>2. QED BY <1>1, AppendToConcat
-----------------------------------------------------------------------------
\* A set of numbers has a least one.
LEMMA LeastNumber ==
  ASSUME NEW T \in SUBSET Nat, T # {}
  PROVE  \E x \in T : \A y \in T : x <= y
<1>1. PICK R : IsWellFoundedOn(R, Nat) /\ \A x, y \in Nat : y < x => <<y, x>> \in R
  <2> DEFINE Q == OpToRel(<, Nat)
  <2>1. IsWellFoundedOn(Q, Nat)
    BY NatLessThanWellFounded, Zenon
  <2>2. \A x, y \in Nat : y < x => <<y, x>> \in Q
    BY Zenon DEF OpToRel
  <2> HIDE DEF Q
  <2>3. QED BY <2>1, <2>2
<1>2. PICK x \in T : \A y \in T : ~(<<y, x>> \in R)
  BY <1>1, WFMin
<1>3. \A y \in T : ~(y < x)
  BY <1>1, <1>2
<1>4. x \in Nat /\ \A y \in T : y \in Nat
  OBVIOUS
<1>5. QED BY <1>3, <1>4

\* Induction, for a set of numbers.
LEMMA Induction ==
  ASSUME NEW T \in SUBSET Nat, 0 \in T, \A n \in T : n + 1 \in T
  PROVE  T = Nat
<1> DEFINE R == Nat \ T
<1>1. R \in SUBSET Nat
  OBVIOUS
<1>2. SUFFICES ASSUME R # {} PROVE FALSE
  OBVIOUS
<1>3. PICK x \in R : \A y \in R : x <= y
  BY <1>1, <1>2, LeastNumber
<1>4. x \in Nat /\ x \notin T /\ x # 0
  BY <1>3
<1>5. x - 1 \in Nat /\ x - 1 < x /\ (x - 1) + 1 = x
  BY <1>4
<1>6. x - 1 \in T
  BY <1>3, <1>4, <1>5
<1>7. QED BY <1>4, <1>5, <1>6

\* What is computed step by step from a first value, for m steps.
Computes(f, m, a, step) ==
  f[0] = a /\ \A n \in 1 .. m : f[n] = step[<<n, f[n - 1]>>]

\* There is such a function, and its values are of the type of the steps.
LEMMA Recursion ==
  ASSUME NEW S, NEW m \in Nat, NEW a \in S, NEW step \in [(1 .. m) \X S -> S]
  PROVE  \E f \in [0 .. m -> S] : Computes(f, m, a, step)
<1> DEFINE T == {n \in Nat : n <= m => \E f \in [0 .. n -> S] : Computes(f, n, a, step)}
<1>1. 0 \in T
  <2> DEFINE f == [j \in 0 .. 0 |-> a]
  <2>1. f \in [0 .. 0 -> S] /\ Computes(f, 0, a, step)
    BY DEF Computes
  <2>2. QED BY <2>1
<1>2. ASSUME NEW n \in T PROVE n + 1 \in T
  <2> SUFFICES ASSUME n + 1 <= m
               PROVE  \E f \in [0 .. n + 1 -> S] : Computes(f, n + 1, a, step)
    OBVIOUS
  <2>1. n \in Nat /\ n <= m
    OBVIOUS
  <2>2. PICK f \in [0 .. n -> S] : Computes(f, n, a, step)
    BY <2>1
  <2> DEFINE g == [j \in 0 .. n + 1 |-> IF j = n + 1 THEN step[<<n + 1, f[n]>>] ELSE f[j]]
  <2>3. f[n] \in S /\ n + 1 \in 1 .. m
    BY <2>1, <2>2
  <2>4. step[<<n + 1, f[n]>>] \in S
    BY <2>3
  <2>5. g \in [0 .. n + 1 -> S]
    BY <2>1, <2>2, <2>4
  <2>6. \A j \in 0 .. n : g[j] = f[j] /\ j # n + 1
    BY <2>1
  <2>7. g[n + 1] = step[<<n + 1, f[n]>>]
    BY <2>1
  <2> HIDE DEF g
  <2>8. g[0] = a
    BY <2>1, <2>2, <2>6 DEF Computes
  <2>9. ASSUME NEW j \in 1 .. n + 1 PROVE g[j] = step[<<j, g[j - 1]>>]
    <3>1. CASE j = n + 1
      <4>1. j - 1 = n /\ n \in 0 .. n
        BY <2>1, <3>1
      <4>2. QED BY <2>6, <2>7, <3>1, <4>1
    <3>2. CASE j # n + 1
      <4>1. j \in 1 .. n /\ j \in 0 .. n /\ j - 1 \in 0 .. n
        BY <2>1, <3>2
      <4>2. QED BY <2>2, <2>6, <4>1 DEF Computes
    <3>3. QED BY <3>1, <3>2
  <2>10. QED BY <2>5, <2>8, <2>9 DEF Computes
<1>3. T = Nat
  <2> HIDE DEF T
  <2>1. T \in SUBSET Nat
    BY DEF T
  <2>2. QED BY <1>1, <1>2, <2>1, Induction
<1>4. QED BY <1>3

\* r is the sequence of what is in a and then what is in b.
Joined(r, a, b) == r = a \o b

LEMMA JoinedProperties ==
  ASSUME NEW S, NEW a \in Seq(S), NEW b \in Seq(S), NEW r, Joined(r, a, b)
  PROVE  /\ r \in Seq(S) /\ Len(r) = Len(a) + Len(b)
         /\ Len(a) \in Nat /\ Len(b) \in Nat
         /\ \A x \in 1 .. Len(a) : r[x] = a[x]
         /\ \A x \in 1 .. Len(b) : r[Len(a) + x] = b[x]
<1>1. Len(a) \in Nat /\ Len(b) \in Nat
  BY LenProperties
<1>2. /\ r \in Seq(S) /\ Len(r) = Len(a) + Len(b)
      /\ \A x \in 1 .. Len(a) + Len(b) : r[x] = IF x <= Len(a) THEN a[x] ELSE b[x - Len(a)]
  BY ConcatProperties, Zenon DEF Joined
<1>3. \A x \in 1 .. Len(a) : x \in 1 .. Len(a) + Len(b) /\ x <= Len(a)
  BY <1>1
<1>4. \A x \in 1 .. Len(b) : /\ Len(a) + x \in 1 .. Len(a) + Len(b)
                             /\ ~(Len(a) + x <= Len(a)) /\ Len(a) + x - Len(a) = x
  BY <1>1
<1>5. QED BY <1>1, <1>2, <1>3, <1>4

\* An element is where it was put, whatever is put after it.
LEMMA ElementStays ==
  ASSUME NEW S, NEW r \in Seq(S), NEW e \in S, NEW u \in Seq(S), NEW v \in Seq(S)
  PROVE  /\ Len(r) < Len((Append(r, e) \o u) \o v)
         /\ ((Append(r, e) \o u) \o v)[Len(r) + 1] = e
<1> DEFINE a == Append(r, e)
           b == a \o u
<1>1. a \in Seq(S) /\ Len(a) = Len(r) + 1 /\ a[Len(r) + 1] = e
  BY AppendProperties
<1>2. Len(r) \in Nat /\ Len(u) \in Nat /\ Len(v) \in Nat
  BY LenProperties
<1> HIDE DEF a
<1>3. b \in Seq(S) /\ Len(b) = Len(a) + Len(u)
  BY <1>1, ConcatProperties
<1>4. b[Len(r) + 1] = e
  <2>1. \A i \in 1 .. Len(a) + Len(u) : b[i] = IF i <= Len(a) THEN a[i] ELSE u[i - Len(a)]
    BY <1>1, ConcatProperties
  <2>2. Len(r) + 1 \in 1 .. Len(a) + Len(u)
    BY <1>1, <1>2
  <2>3. QED BY <1>1, <1>2, <2>1, <2>2
<1> HIDE DEF b
<1>5. Len(b \o v) = Len(b) + Len(v)
  BY <1>3, ConcatProperties
<1>6. (b \o v)[Len(r) + 1] = e
  <2>1. \A i \in 1 .. Len(b) + Len(v) :
          (b \o v)[i] = IF i <= Len(b) THEN b[i] ELSE v[i - Len(b)]
    BY <1>3, ConcatProperties
  <2>2. Len(r) + 1 \in 1 .. Len(b) + Len(v) /\ Len(r) + 1 <= Len(b)
    BY <1>1, <1>2, <1>3
  <2>3. QED BY <1>4, <2>1, <2>2
<1>7. QED BY <1>1, <1>2, <1>3, <1>5, <1>6 DEF a, b
=============================================================================
