--------------------------- MODULE Config_proofs ---------------------------
(***************************************************************************)
(* Proofs about the saved list, for any number of clients and any URLs.    *)
(***************************************************************************)
EXTENDS Config, SequenceLemmas

LEMMA SameEnd ==
  ASSUME NEW a \in Nat, NEW b \in Nat, 1 .. a = 1 .. b
  PROVE  a = b
<1>1. CASE a < b
  <2>1. b \in 1 .. b /\ b \notin 1 .. a
    BY <1>1
  <2>2. QED BY <2>1
<1>2. CASE b < a
  <2>1. a \in 1 .. a /\ a \notin 1 .. b
    BY <1>2
  <2>2. QED BY <2>1
<1>3. QED BY <1>1, <1>2

\* The list without one of its clients.
LEMMA WithoutOne ==
  ASSUME NEW S, NEW s \in Seq(S), NEW i \in 1 .. Len(s)
  PROVE  /\ SubSeq(s, 1, i - 1) \o SubSeq(s, i + 1, Len(s)) \in Seq(S)
         /\ Len(SubSeq(s, 1, i - 1) \o SubSeq(s, i + 1, Len(s))) <= Len(s)
<1> DEFINE m == Len(s)
           t == SubSeq(s, 1, i - 1)
           u == SubSeq(s, i + 1, m)
<1>1. m \in Nat /\ i \in Nat /\ i >= 1 /\ i <= m
  BY LenProperties
<1>2. \A j \in 1 .. m : s[j] \in S
  BY ElementOfSeq
<1> HIDE DEF m
<1>3. t \in Seq(S) /\ Len(t) = IF 1 <= i - 1 THEN i - 1 - 1 + 1 ELSE 0
  <2>1. 1 \in Int /\ i - 1 \in Int /\ \A j \in 1 .. i - 1 : s[j] \in S
    BY <1>1, <1>2
  <2>2. QED BY <2>1, SubSeqProperties
<1>4. u \in Seq(S) /\ Len(u) = IF i + 1 <= m THEN m - (i + 1) + 1 ELSE 0
  <2>1. i + 1 \in Int /\ m \in Int /\ \A j \in i + 1 .. m : s[j] \in S
    BY <1>1, <1>2
  <2>2. QED BY <2>1, SubSeqProperties
<1> HIDE DEF t, u
<1>5. t \o u \in Seq(S) /\ Len(t \o u) = Len(t) + Len(u)
  BY <1>3, <1>4, ConcatProperties
<1>6. Len(t \o u) <= m
  BY <1>1, <1>3, <1>4, <1>5
<1>7. QED BY <1>5, <1>6 DEF m, t, u
-----------------------------------------------------------------------------
\* The digits of a port are read back as that port.
Digit == 0 .. 9

\* What atou computes digit by digit.
Sums(e, s) == e[0] = 0 /\ \A k \in 1 .. Len(s) : e[k] = 10 * e[k - 1] + s[k]

LEMMA AtouSums ==
  ASSUME NEW s \in Seq(Digit)
  PROVE  \E e \in [0 .. Len(s) -> Nat] : Sums(e, s) /\ atou(s) = e[Len(s)]
<1> DEFINE m == Len(s)
           Is(e) == e = [k \in 0 .. m |-> IF k = 0 THEN 0 ELSE 10 * e[k - 1] + s[k]]
           e == CHOOSE g : Is(g)
           step == [v \in (1 .. m) \X Nat |-> 10 * v[2] + s[v[1]]]
<1>1. m \in Nat /\ \A k \in 1 .. m : s[k] \in Nat
  BY LenProperties, ElementOfSeq DEF Digit
<1>2. atou(s) = e[m]
  BY DEF atou
<1> HIDE DEF m
<1>3. step \in [(1 .. m) \X Nat -> Nat]
  <2>1. \A v \in (1 .. m) \X Nat : v[1] \in 1 .. m /\ v[2] \in Nat
    OBVIOUS
  <2>2. \A v \in (1 .. m) \X Nat : 10 * v[2] + s[v[1]] \in Nat
    BY <1>1, <2>1
  <2>3. QED BY <2>2
<1>4. \A k \in 1 .. m, a \in Nat : step[<<k, a>>] = 10 * a + s[k]
  OBVIOUS
<1> HIDE DEF step
<1>5. PICK h \in [0 .. m -> Nat] : Computes(h, m, 0, step)
  BY <1>1, <1>3, Recursion
<1>6. h[0] = 0 /\ \A k \in 1 .. m : h[k] = 10 * h[k - 1] + s[k]
  <2>1. h[0] = 0 /\ \A k \in 1 .. m : h[k] = step[<<k, h[k - 1]>>]
    BY <1>5 DEF Computes
  <2>2. \A k \in 1 .. m : k - 1 \in 0 .. m
    BY <1>1
  <2>3. \A k \in 1 .. m : h[k - 1] \in Nat
    BY <2>2
  <2>4. QED BY <1>4, <2>1, <2>3
<1>7. Is(h)
  <2>1. \A k \in 0 .. m : k = 0 \/ k \in 1 .. m
    BY <1>1
  <2>2. \A k \in 0 .. m : h[k] = IF k = 0 THEN 0 ELSE 10 * h[k - 1] + s[k]
    BY <1>6, <2>1
  <2>3. h = [k \in 0 .. m |-> h[k]]
    OBVIOUS
  <2>4. QED BY <2>2, <2>3
<1>8. Is(e)
  BY <1>7
<1> HIDE DEF e
<1>9. e[0] = 0 /\ \A k \in 1 .. m : e[k] = 10 * e[k - 1] + s[k]
  <2>1. 0 \in 0 .. m /\ \A k \in 1 .. m : k \in 0 .. m /\ k # 0
    BY <1>1
  <2>2. QED BY <1>8, <2>1
<1>10. \A k \in Nat : k <= m => e[k] \in Nat
  <2> DEFINE T == {k \in Nat : k <= m => e[k] \in Nat}
  <2>1. 0 \in T
    BY <1>9
  <2>2. ASSUME NEW k \in T PROVE k + 1 \in T
    <3> SUFFICES ASSUME k + 1 <= m PROVE e[k + 1] \in Nat
      OBVIOUS
    <3>1. k + 1 \in 1 .. m /\ (k + 1) - 1 = k /\ k <= m
      BY <1>1
    <3>2. e[k] \in Nat /\ s[k + 1] \in Nat /\ e[k + 1] = 10 * e[k] + s[k + 1]
      BY <1>1, <1>9, <3>1
    <3>3. QED BY <3>2
  <2> HIDE DEF T
  <2>3. T \in SUBSET Nat
    BY DEF T
  <2>4. T = Nat
    BY <2>1, <2>2, <2>3, Induction
  <2>5. QED BY <2>4 DEF T
<1>11. e \in [0 .. m -> Nat]
  <2>1. \A k \in 0 .. m : e[k] \in Nat
    BY <1>1, <1>10
  <2>2. e = [k \in 0 .. m |-> IF k = 0 THEN 0 ELSE 10 * e[k - 1] + s[k]]
    BY <1>8
  <2>3. e = [k \in 0 .. m |-> e[k]]
    BY <2>2
  <2>4. QED BY <2>1, <2>3
<1>12. QED BY <1>2, <1>9, <1>11 DEF m, Sums

\* One digit more.
LEMMA AtouNext ==
  ASSUME NEW s \in Seq(Digit), NEW d \in Digit
  PROVE  atou(s) \in Nat /\ atou(Append(s, d)) = 10 * atou(s) + d
<1> DEFINE r == Append(s, d)
           m == Len(s)
<1>1. /\ m \in Nat /\ r \in Seq(Digit) /\ Len(r) = m + 1 /\ r[m + 1] = d
      /\ \A k \in 1 .. m : r[k] = s[k]
  BY LenProperties, AppendProperties
<1> HIDE DEF r
<1>2. PICK e \in [0 .. m -> Nat] : Sums(e, s) /\ atou(s) = e[m]
  BY AtouSums
<1>3. PICK g \in [0 .. Len(r) -> Nat] : Sums(g, r) /\ atou(r) = g[Len(r)]
  BY <1>1, AtouSums
<1>4. /\ e[0] = 0 /\ \A k \in 1 .. m : e[k] = 10 * e[k - 1] + s[k]
      /\ g[0] = 0 /\ \A k \in 1 .. m + 1 : g[k] = 10 * g[k - 1] + r[k]
  BY <1>1, <1>2, <1>3 DEF Sums
<1>5. \A k \in Nat : k <= m => g[k] = e[k]
  <2> HIDE DEF m
  <2> DEFINE T == {k \in Nat : k <= m => g[k] = e[k]}
  <2>1. 0 \in T
    BY <1>4
  <2>2. ASSUME NEW k \in T PROVE k + 1 \in T
    <3> SUFFICES ASSUME k + 1 <= m PROVE g[k + 1] = e[k + 1]
      OBVIOUS
    <3>1. k + 1 \in 1 .. m /\ k + 1 \in 1 .. m + 1 /\ (k + 1) - 1 = k /\ k <= m
      BY <1>1
    <3>2. g[k] = e[k] /\ r[k + 1] = s[k + 1]
      BY <1>1, <3>1
    <3>3. QED BY <1>4, <3>1, <3>2
  <2> HIDE DEF T
  <2>3. T \in SUBSET Nat
    BY DEF T
  <2>4. T = Nat
    BY <2>1, <2>2, <2>3, Induction
  <2>5. QED BY <2>4 DEF T
<1>6. g[m + 1] = 10 * e[m] + d
  <2>1. m + 1 \in 1 .. m + 1 /\ (m + 1) - 1 = m
    BY <1>1
  <2>2. g[m + 1] = 10 * g[m] + r[m + 1]
    BY <1>4, <2>1
  <2>3. QED BY <1>1, <1>5, <2>2
<1>7. e[m] \in Nat
  BY <1>1
<1>8. QED BY <1>1, <1>2, <1>3, <1>6, <1>7 DEF r

LEMMA NoPort == atou(<<>>) = 0
<1>1. <<>> \in Seq(Digit) /\ Len(<<>>) = 0
  BY EmptySeq
<1>2. PICK e \in [0 .. Len(<<>>) -> Nat] : Sums(e, <<>>) /\ atou(<<>>) = e[Len(<<>>)]
  BY <1>1, AtouSums
<1>3. QED BY <1>1, <1>2 DEF Sums

\* The last digit of a number, and the number without it.
LEMMA LastDigit ==
  ASSUME NEW k \in Nat
  PROVE  /\ k \div 10 \in Nat /\ k % 10 \in Digit
         /\ k = 10 * (k \div 10) + (k % 10)
         /\ k >= 10 => k \div 10 < k
         /\ k < 10 => k \in Digit
<1>1. k \div 10 \in Nat /\ k % 10 \in 0 .. 9 /\ k = 10 * (k \div 10) + (k % 10)
  BY SMT
<1>2. k >= 10 => k \div 10 < k
  BY SMT
<1>3. k < 10 => k \in 0 .. 9
  BY SMT
<1>4. QED BY <1>1, <1>2, <1>3 DEF Digit

\* The digits of the numbers up to m.
Digits(f, m) ==
  \A k \in Nat : k <= m => f[k] = IF k >= 10 THEN Append(f[k \div 10], k % 10) ELSE <<k>>

LEMMA DigitsExist ==
  ASSUME NEW m \in Nat
  PROVE  \E f \in [0 .. m -> Seq(Digit)] : Digits(f, m)
<1> DEFINE T == {x \in Nat : \E f \in [0 .. x -> Seq(Digit)] : Digits(f, x)}
<1>1. 0 \in T
  <2> DEFINE f == [k \in 0 .. 0 |-> <<0>>]
  <2>1. <<0>> \in Seq(Digit)
    BY DEF Digit
  <2>2. f \in [0 .. 0 -> Seq(Digit)] /\ f[0] = <<0>>
    BY <2>1
  <2> HIDE DEF f
  <2>3. \A k \in Nat : k <= 0 => k = 0 /\ ~(k >= 10)
    OBVIOUS
  <2>4. Digits(f, 0)
    BY <2>2, <2>3, Zenon DEF Digits
  <2>5. QED BY <2>2, <2>4
<1>2. ASSUME NEW x \in T PROVE x + 1 \in T
  <2>1. x \in Nat /\ x + 1 \in Nat
    OBVIOUS
  <2>2. PICK f \in [0 .. x -> Seq(Digit)] : Digits(f, x)
    OBVIOUS
  <2> DEFINE q == (x + 1) \div 10
             d == (x + 1) % 10
             e == IF x + 1 >= 10 THEN Append(f[q], d) ELSE <<x + 1>>
             g == [k \in 0 .. x + 1 |-> IF k = x + 1 THEN e ELSE f[k]]
  <2>3. e \in Seq(Digit)
    <3>1. CASE x + 1 >= 10
      <4>1. q \in 0 .. x /\ d \in Digit
        <5>1. q \in Nat /\ d \in Digit /\ q < x + 1
          BY <2>1, <3>1, LastDigit
        <5> HIDE DEF q, d
        <5>2. QED BY <2>1, <5>1
      <4> HIDE DEF q, d
      <4>2. f[q] \in Seq(Digit)
        BY <4>1
      <4> DEFINE w == f[q]
      <4> HIDE DEF w
      <4>3. w \in Seq(Digit)
        BY <4>2 DEF w
      <4>4. Append(w, d) \in Seq(Digit)
        BY <4>1, <4>3, AppendProperties
      <4>5. QED BY <3>1, <4>4 DEF w
    <3>2. CASE ~(x + 1 >= 10)
      <4>1. x + 1 \in Digit
        BY <2>1, <3>2, LastDigit
      <4> DEFINE c == x + 1
      <4> HIDE DEF c
      <4>2. <<c>> \in Seq(Digit)
        BY <4>1 DEF c
      <4>3. QED BY <3>2, <4>2 DEF c
    <3>3. QED BY <3>1, <3>2
  <2> HIDE DEF e
  <2>4. g \in [0 .. x + 1 -> Seq(Digit)]
    <3>1. ASSUME NEW k \in 0 .. x + 1, k # x + 1 PROVE k \in 0 .. x
      BY <2>1, <3>1
    <3>2. QED BY <2>3, <3>1
  <2>5. g[x + 1] = e /\ \A k \in Nat : k <= x => g[k] = f[k]
    BY <2>1
  <2> HIDE DEF g
  <2>6. ASSUME NEW k \in Nat, k <= x + 1
        PROVE  g[k] = IF k >= 10 THEN Append(g[k \div 10], k % 10) ELSE <<k>>
    <3>1. CASE k = x + 1
      <4>1. CASE k >= 10
        <5>1. q \in Nat /\ q <= x
          <6>1. q \in Nat /\ q < x + 1
            BY <2>1, <3>1, <4>1, LastDigit
          <6> HIDE DEF q
          <6>2. QED BY <2>1, <6>1
        <5>2. g[q] = f[q]
          BY <2>5, <5>1
        <5>3. g[k] = Append(f[q], d)
          BY <2>5, <3>1, <4>1, Zenon DEF e
        <5>4. QED BY <3>1, <4>1, <5>2, <5>3, Zenon
      <4>2. CASE ~(k >= 10)
        <5>1. g[k] = <<k>>
          BY <2>5, <3>1, <4>2, Zenon DEF e
        <5>2. QED BY <4>2, <5>1, Zenon
      <4>3. QED BY <4>1, <4>2
    <3>2. CASE k # x + 1
      <4>1. k <= x
        BY <2>1, <2>6, <3>2
      <4>2. f[k] = IF k >= 10 THEN Append(f[k \div 10], k % 10) ELSE <<k>>
        BY <2>2, <4>1 DEF Digits
      <4>3. g[k] = f[k]
        BY <2>5, <4>1
      <4>4. CASE k >= 10
        <5> DEFINE r == k \div 10
        <5>1. r \in Nat /\ r < k
          BY <4>4, LastDigit
        <5> HIDE DEF r
        <5>2. r <= x
          BY <2>1, <4>1, <5>1
        <5>3. g[r] = f[r]
          BY <2>5, <5>1, <5>2
        <5>4. QED BY <4>2, <4>3, <4>4, <5>3, Zenon DEF r
      <4>5. CASE ~(k >= 10)
        BY <4>2, <4>3, <4>5, Zenon
      <4>6. QED BY <4>4, <4>5
    <3>3. QED BY <3>1, <3>2
  <2>7. Digits(g, x + 1)
    BY <2>6, Zenon DEF Digits
  <2>8. QED BY <2>1, <2>4, <2>7
<1>3. T = Nat
  <2> HIDE DEF T
  <2>1. T \in SUBSET Nat
    BY DEF T
  <2>2. QED BY <1>1, <1>2, <2>1, Induction
<1>4. QED BY <1>3

\* So utoa gives the digits it is defined by.
LEMMA UtoaDigits == utoa \in [Port -> Seq(Digit)] /\ Digits(utoa, Shorts - 1)
<1> DEFINE m == Shorts - 1
           Is(f) == f = [x \in Port |-> IF x >= 10 THEN Append(f[x \div 10], x % 10) ELSE <<x>>]
           f == CHOOSE g : Is(g)
<1>1. m \in Nat /\ Port = 0 .. m
  BY SMT DEF Port, Shorts
<1> HIDE DEF m
<1>2. utoa = f
  BY Zenon DEF utoa
<1>3. PICK h \in [0 .. m -> Seq(Digit)] : Digits(h, m)
  BY <1>1, DigitsExist
<1>4. Is(h)
  <2>1. h = [x \in Port |-> h[x]]
    BY <1>1, Zenon
  <2>2. \A x \in Port : x \in Nat /\ x <= m
    BY <1>1
  <2>3. \A x \in Port : h[x] = IF x >= 10 THEN Append(h[x \div 10], x % 10) ELSE <<x>>
    BY <1>3, <2>2, Zenon DEF Digits
  <2>4. QED BY <2>1, <2>3, Zenon
<1>5. Is(f)
  BY <1>4, Zenon
<1> HIDE DEF f
<1>6. \A x \in Nat : x <= m => x \in Port
  BY <1>1
<1>7. \A x \in Port : f[x] = IF x >= 10 THEN Append(f[x \div 10], x % 10) ELSE <<x>>
  BY <1>5, Zenon
<1>8. Digits(f, m)
  BY <1>6, <1>7, Zenon DEF Digits
<1>9. \A k \in Nat : k <= m => f[k] = h[k]
  <2> DEFINE T == {k \in Nat : k <= m /\ f[k] # h[k]}
  <2>1. SUFFICES ASSUME T # {} PROVE FALSE
    OBVIOUS
  <2>2. PICK k \in T : \A j \in T : k <= j
    BY <2>1, LeastNumber
  <2>3. k \in Nat /\ k <= m /\ f[k] # h[k]
    OBVIOUS
  <2>4. CASE k >= 10
    <3> DEFINE r == k \div 10
    <3>1. r \in Nat /\ r < k
      BY <2>3, <2>4, LastDigit
    <3> HIDE DEF r
    <3>2. f[r] = h[r]
      BY <1>1, <2>2, <2>3, <3>1
    <3>3. f[k] = Append(f[r], k % 10) /\ h[k] = Append(h[r], k % 10)
      BY <1>3, <1>8, <2>3, <2>4, Zenon DEF Digits, r
    <3>4. QED BY <2>3, <3>2, <3>3, Zenon
  <2>5. CASE ~(k >= 10)
    BY <1>3, <1>8, <2>3, <2>5, Zenon DEF Digits
  <2>6. QED BY <2>4, <2>5
<1>10. f \in [Port -> Seq(Digit)]
  <2>1. \A x \in Port : x \in Nat /\ x <= m /\ x \in 0 .. m
    BY <1>1
  <2>2. \A x \in Port : f[x] = h[x]
    BY <1>9, <2>1
  <2>3. \A x \in Port : f[x] \in Seq(Digit)
    BY <2>1, <2>2
  <2>4. \E w : f = [x \in Port |-> w[x]]
    <3> DEFINE w == [x \in Port |-> IF x >= 10 THEN Append(f[x \div 10], x % 10) ELSE <<x>>]
    <3>1. f = w
      BY <1>5, Zenon
    <3> HIDE DEF w
    <3>2. w = [x \in Port |-> w[x]]
      BY Zenon DEF w
    <3>3. QED BY <3>1, <3>2, Zenon
  <2>5. PICK w : f = [x \in Port |-> w[x]]
    BY <2>4
  <2>6. \A x \in Port : w[x] \in Seq(Digit)
    BY <2>3, <2>5
  <2>7. QED BY <2>5, <2>6, Zenon
<1>11. QED BY <1>2, <1>8, <1>10 DEF m

\* Each port is read as it was written: atou gives back the number whose digits
\* utoa makes.  This is what a saved port rests on, from writeConfiguration to
\* readConfiguration.
THEOREM PortsSurvive == \A p \in Port : utoa[p] \in Seq(0 .. 9) /\ atou(utoa[p]) = p
<1> DEFINE m == Shorts - 1
           T == {k \in Nat : k <= m /\ atou(utoa[k]) # k}
<1>1. m \in Nat /\ Port = 0 .. m
  BY SMT DEF Port, Shorts
<1>2. utoa \in [Port -> Seq(Digit)] /\ Digits(utoa, m)
  BY UtoaDigits
<1> HIDE DEF m
<1>3. ASSUME T # {} PROVE FALSE
  <2>1. PICK k \in T : \A j \in T : k <= j
    BY <1>3, LeastNumber
  <2>2. k \in Nat /\ k <= m /\ atou(utoa[k]) # k
    OBVIOUS
  <2>3. CASE k >= 10
    <3> DEFINE r == k \div 10
               d == k % 10
               s == utoa[r]
    <3>1. r \in Nat /\ r < k /\ d \in Digit /\ k = 10 * r + d
      BY <2>2, <2>3, LastDigit
    <3>2. utoa[k] = Append(s, d)
      BY <1>2, <2>2, <2>3, Zenon DEF Digits
    <3> HIDE DEF r, d
    <3>3. r \in Port /\ r <= m
      BY <1>1, <2>2, <3>1
    <3>4. atou(s) = r
      <4>1. r \notin T
        BY <2>1, <2>2, <3>1
      <4>2. QED BY <3>1, <3>3, <4>1
    <3>5. s \in Seq(Digit)
      BY <1>2, <3>3
    <3> HIDE DEF s
    <3>6. atou(utoa[k]) = 10 * r + d
      BY <3>1, <3>2, <3>4, <3>5, AtouNext, Zenon
    <3>7. QED BY <2>2, <3>1, <3>6
  <2>4. CASE ~(k >= 10)
    <3>1. utoa[k] = <<k>> /\ k \in Digit
      <4>1. utoa[k] = <<k>>
        BY <1>2, <2>2, <2>4, Zenon DEF Digits
      <4>2. QED BY <2>2, <2>4, <4>1, LastDigit
    <3>2. <<>> \in Seq(Digit) /\ <<k>> = Append(<<>>, k)
      BY EmptySeq
    <3>3. atou(utoa[k]) = 10 * atou(<<>>) + k
      BY <3>1, <3>2, AtouNext, Zenon
    <3>4. QED BY <2>2, <3>3, NoPort
  <2>5. QED BY <2>3, <2>4
<1>4. \A p \in Port : p \in Nat /\ p <= m
  BY <1>1
<1>5. \A p \in Port : atou(utoa[p]) = p
  BY <1>3, <1>4
<1>6. QED BY <1>2, <1>5 DEF Digit

-----------------------------------------------------------------------------
\* The entry behind the last slot the user can fill is never written, and the
\* digits in the file are those of a port.
EndsInFile == fUrl[MaxClients + 1] = Empty

PortsWritten == \A i \in Slots : fPort[i] = <<>> \/ \E p \in Port : fPort[i] = utoa[p]

\* Where a save is.
Place ==
  /\ pc \in {"url", "port"} => n \in 1 .. Len(clients)
  /\ pc = "extra" => n > Len(clients)

LastFits == Len(last) <= MaxClients

TypeInv == TypeOK /\ EndsInFile /\ PortsWritten /\ Place /\ LastFits

\* What is read from the file are its first entries, up to the first gap.
LEMMA FirstEntries ==
  ASSUME TypeInv, ConfigAssumption
  PROVE  \E k \in 0 .. MaxClients :
           Listed = 1 .. k /\ \A i \in 1 .. k : fUrl[i] \in Url
<1> DEFINE T == {i \in Slots : fUrl[i] = Empty}
<1>1. MaxClients \in Nat /\ Slots = 1 .. MaxClients + 1
  BY DEF ConfigAssumption, Slots
<1>2. fUrl \in [Slots -> Url \cup {Empty}] /\ fUrl[MaxClients + 1] = Empty
  BY DEF TypeInv, TypeOK, EndsInFile
<1>3. MaxClients + 1 \in Slots
  BY <1>1
<1>4. T \in SUBSET Nat /\ T # {}
  <2>1. \A i \in Slots : i \in Nat
    BY <1>1
  <2>2. MaxClients + 1 \in T
    BY <1>2, <1>3
  <2>3. QED BY <2>1, <2>2
<1>5. PICK x \in T : \A y \in T : x <= y
  BY <1>4, LeastNumber
<1>6. x \in 1 .. MaxClients + 1 /\ fUrl[x] = Empty
  BY <1>1, <1>5
<1>7. \A i \in Slots : i < x => fUrl[i] # Empty
  BY <1>1, <1>5, <1>6
<1> HIDE DEF T
<1>8. Listed = 1 .. x - 1
  <2>1. ASSUME NEW i \in Listed PROVE i \in 1 .. x - 1
    <3>1. i \in Slots /\ \A j \in 1 .. i : fUrl[j] # Empty
      BY DEF Listed
    <3>2. x \notin 1 .. i
      BY <1>6, <3>1
    <3>3. QED BY <1>1, <1>6, <3>1, <3>2
  <2>2. ASSUME NEW i \in 1 .. x - 1 PROVE i \in Listed
    <3>1. i \in Slots /\ \A j \in 1 .. i : j \in Slots /\ j < x
      BY <1>1, <1>6
    <3>2. QED BY <1>7, <3>1 DEF Listed
  <2>3. QED BY <2>1, <2>2
<1>9. x - 1 \in 0 .. MaxClients
  BY <1>1, <1>6
<1>10. \A i \in 1 .. x - 1 : i \in Slots /\ i < x
  BY <1>1, <1>6
<1>11. QED BY <1>2, <1>7, <1>8, <1>9, <1>10

LEMMA LowBits == ASSUME NEW t \in Nat PROVE t % Shorts \in Port
<1>1. Shorts \in Nat /\ Shorts > 0
  BY SMT DEF Shorts
<1> HIDE DEF Shorts
<1>2. QED BY <1>1 DEF Port

LEMMA PortsRead ==
  ASSUME TypeInv, NEW i \in Slots
  PROVE  atou(fPort[i]) \in Port
<1>1. fPort[i] = <<>> \/ \E p \in Port : fPort[i] = utoa[p]
  BY DEF TypeInv, PortsWritten
<1>2. 0 \in Port
  BY SMT DEF Port, Shorts
<1>3. CASE fPort[i] = <<>>
  BY <1>2, <1>3, NoPort
<1>4. ASSUME NEW p \in Port, fPort[i] = utoa[p] PROVE atou(fPort[i]) \in Port
  BY <1>4, PortsSurvive
<1>5. QED BY <1>1, <1>3, <1>4

LEMMA OnFileType ==
  ASSUME TypeInv, ConfigAssumption
  PROVE  /\ OnFile \in Seq([url : Url, port : Port])
         /\ DOMAIN OnFile = Listed
         /\ Len(OnFile) <= MaxClients
         /\ \A i \in Listed : OnFile[i] = [url |-> fUrl[i], port |-> atou(fPort[i])]
<1>1. PICK k \in 0 .. MaxClients :
        Listed = 1 .. k /\ \A i \in 1 .. k : fUrl[i] \in Url
  BY FirstEntries
<1>2. \A i \in Listed : i \in Slots
  BY DEF Listed
<1>3. OnFile \in [1 .. k -> [url : Url, port : Port]]
  BY <1>1, <1>2, PortsRead DEF OnFile
<1>4. k \in Nat /\ MaxClients \in Nat
  BY <1>1 DEF ConfigAssumption
<1>5. OnFile \in Seq([url : Url, port : Port]) /\ Len(OnFile) = k
  <2> DEFINE S == [url : Url, port : Port]
  <2>1. OnFile \in [1 .. k -> S]
    BY <1>3
  <2> HIDE DEF S
  <2>2. OnFile \in Seq(S)
    BY <1>4, <2>1
  <2>3. Len(OnFile) \in Nat /\ DOMAIN OnFile = 1 .. Len(OnFile)
    BY <2>2, LenProperties
  <2>4. 1 .. Len(OnFile) = 1 .. k
    BY <2>1, <2>3
  <2>5. Len(OnFile) = k
    BY <1>4, <2>3, <2>4, SameEnd
  <2>6. QED BY <2>2, <2>5 DEF S
<1>6. /\ DOMAIN OnFile = Listed
      /\ \A i \in Listed : OnFile[i] = [url |-> fUrl[i], port |-> atou(fPort[i])]
  BY DEF OnFile
<1>7. k <= MaxClients
  BY <1>1, <1>4
<1>8. QED BY <1>5, <1>6, <1>7

\* The two lists, as the steps below use them.
LEMMA Lists ==
  ASSUME TypeInv, ConfigAssumption
  PROVE  /\ MaxClients \in Nat /\ Slots = 1 .. MaxClients + 1
         /\ Len(clients) \in 0 .. MaxClients /\ DOMAIN clients = 1 .. Len(clients)
         /\ \A i \in DOMAIN clients :
              i \in Slots /\ clients[i].url \in Url \cup {Empty} /\ clients[i].port \in Port
         /\ \A i \in DOMAIN clients :
              clients[i] = [url |-> clients[i].url, port |-> clients[i].port]
         /\ Len(last) \in 0 .. MaxClients /\ DOMAIN last = 1 .. Len(last)
         /\ \A i \in DOMAIN last :
              i \in Slots /\ last[i].url \in Url /\ last[i].port \in Port
         /\ \A i \in DOMAIN last : last[i] = [url |-> last[i].url, port |-> last[i].port]
<1>1. MaxClients \in Nat /\ Slots = 1 .. MaxClients + 1
  BY DEF ConfigAssumption, Slots
<1>2. clients \in Seq(Client) /\ Len(clients) <= MaxClients /\ Len(last) <= MaxClients
  BY DEF TypeInv, TypeOK, LastFits
<1>3. last \in Seq([url : Url, port : Port])
  BY DEF TypeInv, TypeOK
<1>4. Len(clients) \in Nat /\ DOMAIN clients = 1 .. Len(clients)
  BY <1>2, LenProperties
<1>5. Len(last) \in Nat /\ DOMAIN last = 1 .. Len(last)
  BY <1>3, LenProperties
<1>6. \A i \in DOMAIN clients : clients[i] \in [url : Url \cup {Empty}, port : Port]
  BY <1>2, <1>4, ElementOfSeq DEF Client
<1>7. \A i \in DOMAIN last : last[i] \in [url : Url, port : Port]
  BY <1>3, <1>5, ElementOfSeq
<1>8. Len(clients) \in 0 .. MaxClients /\ Len(last) \in 0 .. MaxClients
  BY <1>1, <1>2, <1>4, <1>5
<1>9. \A i \in 1 .. Len(clients) : i \in Slots
  BY <1>1, <1>8
<1>10. \A i \in 1 .. Len(last) : i \in Slots
  BY <1>1, <1>8
<1> HIDE DEF Slots
<1>11. \A i \in DOMAIN clients :
         clients[i].url \in Url \cup {Empty} /\ clients[i].port \in Port
         /\ clients[i] = [url |-> clients[i].url, port |-> clients[i].port]
  BY <1>6
<1>12. \A i \in DOMAIN last :
         last[i].url \in Url /\ last[i].port \in Port
         /\ last[i] = [url |-> last[i].url, port |-> last[i].port]
  BY <1>7
<1>13. QED BY <1>1, <1>4, <1>5, <1>8, <1>9, <1>10, <1>11, <1>12

\* Every state is of its type, and TypeInv is inductive (config.cpp:67-107).
LEMMA TypeStep ==
  ASSUME TypeInv, ConfigAssumption, [Next]_vars
  PROVE  TypeInv'
<1> USE DEF TypeInv, TypeOK, EndsInFile, PortsWritten, Place, LastFits
<1>1. MaxClients \in Nat /\ Slots = 1 .. MaxClients + 1
  BY DEF ConfigAssumption, Slots
<1>2. Len(clients) \in 0 .. MaxClients /\ DOMAIN clients = 1 .. Len(clients)
  BY Lists
<1>3. \A c \in Entered : c \in Client
  <2> DEFINE P == {t % Shorts : t \in Typed}
  <2>1. P \subseteq Port
    BY LowBits DEF ConfigAssumption
  <2>2. Entered = [url : Url \cup {Empty}, port : P]
    BY DEF Entered
  <2> HIDE DEF P
  <2>3. QED BY <2>1, <2>2 DEF Client
<1>4. CASE Start
  <2>1. OnFile \in Seq(Client)
    <3>1. OnFile \in Seq([url : Url, port : Port]) /\ Len(OnFile) <= MaxClients
      BY OnFileType
    <3>2. \A i \in 1 .. Len(OnFile) : OnFile[i] \in Client
      <4>1. \A i \in 1 .. Len(OnFile) : OnFile[i] \in [url : Url, port : Port]
        BY <3>1, ElementOfSeq
      <4>2. QED BY <4>1 DEF Client
    <3>3. QED BY <3>1, <3>2, SeqDef, LenProperties
  <2>2. Len(OnFile) <= MaxClients
    BY OnFileType
  <2>3. QED BY <1>4, <2>1, <2>2 DEF Start
<1>5. CASE End
  <2>1. <<>> \in Seq(Client) /\ <<>> \in Seq([url : Url, port : Port]) /\ Len(<<>>) = 0
    BY EmptySeq
  <2>2. {hid, cut, blank}' \subseteq BOOLEAN
    BY <1>5 DEF End
  <2>3. clients' = <<>> /\ last' = <<>> /\ pc' = "off" /\ n' = 0 /\ UNCHANGED <<fUrl, fPort>>
    BY <1>5 DEF End
  <2>4. QED BY <1>1, <2>1, <2>2, <2>3
<1>6. ASSUME NEW c \in Entered, Add(c) PROVE TypeInv'
  <2>1. Append(clients, c) \in Seq(Client) /\ Len(Append(clients, c)) = Len(clients) + 1
    BY <1>3, AppendProperties
  <2>2. Len(clients) + 1 <= MaxClients
    BY <1>1, <1>2, <1>6 DEF Add
  <2>3. QED BY <1>6, <2>1, <2>2 DEF Add
<1>7. ASSUME NEW c \in Entered, NEW i \in DOMAIN clients, Edit(i, c) PROVE TypeInv'
  <2>1. [clients EXCEPT ![i] = c] \in Seq(Client)
        /\ Len([clients EXCEPT ![i] = c]) = Len(clients)
    BY <1>2, <1>3, ExceptSeq
  <2>2. QED BY <1>7, <2>1 DEF Edit
<1>8. ASSUME NEW i \in DOMAIN clients, Remove(i) PROVE TypeInv'
  <2> DEFINE t == SubSeq(clients, 1, i - 1) \o SubSeq(clients, i + 1, Len(clients))
  <2>1. t \in Seq(Client) /\ Len(t) <= Len(clients)
    BY <1>2, WithoutOne
  <2>2. Len(t) \in Nat
    BY <2>1, LenProperties
  <2> HIDE DEF t
  <2>3. Len(t) <= MaxClients
    BY <1>1, <1>2, <2>1, <2>2
  <2>4. clients' = t /\ pc' = "idle" /\ UNCHANGED <<fUrl, fPort, n, last, hid, cut, blank>>
    BY <1>8 DEF Remove, t
  <2>5. QED BY <2>1, <2>3, <2>4
<1>9. CASE Save
  <2>1. OnFile \in Seq([url : Url, port : Port]) /\ Len(OnFile) <= MaxClients
    BY OnFileType
  <2>2. n' = 1 /\ pc' = IF 1 <= Len(clients) THEN "url" ELSE "extra"
    BY <1>9 DEF Save, Goto
  <2>3. {hid, cut, blank}' \subseteq BOOLEAN
    BY <1>9 DEF Save, Hidden
  <2>4. QED BY <1>1, <1>2, <1>9, <2>1, <2>2, <2>3 DEF Save
<1>10. CASE WriteUrl
  <2>1. n \in 1 .. Len(clients) /\ n \in Slots /\ n # MaxClients + 1
    BY <1>1, <1>2, <1>10 DEF WriteUrl
  <2>2. clients[n].url \in Url \cup {Empty}
    BY <1>2, <2>1, Lists
  <2>3. QED BY <1>1, <1>2, <1>10, <2>1, <2>2 DEF WriteUrl
<1>11. CASE WritePort
  <2>1. n \in 1 .. Len(clients) /\ n \in Slots
    BY <1>1, <1>2, <1>11 DEF WritePort
  <2>2. clients[n].port \in Port
    BY <1>2, <2>1, Lists
  <2>3. utoa[clients[n].port] \in Seq(0 .. 9)
    BY <2>2, PortsSurvive
  <2>4. fPort' = [fPort EXCEPT ![n] = utoa[clients[n].port]]
    BY <1>11 DEF WritePort
  <2>5. fPort' \in [Slots -> Seq(0 .. 9)]
    BY <2>1, <2>3, <2>4
  <2>6. PortsWritten'
    BY <2>1, <2>2, <2>4
  <2>7. n' = n + 1 /\ pc' = IF n + 1 <= Len(clients) THEN "url" ELSE "extra"
    BY <1>11 DEF WritePort, Goto
  <2>8. n' \in 0 .. MaxClients + 2 /\ Place'
    BY <1>1, <1>2, <1>11, <2>1, <2>7 DEF WritePort
  <2>9. QED BY <1>11, <2>5, <2>6, <2>7, <2>8 DEF WritePort
<1>12. CASE RemoveExtra
  BY <1>1, <1>2, <1>12 DEF RemoveExtra
<1>13. CASE Saved
  <2>1. <<>> \in Seq([url : Url, port : Port]) /\ Len(<<>>) = 0
    BY EmptySeq
  <2>2. {hid, cut, blank}' \subseteq BOOLEAN
    BY <1>13 DEF Saved
  <2>3. pc' = "idle" /\ n' = 0 /\ last' = <<>> /\ UNCHANGED <<clients, fUrl, fPort>>
    BY <1>13 DEF Saved
  <2>4. QED BY <1>1, <2>1, <2>2, <2>3
<1>14. CASE UNCHANGED vars
  BY <1>14 DEF vars
<1>15. QED
  BY <1>4, <1>5, <1>6, <1>7, <1>8, <1>9, <1>10, <1>11, <1>12, <1>13, <1>14 DEF Next
-----------------------------------------------------------------------------
\* What a save writes behind what it has written, and what it still has to.
Saving == pc \in {"url", "port", "extra"}

\* Clients the save is past are on file as the user has them.
Written ==
  Saving => \A i \in DOMAIN clients : i < n =>
              fUrl[i] = clients[i].url /\ atou(fPort[i]) = clients[i].port

Current == pc = "port" => fUrl[n] = clients[n].url

Removed == pc = "extra" => \A i \in Slots : Len(clients) < i /\ i < n => fUrl[i] = Empty

\* Entries the save has not come to are those of the list it began with.
Untouched ==
  Saving /\ ~hid => \A i \in Slots : i >= n /\ ~(i = n /\ pc = "port") =>
    IF i \in DOMAIN last THEN fUrl[i] = last[i].url /\ atou(fPort[i]) = last[i].port
    ELSE fUrl[i] = Empty

NoBlank == Saving /\ ~blank => \A i \in DOMAIN clients : clients[i].url # Empty

HidReason == Saving /\ hid => cut \/ blank

SaveInv ==
  /\ Written /\ Current /\ Removed /\ Untouched
  /\ NoBlank /\ HidReason /\ HiddenForAReason

\* A save that ends has hidden nothing.
LEMMA NothingHidden ==
  ASSUME TypeInv, ConfigAssumption, SaveInv, Saved, ~cut, ~blank
  PROVE  ~Hidden
<1>1. pc = "extra" /\ (n \in Slots => fUrl[n] = Empty) /\ n > Len(clients) /\ n \in Nat
  BY DEF Saved, TypeInv, TypeOK, Place
<1>2. Saving /\ ~hid
  BY <1>1 DEF SaveInv, HidReason, Saving
<1>3. SUFFICES ASSUME NEW i \in Slots, i \notin Listed, fUrl[i] # Empty PROVE FALSE
  BY DEF Hidden
<1>4. /\ Slots = 1 .. MaxClients + 1 /\ MaxClients \in Nat
      /\ DOMAIN clients = 1 .. Len(clients) /\ Len(clients) \in Nat
      /\ DOMAIN last = 1 .. Len(last) /\ Len(last) \in Nat
      /\ \A j \in DOMAIN last : last[j].url # Empty
  BY Lists DEF ConfigAssumption
<1>5. \A j \in DOMAIN clients : fUrl[j] # Empty
  <2>1. \A j \in DOMAIN clients : j < n
    BY <1>1, <1>4
  <2>2. QED BY <1>2, <2>1 DEF SaveInv, Written, NoBlank
<1>6. CASE i \in DOMAIN clients
  <2>1. \A j \in 1 .. i : j \in DOMAIN clients
    BY <1>4, <1>6
  <2>2. QED BY <1>3, <1>5, <2>1 DEF Listed
<1>7. CASE i \notin DOMAIN clients /\ i < n
  <2>1. Len(clients) < i
    BY <1>4, <1>7
  <2>2. QED BY <1>1, <1>3, <1>7, <2>1 DEF SaveInv, Removed
<1>8. CASE i >= n
  <2>1. n \in Slots
    BY <1>1, <1>4, <1>8
  <2>2. n \notin DOMAIN last
    BY <1>1, <1>2, <1>4, <2>1 DEF SaveInv, Untouched
  <2>3. i \notin DOMAIN last
    BY <1>1, <1>4, <1>8, <2>1, <2>2
  <2>4. QED BY <1>1, <1>2, <1>3, <1>8, <2>3 DEF SaveInv, Untouched
<1>9. QED BY <1>1, <1>4, <1>6, <1>7, <1>8

LEMMA SaveStep ==
  ASSUME TypeInv, TypeInv', ConfigAssumption, SaveInv, [Next]_vars
  PROVE  SaveInv'
<1> USE DEF SaveInv, Written, Current, Removed, Untouched, NoBlank, HidReason, Saving
<1>1. /\ Slots = 1 .. MaxClients + 1 /\ MaxClients \in Nat
      /\ DOMAIN clients = 1 .. Len(clients) /\ Len(clients) \in 0 .. MaxClients
      /\ \A i \in DOMAIN clients : i \in Slots
  BY Lists DEF ConfigAssumption
<1>2. /\ n \in Nat /\ (pc \in {"url", "port"} => n \in 1 .. Len(clients))
      /\ (pc = "extra" => n > Len(clients))
      /\ fUrl \in [Slots -> Url \cup {Empty}] /\ fPort \in [Slots -> Seq(0 .. 9)]
  BY DEF TypeInv, TypeOK, Place
<1>3. CASE Start
  BY <1>3 DEF Start, HiddenForAReason, Hidden, Listed
<1>4. CASE End
  <2>1. pc' = "off" /\ cut' = (cut \/ pc # "idle") /\ UNCHANGED <<fUrl, blank>> /\ pc # "off"
    BY <1>4 DEF End
  <2>2. Hidden' = Hidden
    BY <2>1 DEF Hidden, Listed
  <2>3. QED BY <2>1, <2>2 DEF HiddenForAReason
<1>5. ASSUME NEW c \in Entered, Add(c) PROVE SaveInv'
  BY <1>5 DEF Add, HiddenForAReason, Hidden, Listed
<1>6. ASSUME NEW c \in Entered, NEW i \in DOMAIN clients, Edit(i, c) PROVE SaveInv'
  BY <1>6 DEF Edit, HiddenForAReason, Hidden, Listed
<1>7. ASSUME NEW i \in DOMAIN clients, Remove(i) PROVE SaveInv'
  <2>1. pc = "idle" /\ pc' = "idle" /\ UNCHANGED <<fUrl, cut, blank>>
    BY <1>7 DEF Remove
  <2>2. QED BY <2>1 DEF HiddenForAReason, Hidden, Listed
<1>8. CASE Save
  <2>1. /\ pc = "idle" /\ n' = 1 /\ pc' \in {"url", "extra"}
        /\ UNCHANGED <<clients, fUrl, fPort, cut>> /\ last' = OnFile /\ hid' = Hidden
        /\ blank' = (blank \/ \E i \in DOMAIN clients : clients[i].url = Empty)
    BY <1>8 DEF Save, Goto
  <2>2. HiddenForAReason' /\ HidReason'
    BY <2>1 DEF HiddenForAReason
  <2>3. Written' /\ Current'
    BY <1>1, <2>1
  <2>4. Removed'
    BY <1>1, <2>1
  <2>5. NoBlank'
    BY <2>1
  <2>6. Untouched'
    <3>0. DOMAIN OnFile = Listed
          /\ \A i \in Listed : OnFile[i].url = fUrl[i] /\ OnFile[i].port = atou(fPort[i])
      <4>1. /\ DOMAIN OnFile = Listed
            /\ \A i \in Listed : OnFile[i] = [url |-> fUrl[i], port |-> atou(fPort[i])]
        BY OnFileType
      <4>2. QED BY <4>1
    <3>1. DOMAIN last' = Listed
          /\ \A i \in Listed : last'[i].url = fUrl[i] /\ last'[i].port = atou(fPort[i])
      BY <2>1, <3>0
    <3>2. ~hid' => \A i \in Slots \ Listed : fUrl[i] = Empty
      BY <2>1 DEF Hidden
    <3>3. QED BY <2>1, <3>1, <3>2
  <2>7. QED BY <2>2, <2>3, <2>4, <2>5, <2>6
<1>9. CASE WriteUrl
  <2>1. /\ pc = "url" /\ pc' = "port" /\ UNCHANGED <<clients, fPort, n, last, hid, cut, blank>>
        /\ fUrl' = [fUrl EXCEPT ![n] = clients[n].url]
    BY <1>9 DEF WriteUrl
  <2>2. n \in Slots /\ n \in DOMAIN clients
    BY <1>1, <1>2, <2>1
  <2>3. fUrl'[n] = clients[n].url /\ \A i \in Slots \ {n} : fUrl'[i] = fUrl[i]
    BY <1>2, <2>1, <2>2
  <2>4. Written'
    <3>1. \A i \in DOMAIN clients : i < n => i \in Slots \ {n}
      BY <1>1, <1>2
    <3>2. QED BY <2>1, <2>3, <3>1
  <2>5. Untouched'
    BY <2>1, <2>3
  <2>6. QED BY <2>1, <2>3, <2>4, <2>5 DEF HiddenForAReason
<1>10. CASE WritePort
  <2>1. /\ pc = "port" /\ pc' \in {"url", "extra"} /\ n' = n + 1
        /\ UNCHANGED <<clients, fUrl, last, hid, cut, blank>>
        /\ fPort' = [fPort EXCEPT ![n] = utoa[clients[n].port]]
    BY <1>10 DEF WritePort, Goto
  <2>2. n \in Slots /\ n \in DOMAIN clients
    BY <1>1, <1>2, <2>1
  <2>3. fPort'[n] = utoa[clients[n].port] /\ \A i \in Slots \ {n} : fPort'[i] = fPort[i]
    BY <1>2, <2>1, <2>2
  <2>4. atou(fPort'[n]) = clients[n].port
    BY <2>2, <2>3, Lists, PortsSurvive
  <2>5. Written'
    <3>1. \A i \in DOMAIN clients : i < n + 1 => i = n \/ (i \in Slots \ {n} /\ i < n)
      BY <1>1, <1>2
    <3>2. QED BY <2>1, <2>3, <2>4, <3>1
  <2>6. Untouched'
    <3>1. \A i \in Slots : i >= n + 1 => i \in Slots \ {n} /\ i >= n /\ i # n
      BY <1>1, <1>2
    <3>2. QED BY <2>1, <2>3, <3>1
  <2>7. Removed'
    <3>1. pc' = "extra" => ~(n + 1 <= Len(clients))
      BY <1>10 DEF WritePort, Goto
    <3>2. pc' = "extra" => \A i \in Slots : ~(Len(clients) < i /\ i < n + 1)
      BY <1>1, <1>2, <2>1, <3>1
    <3>3. QED BY <2>1, <3>2
  <2>8. QED BY <2>1, <2>5, <2>6, <2>7 DEF HiddenForAReason
<1>11. CASE RemoveExtra
  <2>1. /\ pc = "extra" /\ pc' = "extra" /\ n \in Slots /\ n' = n + 1
        /\ UNCHANGED <<clients, fPort, last, hid, cut, blank>>
        /\ fUrl' = [fUrl EXCEPT ![n] = Empty]
    BY <1>11 DEF RemoveExtra
  <2>2. fUrl'[n] = Empty /\ \A i \in Slots \ {n} : fUrl'[i] = fUrl[i]
    BY <1>2, <2>1
  <2>3. \A i \in DOMAIN clients : i < n /\ i \in Slots \ {n}
    BY <1>1, <1>2, <2>1
  <2>4. \A i \in Slots : i < n + 1 => i = n \/ (i \in Slots \ {n} /\ i < n)
    BY <1>1, <1>2
  <2>5. \A i \in Slots : i >= n + 1 => i \in Slots \ {n} /\ i >= n
    BY <1>1, <1>2
  <2>6. Written'
    BY <2>1, <2>2, <2>3
  <2>7. Removed'
    BY <2>1, <2>2, <2>4
  <2>8. Untouched'
    BY <2>1, <2>2, <2>5
  <2>9. QED BY <2>1, <2>6, <2>7, <2>8 DEF HiddenForAReason
<1>12. CASE Saved
  <2>1. pc' = "idle" /\ UNCHANGED <<fUrl, cut, blank>>
    BY <1>12 DEF Saved
  <2>2. Hidden' = Hidden
    BY <2>1 DEF Hidden, Listed
  <2>3. QED BY <1>12, <2>1, <2>2, NothingHidden DEF HiddenForAReason
<1>13. CASE UNCHANGED vars
  BY <1>13 DEF vars, HiddenForAReason, Hidden, Listed
<1>14. QED
  BY <1>3, <1>4, <1>5, <1>6, <1>7, <1>8, <1>9, <1>10, <1>11, <1>12, <1>13 DEF Next

\* A client whose entry was written is on file as the user has it.
LEMMA ReadBack ==
  ASSUME TypeInv, ConfigAssumption, SaveInv, Saving,
         NEW i \in Listed, i \in DOMAIN clients, i < n
  PROVE  OnFile[i] = clients[i]
<1>1. OnFile[i] = [url |-> fUrl[i], port |-> atou(fPort[i])]
  BY OnFileType
<1>2. clients[i] = [url |-> clients[i].url, port |-> clients[i].port]
  BY Lists
<1>3. QED BY <1>1, <1>2 DEF SaveInv, Written

LEMMA TearsOne ==
  ASSUME TypeInv, ConfigAssumption, SaveInv
  PROVE  CrashTearsOne
<1> SUFFICES ASSUME Saving, ~hid
             PROVE  CrashTearsOne
  BY DEF CrashTearsOne, Saving
<1>1. /\ Slots = 1 .. MaxClients + 1 /\ MaxClients \in Nat
      /\ DOMAIN clients = 1 .. Len(clients) /\ Len(clients) \in 0 .. MaxClients
      /\ DOMAIN last = 1 .. Len(last) /\ Len(last) \in 0 .. MaxClients
      /\ \A i \in DOMAIN clients : i \in Slots
      /\ \A i \in DOMAIN last : i \in Slots /\ last[i].url # Empty
      /\ \A i \in DOMAIN last : last[i] = [url |-> last[i].url, port |-> last[i].port]
  BY Lists DEF ConfigAssumption
<1>2. /\ n \in Nat /\ (pc \in {"url", "port"} => n \in 1 .. Len(clients))
      /\ (pc = "extra" => n > Len(clients)) /\ pc \in {"url", "port", "extra"}
  BY DEF TypeInv, TypeOK, Place, Saving
<1>3. ASSUME NEW i \in Listed
      PROVE  \/ i < n /\ i \in DOMAIN clients /\ OnFile[i] = clients[i]
             \/ i >= n /\ i \in DOMAIN last /\ OnFile[i] = last[i]
             \/ i = n /\ pc = "port" /\ fUrl[i] = clients[i].url
  <2>1. i \in Slots /\ i \in Nat /\ i \in 1 .. i /\ fUrl[i] # Empty
    <3>1. i \in Slots /\ \A j \in 1 .. i : fUrl[j] # Empty
      BY DEF Listed
    <3>2. i \in Nat /\ i \in 1 .. i
      BY <1>1, <3>1
    <3>3. QED BY <3>1, <3>2
  <2>2. CASE i < n
    <3>1. i \in DOMAIN clients
      <4>1. CASE pc = "extra"
        <5>1. ~(Len(clients) < i)
          BY <2>1, <2>2, <4>1 DEF SaveInv, Removed
        <5>2. QED BY <1>1, <2>1, <5>1
      <4>2. CASE pc \in {"url", "port"}
        BY <1>1, <1>2, <2>1, <2>2, <4>2
      <4>3. QED BY <1>2, <4>1, <4>2
    <3>2. QED BY <2>2, <3>1, ReadBack
  <2>3. CASE i >= n /\ ~(i = n /\ pc = "port")
    <3>1. /\ i \in DOMAIN last
          /\ fUrl[i] = last[i].url /\ atou(fPort[i]) = last[i].port
      BY <2>1, <2>3 DEF SaveInv, Untouched
    <3>2. OnFile[i] = [url |-> fUrl[i], port |-> atou(fPort[i])]
      BY OnFileType
    <3>3. OnFile[i] = last[i]
      BY <1>1, <3>1, <3>2
    <3>4. QED BY <2>3, <3>1, <3>3
  <2>4. CASE i = n /\ pc = "port"
    BY <2>4 DEF SaveInv, Current
  <2>5. QED BY <1>2, <2>1, <2>2, <2>3, <2>4
<1>4. ASSUME ~blank, pc = "extra" PROVE DOMAIN clients \subseteq Listed
  <2>1. \A i \in DOMAIN clients : fUrl[i] # Empty /\ \A j \in 1 .. i : j \in DOMAIN clients
    <3>1. \A i \in DOMAIN clients : i < n
      BY <1>1, <1>2, <1>4
    <3>2. \A i \in DOMAIN clients : fUrl[i] # Empty
      BY <1>4, <3>1 DEF SaveInv, Written, NoBlank
    <3>3. \A i \in DOMAIN clients : \A j \in 1 .. i : j \in DOMAIN clients
      BY <1>1
    <3>4. QED BY <3>2, <3>3
  <2>2. QED BY <1>1, <2>1 DEF Listed
<1>5. ASSUME ~blank, pc # "extra" PROVE DOMAIN last \subseteq Listed
  <2>1. pc \in {"url", "port"} /\ n \in DOMAIN clients /\ n \in Slots
    BY <1>1, <1>2, <1>5
  <2>2. \A j \in DOMAIN clients : clients[j].url # Empty
    BY <1>5 DEF SaveInv, NoBlank
  <2>3. \A j \in Nat : j \in 1 .. n - 1 => j \in DOMAIN clients /\ j < n
    BY <1>1, <1>2, <2>1
  <2>4. \A j \in Nat : j \in 1 .. n - 1 => fUrl[j] # Empty
    BY <2>2, <2>3 DEF SaveInv, Written
  <2>5. pc = "port" => fUrl[n] # Empty
    BY <2>1, <2>2 DEF SaveInv, Current
  <2>6. \A j \in DOMAIN last : j >= n /\ ~(j = n /\ pc = "port") => fUrl[j] # Empty
    BY <1>1 DEF SaveInv, Untouched
  <2>7. \A j \in DOMAIN last : fUrl[j] # Empty
    <3>1. \A j \in DOMAIN last : j \in Nat /\ (j \in 1 .. n - 1 \/ j >= n)
      BY <1>1, <1>2
    <3>2. QED BY <2>4, <2>5, <2>6, <3>1
  <2>8. \A i \in DOMAIN last : \A j \in 1 .. i : j \in DOMAIN last
    BY <1>1
  <2>9. QED BY <1>1, <2>7, <2>8 DEF Listed
<1>6. QED BY <1>3, <1>4, <1>5 DEF CrashTearsOne

\* The list that is read back is the one that was saved.
SavedReads ==
  Saved => \A i \in Slots :
       IF \E j \in 1 .. i : j > Len(clients) \/ clients[j].url = Empty
         THEN i \notin Listed
         ELSE i \in Listed /\ OnFile[i] = clients[i]

LEMMA ReadsStep ==
  ASSUME TypeInv, ConfigAssumption, SaveInv
  PROVE  SavedReads
<1> SUFFICES ASSUME Saved, NEW i \in Slots
             PROVE  IF \E j \in 1 .. i : j > Len(clients) \/ clients[j].url = Empty
                      THEN i \notin Listed
                      ELSE i \in Listed /\ OnFile[i] = clients[i]
  BY DEF SavedReads
<1>1. pc = "extra" /\ (n \in Slots => fUrl[n] = Empty) /\ n > Len(clients) /\ n \in Nat
  BY DEF Saved, TypeInv, TypeOK, Place
<1>2. /\ Slots = 1 .. MaxClients + 1 /\ MaxClients \in Nat
      /\ DOMAIN clients = 1 .. Len(clients) /\ Len(clients) \in 0 .. MaxClients
  BY Lists DEF ConfigAssumption
<1>3. \A j \in DOMAIN clients : j < n
  BY <1>1, <1>2
<1>4. Saving
  BY <1>1 DEF Saving
<1>5. \A j \in DOMAIN clients : fUrl[j] = clients[j].url
  BY <1>3, <1>4 DEF SaveInv, Written
<1>6. ASSUME NEW j \in 1 .. i, j > Len(clients) \/ clients[j].url = Empty
      PROVE  i \notin Listed
  <2>1. CASE j \in DOMAIN clients
    <3>1. ~(j > Len(clients))
      BY <1>2, <2>1
    <3>2. fUrl[j] = Empty
      BY <1>5, <1>6, <2>1, <3>1
    <3>3. QED BY <3>2 DEF Listed
  <2>2. CASE j \notin DOMAIN clients
    <3> DEFINE g == Len(clients) + 1
    <3>1. g \in 1 .. i /\ g \in Slots /\ g <= n /\ Len(clients) < g
      BY <1>1, <1>2, <2>2
    <3>2. fUrl[g] = Empty
      <4> HIDE DEF g
      <4>1. CASE g < n
        BY <1>1, <3>1, <4>1 DEF SaveInv, Removed
      <4>2. CASE g = n
        BY <1>1, <3>1, <4>2
      <4>3. g \in Nat
        BY <1>2, <3>1
      <4>4. QED BY <1>1, <3>1, <4>1, <4>2, <4>3
    <3> HIDE DEF g
    <3>3. QED BY <3>1, <3>2 DEF Listed
  <2>3. QED BY <2>1, <2>2
<1>7. ASSUME \A j \in 1 .. i : ~(j > Len(clients) \/ clients[j].url = Empty)
      PROVE  i \in Listed /\ OnFile[i] = clients[i]
  <2>1. \A j \in 1 .. i : j \in DOMAIN clients
    BY <1>2, <1>7
  <2>2. \A j \in 1 .. i : fUrl[j] # Empty
    BY <1>5, <1>7, <2>1
  <2>3. i \in Listed
    BY <2>2 DEF Listed
  <2>4. i \in 1 .. i
    BY <1>2
  <2>5. QED BY <1>3, <1>4, <2>1, <2>3, <2>4, ReadBack
<1>8. QED BY <1>6, <1>7
-----------------------------------------------------------------------------
\* In the beginning the file is empty.
LEMMA InitInv ==
  ASSUME Init, ConfigAssumption
  PROVE  TypeInv /\ SaveInv
<1>1. /\ <<>> \in Seq(Client) /\ <<>> \in Seq([url : Url, port : Port])
      /\ <<>> \in Seq(0 .. 9) /\ Len(<<>>) = 0
  BY EmptySeq
<1>2. MaxClients \in Nat /\ MaxClients + 1 \in Slots
  BY DEF ConfigAssumption, Slots
<1>3. TypeOK
  <2>1. {hid, cut, blank} \subseteq BOOLEAN
    BY DEF Init
  <2>2. QED BY <1>1, <1>2, <2>1 DEF Init, TypeOK
<1>4. EndsInFile /\ PortsWritten /\ Place /\ LastFits
  BY <1>1, <1>2 DEF Init, EndsInFile, PortsWritten, Place, LastFits
<1>5. SaveInv
  BY DEF Init, SaveInv, Written, Current, Removed, Untouched, NoBlank, HidReason,
         HiddenForAReason, Hidden, Saving
<1>6. QED BY <1>3, <1>4, <1>5 DEF TypeInv

LEMMA Inductive == Spec => [](TypeInv /\ SaveInv)
<1>1. ASSUME TypeInv /\ SaveInv, [Next]_vars PROVE (TypeInv /\ SaveInv)'
  BY <1>1, ConfigAssumption, TypeStep, SaveStep
<1>2. Init => TypeInv /\ SaveInv
  BY ConfigAssumption, InitInv
<1>3. QED BY <1>1, <1>2, PTL DEF Spec

\* Every state is of its type: the list the user edits, the entries and digits
\* in the file, and where a save is (config.cpp:67-107).
THEOREM TypeCorrect == Spec => []TypeOK
<1>1. TypeInv /\ SaveInv => TypeOK
  BY DEF TypeInv
<1>2. QED BY <1>1, Inductive, PTL

\* A crash while the list is saved leaves one client torn at most, for lists of
\* any length and any contents (config.cpp:83-107).
THEOREM CrashSafe == Spec => []CrashTearsOne
<1>1. TypeInv /\ SaveInv => CrashTearsOne
  BY ConfigAssumption, TearsOne
<1>2. QED BY <1>1, Inductive, PTL

\* Only a save that was cut short or a client without URL leaves entries in the
\* file that are not read (config.cpp:83-107).
THEOREM HiddenSafe == Spec => []HiddenForAReason
<1>1. TypeInv /\ SaveInv => HiddenForAReason
  BY DEF SaveInv
<1>2. QED BY <1>1, Inductive, PTL

\* A save that ends is read back as the list the user has, whatever the file
\* held before (config.cpp:67-107).
THEOREM SaveSafe == Spec => SavedIsRead
<1>1. TypeInv /\ SaveInv => SavedReads
  BY ConfigAssumption, ReadsStep
<1>2. SavedReads => [SavedReads]_vars
  OBVIOUS
<1>3. QED BY <1>1, Inductive, PTL DEF SavedIsRead, SavedReads
=============================================================================
