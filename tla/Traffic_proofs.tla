--------------------------- MODULE Traffic_proofs ---------------------------
(***************************************************************************)
(* Proofs about the traffic text, for any number of threads, any texts and *)
(* any sizes of the buffers that stand in the program's relation.          *)
(***************************************************************************)
EXTENDS Traffic, SequenceLemmas

Character == Nat \ {NUL}

\* A text that fits the buffers of blob::unpack and error().
Short == {s \in Seq(Character) : Len(s) < TextSize}

LEMMA LongerIsShort ==
  ASSUME TrafficAssumption, NEW b \in Seq(Nat), NEW t \in Short, NEW j \in 1 .. Len(b)
  PROVE  Longer(b, t, j) \in Short
<1>1. TextSize \in Nat /\ t \in Seq(Character) /\ Len(t) \in Nat /\ Len(t) < TextSize
  BY LenProperties DEF TrafficAssumption, Short
<1>2. \A c \in Character : Fits(Len(t)) => Append(t, c) \in Short
  <2> SUFFICES ASSUME NEW c \in Character, Fits(Len(t)) PROVE Append(t, c) \in Short
    OBVIOUS
  <2>1. Append(t, c) \in Seq(Character) /\ Len(Append(t, c)) = Len(t) + 1
    BY <1>1, AppendProperties
  <2>2. Len(t) + 1 < TextSize
    BY <1>1 DEF Fits
  <2>3. QED BY <2>1, <2>2 DEF Short
<1>3. b[j] \in Printable => b[j] \in Character
  <2>1. b[j] \in Nat
    BY ElementOfSeq
  <2>2. \A c \in Nat : c \in Printable => c # 0
    BY DEF Printable
  <2>3. QED BY <2>1, <2>2 DEF Character, NUL
<1>4. Dot \in Character
  BY DEF Dot, Character, NUL
<1>5. QED BY <1>2, <1>3, <1>4 DEF Longer

\* The text made of a packet fits, however long the packet is.
LEMMA UnpackIsShort ==
  ASSUME TrafficAssumption, NEW b \in Seq(Nat)
  PROVE  Unpack(b) \in Short
<1> DEFINE D == 0 .. Len(b)
           Is(g, n) == g = [j \in 0 .. n |-> IF j = 0 THEN Heading ELSE Longer(b, g[j - 1], j)]
           None == {n \in D : ~ \E g : Is(g, n)}
<1>1. Len(b) \in Nat
  BY LenProperties
<1>2. ASSUME NEW n \in D, n # 0, NEW g, Is(g, n - 1)
      PROVE  \E h : Is(h, n)
  <2> DEFINE h == [j \in 0 .. n |-> IF j = n THEN Longer(b, g[n - 1], n) ELSE g[j]]
  <2>1. n \in Nat /\ n >= 1
    BY <1>1, <1>2
  <2>2. \A j \in 0 .. n : h[j] = IF j = 0 THEN Heading ELSE Longer(b, h[j - 1], j)
    <3> SUFFICES ASSUME NEW j \in 0 .. n
                 PROVE  h[j] = IF j = 0 THEN Heading ELSE Longer(b, h[j - 1], j)
      OBVIOUS
    <3>1. CASE j = n
      <4>1. n - 1 \in 0 .. n /\ n - 1 # n
        BY <2>1
      <4>2. h[n] = Longer(b, g[n - 1], n) /\ h[n - 1] = g[n - 1]
        BY <2>1, <4>1
      <4>3. QED BY <2>1, <3>1, <4>2
    <3>2. CASE j # n
      <4>1. j \in 0 .. n - 1 /\ (j # 0 => j - 1 \in 0 .. n /\ j - 1 # n)
        BY <2>1, <3>2
      <4>2. h[j] = g[j] /\ (j # 0 => h[j - 1] = g[j - 1])
        BY <3>2, <4>1
      <4>3. g[j] = IF j = 0 THEN Heading ELSE Longer(b, g[j - 1], j)
        BY <1>2, <4>1
      <4>4. QED BY <4>2, <4>3
    <3>3. QED BY <3>1, <3>2
  <2>3. Is(h, n)
    BY <2>2
  <2>4. QED BY <2>3
<1>3. \E g : Is(g, 0)
  <2> DEFINE g == [j \in 0 .. 0 |-> Heading]
  <2>1. Is(g, 0)
    OBVIOUS
  <2>2. QED BY <2>1
<1>4. None = {}
  <2> SUFFICES ASSUME None # {} PROVE FALSE
    OBVIOUS
  <2> HIDE DEF Is
  <2>1. None \in SUBSET Nat
    BY <1>1
  <2>2. PICK n \in None : \A y \in None : n <= y
    BY <2>1, LeastNumber
  <2>3. n \in D /\ n # 0 /\ ~ \E g : Is(g, n)
    BY <1>3, <2>2
  <2>4. n - 1 \in D /\ n - 1 < n
    BY <1>1, <2>3
  <2>5. n - 1 \notin None
    <3> HIDE DEF None
    <3>1. n \in Nat /\ ~(n <= n - 1)
      BY <1>1, <2>3
    <3>2. QED BY <2>2, <3>1
  <2>6. \E g : Is(g, n - 1)
    BY <2>4, <2>5
  <2>7. QED BY <1>2, <2>3, <2>6
<1> DEFINE f == CHOOSE g : Is(g, Len(b))
           Bad == {j \in D : f[j] \notin Short}
<1>5. Is(f, Len(b))
  <2>1. \E g : Is(g, Len(b))
    <3> HIDE DEF Is
    <3>1. QED BY <1>1, <1>4
  <2> HIDE DEF Is
  <2>2. QED BY <2>1
<1> HIDE DEF f
<1>6. Bad = {}
  <2> SUFFICES ASSUME Bad # {} PROVE FALSE
    OBVIOUS
  <2>1. Bad \in SUBSET Nat
    BY <1>1
  <2>2. PICK j \in Bad : \A y \in Bad : j <= y
    BY <2>1, LeastNumber
  <2>3. j \in D /\ f[j] \notin Short
    BY <2>2
  <2>4. Heading \in Short
    BY DEF Heading, Short, Character, NUL, TrafficAssumption
  <2>5. j # 0
    BY <1>5, <2>3, <2>4
  <2>6. j \in 1 .. Len(b) /\ j - 1 \in D
    BY <1>1, <2>3, <2>5
  <2>7. f[j - 1] \in Short
    BY <1>1, <2>2, <2>6
  <2>8. f[j] = Longer(b, f[j - 1], j)
    BY <1>5, <2>3, <2>5
  <2>9. QED BY <2>3, <2>6, <2>7, <2>8, LongerIsShort
<1>7. f[Len(b)] \in Short
  BY <1>1, <1>6
<1>8. Unpack(b) = f[Len(b)]
  BY DEF Unpack, f
<1>9. QED BY <1>7, <1>8
-----------------------------------------------------------------------------
\* While one thread is at work the text is as its place in the code says: s
\* characters long, and short enough for what comes next.
IsLength(s) ==
  s \in Index /\ szTraffic[s] = NUL /\ \A j \in 0 .. s - 1 : szTraffic[j] # NUL

Room(t, s) == s + i(t) + 1 <= Size

At(t) ==
  /\ pc[t] \in {"scan", "cut", "append", "open"} => IsLength(nTraffic)
  /\ pc[t] \in {"scan", "cut"} => k[t] <= nTraffic
  /\ pc[t] = "cut" => k[t] = nTraffic \/ Room(t, nTraffic - k[t])
  /\ pc[t] = "shrink" => IsLength(nTraffic - k[t]) /\ Room(t, nTraffic - k[t])
  /\ pc[t] = "append" => Room(t, nTraffic)
  /\ pc[t] = "count" => IsLength(nTraffic + i(t))
  /\ pc[t] = "clear" => IsLength(0)

Types ==
  /\ szTraffic \in [Index -> Nat] /\ nTraffic \in Int
  /\ pc \in [Threads -> {"idle", "scan", "cut", "shrink", "append", "count",
                         "show", "clear", "open"}]
  /\ text \in [Threads -> Short] /\ k \in [Threads -> Nat]
  /\ \A t \in Threads : pc[t] \in {"idle", "clear", "open"} => k[t] = 0
  /\ crashed = "no"

\* Nobody but t is at work.
Alone(t) == \A u \in Threads \ {t} : pc[u] \in {"idle", "show"}

Sound ==
  /\ Types
  /\ \A t \in Threads : t \in Busy => Alone(t)
  /\ Busy = {} => IsLength(nTraffic)
  /\ \A t \in Threads : At(t)

TextInv == raced \/ Sound
-----------------------------------------------------------------------------
LEMMA Sizes ==
  ASSUME TrafficAssumption
  PROVE  /\ Size \in Nat /\ TextSize \in Nat /\ 2 * TextSize + 3 <= Size /\ TextSize >= 2
         /\ Index = 0 .. Size - 1
         /\ Texts \subseteq Short /\ <<>> \in Short
<1>1. Size \in Nat /\ TextSize \in Nat /\ 2 * TextSize + 3 <= Size /\ TextSize >= 2
  BY DEF TrafficAssumption
<1>2. \A b \in Blobs : Unpack(b) \in Short
  BY UnpackIsShort DEF TrafficAssumption
<1>3. \A m \in Messages : m \in Short
  BY DEF TrafficAssumption, Short, Character
<1>4. <<>> \in Short
  BY <1>1 DEF Short
<1>5. QED BY <1>1, <1>2, <1>3, <1>4 DEF Index, Texts

\* A string has one length.
LEMMA TheLength ==
  ASSUME TrafficAssumption, NEW s, IsLength(s)
  PROVE  IndexOfNul = s
<1>1. Size \in Nat /\ Index = 0 .. Size - 1
  BY Sizes
<1>2. s \in Index /\ szTraffic[s] = NUL /\ \A j \in 0 .. s - 1 : szTraffic[j] # NUL
  BY DEF IsLength
<1> DEFINE N == IndexOfNul
<1>3. N \in Index /\ szTraffic[N] = NUL /\ \A j \in 0 .. N - 1 : szTraffic[j] # NUL
  BY <1>2 DEF IndexOfNul
<1> HIDE DEF N
<1>4. ~(s < N)
  BY <1>1, <1>2, <1>3
<1>5. ~(N < s)
  BY <1>1, <1>2, <1>3
<1>6. N = s
  BY <1>1, <1>2, <1>3, <1>4, <1>5
<1>7. QED BY <1>6 DEF N

\* The next line starts inside the text or is its end.
LEMMA NextLineInside ==
  ASSUME TrafficAssumption, NEW s, IsLength(s), NEW j \in Nat, j < s
  PROVE  NextLine(j) \in Nat /\ NextLine(j) <= s
<1>1. Size \in Nat /\ s \in 0 .. Size - 1 /\ szTraffic[s] = NUL
      /\ \A h \in 0 .. s - 1 : szTraffic[h] # NUL
  BY Sizes DEF IsLength
<1> DEFINE Ends == {e \in j .. Size - 1 : szTraffic[e] \in {NUL, LF}}
           End(e) == /\ szTraffic[e] \in {NUL, LF}
                     /\ \A h \in j .. e - 1 : szTraffic[h] \notin {NUL, LF}
           e1 == CHOOSE e \in j .. Size - 1 : End(e)
<1>2. Ends \in SUBSET Nat /\ s \in Ends
  BY <1>1
<1>3. PICK x \in Ends : \A y \in Ends : x <= y
  BY <1>2, LeastNumber
<1>4. x \in j .. Size - 1 /\ End(x)
  <2>1. x \in j .. Size - 1 /\ szTraffic[x] \in {NUL, LF}
    BY <1>3
  <2>2. \A h \in j .. x - 1 : h \in j .. Size - 1 /\ ~(x <= h)
    BY <1>1, <2>1
  <2>3. \A h \in j .. x - 1 : szTraffic[h] \notin {NUL, LF}
    BY <1>3, <2>2
  <2>4. QED BY <2>1, <2>3
<1> HIDE DEF End
<1>5. e1 \in j .. Size - 1 /\ End(e1)
  BY <1>4
<1> HIDE DEF e1
<1>6. e1 <= s
  <2>1. s \notin j .. e1 - 1
    BY <1>1, <1>5 DEF End
  <2>2. QED BY <1>1, <1>5, <2>1
<1>7. szTraffic[e1] = LF => e1 < s
  <2>1. NUL # LF
    BY DEF NUL, LF
  <2>2. szTraffic[e1] = LF => e1 # s
    BY <1>1, <2>1
  <2>3. QED BY <1>1, <1>5, <1>6, <2>2
<1>8. NextLine(j) = IF szTraffic[e1] = LF THEN e1 + 1 ELSE e1
  BY DEF NextLine, e1, End
<1>9. QED BY <1>1, <1>5, <1>6, <1>7, <1>8

\* How long a text is in the buffer.
LEMMA LineLength ==
  ASSUME TrafficAssumption, Types, NEW t \in Threads
  PROVE  /\ i(t) \in Nat /\ i(t) <= TextSize + 1
         /\ text[t] \in Short /\ text[t] \in Seq(Nat)
         /\ Len(text[t] \o <<CR, LF>>) = i(t)
         /\ \A j \in 1 .. i(t) : (text[t] \o <<CR, LF>>)[j] \in Character
<1>1. text[t] \in Seq(Character) /\ Len(text[t]) \in Nat /\ Len(text[t]) < TextSize
      /\ text[t] \in Short
  BY LenProperties DEF Types, Short
<1>2. TextSize \in Nat
  BY Sizes
<1>3. <<CR, LF>> \in Seq(Character) /\ Len(<<CR, LF>>) = 2
  <2>1. CR \in Character /\ LF \in Character
    BY DEF CR, LF, NUL, Character
  <2>2. QED BY <2>1
<1>4. /\ text[t] \o <<CR, LF>> \in Seq(Character)
      /\ Len(text[t] \o <<CR, LF>>) = Len(text[t]) + 2
  BY <1>1, <1>3, ConcatProperties
<1>5. i(t) = Len(text[t]) + 2
  BY DEF i
<1>6. text[t] \in Seq(Nat)
  <2>1. Character \subseteq Nat
    BY DEF Character
  <2>2. QED BY <1>1, <2>1, SeqMonotonic
<1>7. \A j \in 1 .. i(t) : (text[t] \o <<CR, LF>>)[j] \in Character
  BY <1>4, <1>5, ElementOfSeq
<1>8. QED BY <1>1, <1>2, <1>4, <1>5, <1>6, <1>7
-----------------------------------------------------------------------------
\* What a step of one thread, alone in the buffer, has to establish.
LEMMA OneAtWork ==
  ASSUME Types', NEW t \in Threads, Alone(t)', At(t)',
         pc'[t] \in {"idle", "show"} => IsLength(nTraffic)'
  PROVE  Sound'
<1>1. \A u \in Threads \ {t} : pc'[u] \in {"idle", "show"}
  BY DEF Alone
<1>2. \A u \in Threads \ {t} : At(u)'
  BY <1>1 DEF At
<1>3. \A u \in Threads : u \in Busy' => u = t
  BY <1>1 DEF Busy
<1>4. \A u \in Threads : u \in Busy' => Alone(u)'
  BY <1>3
<1>5. Busy' = {} => IsLength(nTraffic)'
  BY DEF Busy
<1>6. QED BY <1>2, <1>4, <1>5 DEF Sound

\* Where t was and where it goes.
LEMMA StaysAlone ==
  ASSUME Sound, NEW t \in Threads, NEW x,
         t \in Busy \/ Busy = {}, pc' = [pc EXCEPT ![t] = x]
  PROVE  Alone(t)' /\ pc'[t] = x
<1>1. Alone(t)
  BY DEF Sound, Alone, Busy
<1>2. pc \in [Threads -> {"idle", "scan", "cut", "shrink", "append", "count",
                          "show", "clear", "open"}]
  BY DEF Sound, Types
<1>3. QED BY <1>1, <1>2 DEF Alone
-----------------------------------------------------------------------------
\* The steps of AddTraffic, one lemma each.
LEMMA AddStep ==
  ASSUME TrafficAssumption, Sound, NEW t \in Threads, NEW s \in Texts, Add(t, s), ~raced'
  PROVE  Sound'
<1>1. /\ pc[t] = "idle" /\ Busy = {} /\ pc' = [pc EXCEPT ![t] = "scan"]
      /\ text' = [text EXCEPT ![t] = s]
      /\ UNCHANGED <<szTraffic, nTraffic, k, crashed>>
  BY DEF Add, Go
<1>2. Alone(t)' /\ pc'[t] = "scan"
  BY <1>1, StaysAlone
<1>3. IsLength(nTraffic) /\ k[t] = 0 /\ nTraffic \in Nat
  BY <1>1, Sizes DEF Sound, Types, IsLength
<1>4. IsLength(nTraffic)'
  BY <1>1, <1>3 DEF IsLength
<1>5. At(t)'
  BY <1>1, <1>2, <1>3, <1>4 DEF At
<1>6. Types'
  BY <1>1, Sizes DEF Sound, Types
<1>7. QED BY <1>2, <1>5, <1>6, OneAtWork

LEMMA ScanStep ==
  ASSUME TrafficAssumption, Sound, NEW t \in Threads, Scan(t)
  PROVE  Sound'
<1>1. pc[t] = "scan" /\ t \in Busy /\ UNCHANGED <<szTraffic, nTraffic, text, crashed>>
  BY DEF Scan, Busy
<1>2. /\ IsLength(nTraffic) /\ k[t] <= nTraffic /\ k[t] \in Nat
      /\ nTraffic \in Nat /\ nTraffic < Size
      /\ szTraffic[nTraffic] = NUL /\ \A j \in 0 .. nTraffic - 1 : szTraffic[j] # NUL
  BY <1>1, Sizes DEF Sound, Types, At, IsLength
<1>3. IsLength(nTraffic)'
  BY <1>1, <1>2 DEF IsLength
<1>4. Size \in Nat /\ TextSize \in Nat /\ 2 * TextSize + 3 <= Size
      /\ i(t) \in Nat /\ i(t) <= TextSize + 1
  BY Sizes, LineLength DEF Sound
<1>5. CASE szTraffic[k[t]] # NUL /\ k' = [k EXCEPT ![t] = NextLine(k[t])] /\ UNCHANGED pc
  <2>1. k[t] < nTraffic
    BY <1>2, <1>5
  <2>2. NextLine(k[t]) \in Nat /\ NextLine(k[t]) <= nTraffic
    BY <1>2, <2>1, NextLineInside
  <2>3. k' \in [Threads -> Nat] /\ k'[t] <= nTraffic /\ \A u \in Threads \ {t} : k'[u] = k[u]
    BY <1>5, <2>2 DEF Sound, Types
  <2>4. Types'
    BY <1>1, <1>5, <2>3 DEF Sound, Types
  <2>5. Alone(t)' /\ pc'[t] = "scan"
    BY <1>1, <1>5 DEF Sound, Alone
  <2>6. At(t)'
    BY <1>1, <1>3, <2>3, <2>5 DEF At
  <2>7. QED BY <2>4, <2>5, <2>6, OneAtWork
<1>6. CASE /\ szTraffic[k[t]] = NUL \/ ~TooBig(t)
           /\ Go(t, IF k[t] = 0 THEN "append" ELSE "cut") /\ UNCHANGED k
  <2> DEFINE x == IF k[t] = 0 THEN "append" ELSE "cut"
  <2>1. pc' = [pc EXCEPT ![t] = x] /\ x \in {"append", "cut"} /\ k' = k
    BY <1>6 DEF Go
  <2>2. Alone(t)' /\ pc'[t] = x
    BY <1>1, <2>1, StaysAlone
  <2>3. Types'
    BY <1>1, <1>6, <2>1 DEF Sound, Types
  <2>4. i(t)' = i(t)
    BY <1>1 DEF i
  <2>5. k[t] = nTraffic \/ nTraffic - k[t] + i(t) + 1 <= Size
    <3>1. szTraffic[k[t]] = NUL => k[t] = nTraffic
      BY <1>2
    <3>2. ~TooBig(t) => nTraffic - k[t] + i(t) + 1 <= Size
      BY <1>2, <1>4 DEF TooBig
    <3>3. QED BY <1>6, <3>1, <3>2
  <2>6. k[t] = 0 => nTraffic + i(t) + 1 <= Size
    BY <1>2, <1>4, <2>5
  <2>7. At(t)'
    <3>1. pc'[t] = "append" => Room(t, nTraffic)'
      BY <1>1, <2>2, <2>4, <2>6 DEF Room
    <3>2. pc'[t] = "cut" => (k[t] = nTraffic \/ Room(t, nTraffic - k[t]))'
      BY <1>1, <2>1, <2>4, <2>5 DEF Room
    <3>3. pc'[t] \in {"append", "cut"}
      BY <2>1, <2>2
    <3>4. k'[t] <= nTraffic'
      BY <1>1, <1>2, <2>1
    <3>5. QED BY <1>3, <3>1, <3>2, <3>3, <3>4 DEF At
  <2>8. QED BY <2>1, <2>2, <2>3, <2>7, OneAtWork
<1>7. QED BY <1>5, <1>6 DEF Scan

LEMMA DropStep ==
  ASSUME TrafficAssumption, Sound, NEW t \in Threads, Drop(t)
  PROVE  Sound'
<1>1. /\ pc[t] = "cut" /\ t \in Busy /\ pc' = [pc EXCEPT ![t] = "idle"]
      /\ text' = [text EXCEPT ![t] = <<>>] /\ k' = [k EXCEPT ![t] = 0]
      /\ UNCHANGED <<szTraffic, nTraffic, crashed>>
  BY DEF Drop, Return, Busy
<1>2. Alone(t)' /\ pc'[t] = "idle"
  BY <1>1, StaysAlone
<1>3. IsLength(nTraffic)'
  BY <1>1 DEF Sound, At, IsLength
<1>4. At(t)'
  BY <1>2 DEF At
<1>5. Types'
  BY <1>1, Sizes DEF Sound, Types
<1>6. QED BY <1>2, <1>3, <1>4, <1>5, OneAtWork

LEMMA WhatIsLeft ==
  ASSUME NEW a \in Nat, NEW b \in Nat, NEW z \in Nat, a <= b, b < z
  PROVE  /\ b - a \in Nat /\ b - a + a = b /\ b - a < b - a + 1
         /\ b - a \in 0 .. z - 1 /\ b - a + 1 >= 0
OBVIOUS

\* memmove stays inside the buffer.
LEMMA CutStep ==
  ASSUME TrafficAssumption, Sound, NEW t \in Threads, Cut(t)
  PROVE  Sound'
<1> DEFINE c == nTraffic - k[t] + 1
           m == nTraffic - k[t]
<1>1. pc[t] = "cut" /\ t \in Busy /\ szTraffic[k[t]] # NUL
      /\ UNCHANGED <<nTraffic, text, k>>
  BY DEF Cut, Busy
<1>2. /\ k[t] <= nTraffic /\ k[t] \in Nat /\ nTraffic \in Nat /\ nTraffic < Size
      /\ Size \in Nat /\ Index = 0 .. Size - 1 /\ szTraffic \in [Index -> Nat]
      /\ szTraffic[nTraffic] = NUL /\ \A j \in 0 .. nTraffic - 1 : szTraffic[j] # NUL
      /\ (k[t] = nTraffic \/ Room(t, m))
  BY <1>1, Sizes DEF Sound, Types, At, IsLength
<1>3. /\ szTraffic' = Moved(k[t], c) /\ pc' = [pc EXCEPT ![t] = "shrink"] /\ crashed' = crashed
  BY <1>2 DEF Cut, Go
<1>4. Alone(t)' /\ pc'[t] = "shrink"
  BY <1>1, <1>3, StaysAlone
<1>5. m \in Nat /\ m + k[t] = nTraffic /\ m < c /\ m \in Index /\ c = m + 1
  BY <1>2, WhatIsLeft
<1> HIDE DEF c, m
<1>6. szTraffic' = [j \in Index |-> IF j < c THEN szTraffic[j + k[t]] ELSE szTraffic[j]]
  BY <1>3 DEF Moved
<1>7. \A j \in Index : j < c => j + k[t] \in Index
  BY <1>2, <1>5
<1>8. szTraffic' \in [Index -> Nat]
  BY <1>2, <1>6, <1>7
<1>9. IsLength(m)'
  <2>1. szTraffic'[m] = NUL
    BY <1>2, <1>5, <1>6
  <2>2. \A j \in 0 .. m - 1 : j \in Index /\ j < c /\ j + k[t] \in 0 .. nTraffic - 1
    BY <1>2, <1>5
  <2>3. \A j \in 0 .. m - 1 : szTraffic'[j] # NUL
    BY <1>2, <1>6, <2>2
  <2>4. m' = m
    BY <1>1 DEF m
  <2>5. QED BY <1>5, <2>1, <2>3, <2>4 DEF IsLength, Index
<1>10. Room(t, m)'
  <2>1. k[t] # nTraffic
    BY <1>1, <1>2
  <2>2. i(t)' = i(t) /\ m' = m
    BY <1>1 DEF i, m
  <2>3. QED BY <1>2, <2>1, <2>2 DEF Room
<1>11. At(t)'
  BY <1>4, <1>9, <1>10 DEF At, m
<1>12. Types'
  BY <1>1, <1>3, <1>8 DEF Sound, Types
<1>13. QED BY <1>4, <1>11, <1>12, OneAtWork

LEMMA ShrinkStep ==
  ASSUME TrafficAssumption, Sound, NEW t \in Threads, Shrink(t)
  PROVE  Sound'
<1>1. /\ pc[t] = "shrink" /\ t \in Busy /\ pc' = [pc EXCEPT ![t] = "append"]
      /\ nTraffic' = nTraffic - k[t] /\ UNCHANGED <<szTraffic, text, k, crashed>>
  BY DEF Shrink, Busy, Go
<1>2. Alone(t)' /\ pc'[t] = "append"
  BY <1>1, StaysAlone
<1>3. IsLength(nTraffic - k[t]) /\ Room(t, nTraffic - k[t])
  BY <1>1 DEF Sound, At
<1>4. IsLength(nTraffic)' /\ Room(t, nTraffic)'
  BY <1>1, <1>3 DEF IsLength, Room, i
<1>5. At(t)'
  BY <1>2, <1>4 DEF At
<1>6. Types'
  BY <1>1 DEF Sound, Types
<1>7. QED BY <1>2, <1>5, <1>6, OneAtWork

\* The two strcat_s stay inside the buffer.
LEMMA AppendStep ==
  ASSUME TrafficAssumption, Sound, NEW t \in Threads, AppendText(t)
  PROVE  Sound'
<1> DEFINE s == text[t] \o <<CR, LF>>
           at == IndexOfNul
<1>1. pc[t] = "append" /\ t \in Busy /\ UNCHANGED <<nTraffic, text, k>>
  BY DEF AppendText, Busy
<1>2. IsLength(nTraffic) /\ Room(t, nTraffic) /\ Types
  BY <1>1 DEF Sound, At
<1>3. at = nTraffic /\ Len(s) = i(t)
  BY <1>2, TheLength, LineLength
<1>4. /\ nTraffic \in Nat /\ i(t) \in Nat /\ Size \in Nat /\ nTraffic + i(t) + 1 <= Size
      /\ Index = 0 .. Size - 1 /\ szTraffic \in [Index -> Nat]
      /\ \A j \in 0 .. nTraffic - 1 : szTraffic[j] # NUL
      /\ \A j \in 1 .. i(t) : s[j] \in Nat /\ s[j] # NUL
  <2>1. nTraffic \in Index /\ \A j \in 0 .. nTraffic - 1 : szTraffic[j] # NUL
    BY <1>2 DEF IsLength
  <2>2. i(t) \in Nat /\ \A j \in 1 .. i(t) : s[j] \in Character
    BY <1>2, LineLength
  <2>3. Size \in Nat /\ Index = 0 .. Size - 1
    BY Sizes
  <2>4. \A j \in 1 .. i(t) : s[j] \in Nat /\ s[j] # NUL
    BY <2>2 DEF Character
  <2>5. nTraffic + i(t) + 1 <= Size /\ szTraffic \in [Index -> Nat]
    BY <1>2 DEF Room, Types
  <2>6. nTraffic \in Nat
    BY <2>1, <2>3
  <2>7. QED BY <2>1, <2>2, <2>3, <2>4, <2>5, <2>6
<1>5. /\ szTraffic' = [j \in Index |->
             IF j \in at .. at + Len(s) - 1 THEN s[j - at + 1]
             ELSE IF j = at + Len(s) THEN NUL ELSE szTraffic[j]]
      /\ pc' = [pc EXCEPT ![t] = "count"] /\ crashed' = crashed
  <2>1. ~(at + Len(s) + 1 > Size)
    <3> HIDE DEF at, s
    <3>1. QED BY <1>3, <1>4
  <2>2. QED BY <2>1 DEF AppendText, Go
<1>6. Alone(t)' /\ pc'[t] = "count"
  BY <1>1, <1>5, StaysAlone
<1> HIDE DEF s, at
<1> DEFINE z == i(t)
<1>7. szTraffic' = [j \in Index |->
             IF j \in nTraffic .. nTraffic + z - 1 THEN s[j - nTraffic + 1]
             ELSE IF j = nTraffic + z THEN NUL ELSE szTraffic[j]]
  BY <1>3, <1>5
<1>8. z \in Nat /\ nTraffic + z + 1 <= Size /\ \A j \in 1 .. z : s[j] \in Nat /\ s[j] # NUL
  BY <1>4
<1>9. z' = z
  BY <1>1 DEF i
<1> HIDE DEF z
<1>10. \A j \in nTraffic .. nTraffic + z - 1 : j - nTraffic + 1 \in 1 .. z
  BY <1>4, <1>8
<1>11. szTraffic' \in [Index -> Nat]
  <2>1. NUL \in Nat
    BY DEF NUL
  <2>2. QED BY <1>4, <1>7, <1>8, <1>10, <2>1
<1>12. IsLength(nTraffic + z)'
  <2> DEFINE e == nTraffic + z
  <2>1. e = nTraffic + z /\ e \in Index /\ e \in Nat /\ e' = e
    BY <1>1, <1>4, <1>8, <1>9
  <2> HIDE DEF e
  <2>2. szTraffic'[e] = NUL
    <3>1. e \notin nTraffic .. nTraffic + z - 1
      BY <1>4, <1>8, <2>1
    <3>2. QED BY <1>7, <2>1, <3>1
  <2>3. ASSUME NEW j \in 0 .. e - 1 PROVE szTraffic'[j] # NUL
    <3>1. j \in Index /\ j # e /\ j \in Nat /\ j < e
      BY <1>4, <2>1
    <3>2. CASE j < nTraffic
      <4>1. j \in 0 .. nTraffic - 1 /\ j \notin nTraffic .. nTraffic + z - 1
        BY <1>4, <3>1, <3>2
      <4>2. szTraffic'[j] = szTraffic[j]
        BY <1>7, <2>1, <3>1, <4>1
      <4>3. QED BY <1>4, <4>1, <4>2
    <3>3. CASE j >= nTraffic
      <4>1. j \in nTraffic .. nTraffic + z - 1
        BY <1>4, <1>8, <2>1, <3>1, <3>3
      <4>2. szTraffic'[j] = s[j - nTraffic + 1]
        BY <1>7, <3>1, <4>1
      <4>3. QED BY <1>8, <1>10, <4>1, <4>2
    <3>4. QED BY <1>4, <3>1, <3>2, <3>3
  <2>4. IsLength(e)'
    BY <2>1, <2>2, <2>3 DEF IsLength, Index
  <2>5. QED BY <2>4 DEF e
<1>13. At(t)'
  BY <1>6, <1>12 DEF At, z
<1>14. Types'
  BY <1>1, <1>2, <1>5, <1>11 DEF Types
<1>15. QED BY <1>6, <1>13, <1>14, OneAtWork

LEMMA CountStep ==
  ASSUME TrafficAssumption, Sound, NEW t \in Threads, Count(t)
  PROVE  Sound'
<1>1. /\ pc[t] = "count" /\ t \in Busy /\ pc' = [pc EXCEPT ![t] = "show"]
      /\ nTraffic' = nTraffic + i(t) /\ UNCHANGED <<szTraffic, text, k, crashed>>
  BY DEF Count, Busy, Go
<1>2. Alone(t)' /\ pc'[t] = "show"
  BY <1>1, StaysAlone
<1>3. IsLength(nTraffic)'
  BY <1>1 DEF Sound, At, IsLength
<1>4. At(t)'
  BY <1>2 DEF At
<1>5. Types'
  BY <1>1, LineLength DEF Sound, Types
<1>6. QED BY <1>2, <1>3, <1>4, <1>5, OneAtWork
-----------------------------------------------------------------------------
\* Steps that touch neither the text nor a thread at work in it.
LEMMA Aside ==
  ASSUME Sound, Types',
         UNCHANGED <<szTraffic, nTraffic>>,
         \A t \in Threads : \/ pc'[t] = pc[t] /\ k'[t] = k[t] /\ text'[t] = text[t]
                            \/ pc[t] = "show" /\ pc'[t] = "idle"
  PROVE  Sound'
<1>1. \A t \in Threads : pc[t] \in {"idle", "show"} <=> pc'[t] \in {"idle", "show"}
  OBVIOUS
<1>2. Busy' = Busy
  BY <1>1 DEF Busy
<1>3. \A t \in Threads : Alone(t) => Alone(t)'
  BY <1>1 DEF Alone
<1>4. ASSUME NEW t \in Threads PROVE At(t)'
  <2>1. At(t)
    BY DEF Sound
  <2>2. CASE pc'[t] = pc[t] /\ k'[t] = k[t] /\ text'[t] = text[t]
    <3>1. i(t)' = i(t)
      BY <2>2 DEF i
    <3>2. QED BY <2>1, <2>2, <3>1 DEF At, IsLength, Room
  <2>3. CASE pc'[t] = "idle"
    BY <2>3 DEF At
  <2>4. QED BY <2>2, <2>3
<1>5. Busy' = {} => IsLength(nTraffic)'
  BY <1>2 DEF Sound, IsLength
<1>6. QED BY <1>2, <1>3, <1>4, <1>5 DEF Sound

LEMMA ShowStep ==
  ASSUME TrafficAssumption, Sound, NEW t \in Threads, Show(t)
  PROVE  Sound'
<1>1. /\ pc[t] = "show" /\ pc' = [pc EXCEPT ![t] = "idle"]
      /\ text' = [text EXCEPT ![t] = <<>>] /\ k' = [k EXCEPT ![t] = 0]
      /\ UNCHANGED <<szTraffic, nTraffic, crashed>>
  BY DEF Show, Return
<1>2. Types'
  BY <1>1, Sizes DEF Sound, Types
<1>3. \A u \in Threads : \/ pc'[u] = pc[u] /\ k'[u] = k[u] /\ text'[u] = text[u]
                         \/ pc[u] = "show" /\ pc'[u] = "idle"
  BY <1>1 DEF Sound, Types
<1>4. QED BY <1>1, <1>2, <1>3, Aside

LEMMA ClearStep ==
  ASSUME TrafficAssumption, Sound, Clear, ~raced'
  PROVE  Sound'
<1>1. /\ pc[Main] = "idle" /\ Busy = {} /\ pc' = [pc EXCEPT ![Main] = "clear"]
      /\ szTraffic' = [szTraffic EXCEPT ![0] = NUL] /\ Main \in Threads
      /\ UNCHANGED <<nTraffic, text, k, crashed>>
  BY DEF Clear, Go, Threads
<1>2. Alone(Main)' /\ pc'[Main] = "clear"
  BY <1>1, StaysAlone
<1>3. 0 \in Index /\ szTraffic \in [Index -> Nat] /\ NUL \in Nat
  BY Sizes DEF Sound, Types, NUL
<1>4. szTraffic' \in [Index -> Nat] /\ szTraffic'[0] = NUL
  BY <1>1, <1>3
<1>5. IsLength(0)'
  <2>1. \A j \in 0 .. 0 - 1 : FALSE
    OBVIOUS
  <2>2. QED BY <1>3, <1>4, <2>1 DEF IsLength, Index
<1>6. At(Main)'
  BY <1>2, <1>5 DEF At
<1>7. Types'
  BY <1>1, <1>4 DEF Sound, Types
<1>8. QED BY <1>1, <1>2, <1>6, <1>7, OneAtWork

LEMMA ClearedStep ==
  ASSUME TrafficAssumption, Sound, Cleared
  PROVE  Sound'
<1>1. /\ pc[Main] = "clear" /\ Main \in Busy /\ pc' = [pc EXCEPT ![Main] = "idle"]
      /\ nTraffic' = 0 /\ Main \in Threads
      /\ UNCHANGED <<szTraffic, text, k, crashed>>
  BY DEF Cleared, Go, Threads, Busy
<1>2. Alone(Main)' /\ pc'[Main] = "idle"
  BY <1>1, StaysAlone
<1>3. IsLength(nTraffic)'
  BY <1>1 DEF Sound, At, IsLength
<1>4. At(Main)'
  BY <1>2 DEF At
<1>5. Types'
  BY <1>1 DEF Sound, Types
<1>6. QED BY <1>1, <1>2, <1>3, <1>4, <1>5, OneAtWork

LEMMA OpenStep ==
  ASSUME TrafficAssumption, Sound, Open, ~raced'
  PROVE  Sound'
<1>1. /\ pc[Main] = "idle" /\ Busy = {} /\ pc' = [pc EXCEPT ![Main] = "open"]
      /\ Main \in Threads /\ UNCHANGED <<szTraffic, nTraffic, text, k, crashed>>
  BY DEF Open, Go, Threads
<1>2. Alone(Main)' /\ pc'[Main] = "open"
  BY <1>1, StaysAlone
<1>3. IsLength(nTraffic)'
  BY <1>1 DEF Sound, IsLength
<1>4. At(Main)'
  BY <1>2, <1>3 DEF At
<1>5. Types'
  BY <1>1 DEF Sound, Types
<1>6. QED BY <1>1, <1>2, <1>4, <1>5, OneAtWork

LEMMA OpenedStep ==
  ASSUME TrafficAssumption, Sound, Opened
  PROVE  Sound'
<1>1. /\ pc[Main] = "open" /\ Main \in Busy /\ pc' = [pc EXCEPT ![Main] = "idle"]
      /\ Main \in Threads /\ UNCHANGED <<szTraffic, nTraffic, text, k, crashed>>
  BY DEF Opened, Go, Threads, Busy
<1>2. Alone(Main)' /\ pc'[Main] = "idle"
  BY <1>1, StaysAlone
<1>3. IsLength(nTraffic)'
  BY <1>1 DEF Sound, At, IsLength
<1>4. At(Main)'
  BY <1>2 DEF At
<1>5. Types'
  BY <1>1 DEF Sound, Types
<1>6. QED BY <1>1, <1>2, <1>3, <1>4, <1>5, OneAtWork

LEMMA NextCases ==
  ASSUME Next
  PROVE  \/ \E t \in Threads, s \in Texts : Add(t, s)
         \/ \E t \in Threads : \/ Scan(t) \/ Drop(t) \/ Cut(t) \/ Shrink(t)
                               \/ AppendText(t) \/ Count(t) \/ Show(t)
         \/ Clear \/ Cleared \/ Open \/ Opened \/ Close \/ Freeze
BY DEF Next

LEMMA TextStep ==
  ASSUME TrafficAssumption, TextInv, [Next]_vars
  PROVE  TextInv'
<1>1. raced => raced'
  BY NextCases DEF vars, Add, Scan, Drop, Cut, Shrink, AppendText, Count, Show, Clear,
       Cleared, Open, Opened, Close, Freeze
<1>2. SUFFICES ASSUME Sound, ~raced' PROVE Sound'
  BY <1>1 DEF TextInv
<1>3. ASSUME NEW t \in Threads, NEW s \in Texts, Add(t, s) PROVE Sound'
  BY <1>2, <1>3, AddStep
<1>4. ASSUME NEW t \in Threads, Scan(t) \/ Drop(t) \/ Cut(t) PROVE Sound'
  BY <1>2, <1>4, ScanStep, DropStep, CutStep
<1>5. ASSUME NEW t \in Threads, Shrink(t) \/ AppendText(t) \/ Count(t) \/ Show(t) PROVE Sound'
  BY <1>2, <1>5, ShrinkStep, AppendStep, CountStep, ShowStep
<1>6. CASE Clear \/ Cleared \/ Open \/ Opened
  BY <1>2, <1>6, ClearStep, ClearedStep, OpenStep, OpenedStep
<1>7. CASE Close \/ Freeze \/ UNCHANGED vars
  <2>1. UNCHANGED <<szTraffic, nTraffic, pc, text, k, crashed>>
    BY <1>7 DEF Close, Freeze, vars, threadVars
  <2>2. Types'
    BY <1>2, <2>1 DEF Sound, Types
  <2>3. QED BY <1>2, <2>1, <2>2, Aside
<1>8. QED BY <1>3, <1>4, <1>5, <1>6, <1>7, NextCases

LEMMA TextInit ==
  ASSUME TrafficAssumption, Init
  PROVE  TextInv
<1>1. 0 \in Index /\ NUL \in Nat /\ <<>> \in Short
  BY Sizes DEF NUL
<1>2. Types
  BY <1>1 DEF Init, Types
<1>3. IsLength(0)
  <2>1. \A j \in 0 .. 0 - 1 : FALSE
    OBVIOUS
  <2>2. QED BY <1>1, <2>1 DEF Init, IsLength
<1>4. \A t \in Threads : pc[t] = "idle"
  BY DEF Init
<1>5. Busy = {} /\ \A t \in Threads : At(t)
  BY <1>4 DEF Busy, At
<1>6. IsLength(nTraffic)
  BY <1>3 DEF Init
<1>7. QED BY <1>2, <1>5, <1>6 DEF TextInv, Sound

LEMMA TextAlways == Spec => []TextInv
<1>1. Init => TextInv
  BY TextInit, TrafficAssumption
<1>2. TextInv /\ [Next]_vars => TextInv'
  BY TextStep, TrafficAssumption
<1>3. QED BY <1>1, <1>2, PTL DEF Spec

\* "better a loss of data than a crash": with one thread at work at a time the
\* text never overruns its buffer, for any packets and any sizes in the
\* program's relation, so for 500 and 5000 (UDPdispatcher.cpp:53-82).
THEOREM NoOverrun == Spec => []CrashOnlyIfRaced
<1>1. TextInv => CrashOnlyIfRaced
  BY DEF TextInv, Sound, Types, CrashOnlyIfRaced
<1>2. QED BY <1>1, TextAlways, PTL

\* nTraffic is the length of the text between calls (UDPdispatcher.cpp:77).
THEOREM CountsRight == Spec => []CountIsLength
<1>1. TextInv => CountIsLength
  BY TheLength, TrafficAssumption DEF TextInv, Sound, CountIsLength
<1>2. QED BY <1>1, TextAlways, PTL
-----------------------------------------------------------------------------
\* What the window shows is stale only while a thread is about to show it; when
\* it is opened nobody is at work, for nobody adds to a window that is not open.
Stale == {"shrink", "append", "count", "show", "clear"}

ShowInv ==
  /\ open /\ (\A t \in Threads : pc[t] \notin Stale) => shown = Content
  /\ pc[Main] = "open" => ~open /\ shown = Content

LEMMA SameContent ==
  ASSUME UNCHANGED szTraffic
  PROVE  Content' = Content
<1>1. IndexOfNul' = IndexOfNul
  BY DEF IndexOfNul, Index
<1>2. QED BY <1>1 DEF Content

LEMMA ShownStep ==
  ASSUME Sound, ShowInv, [Next]_vars
  PROVE  ShowInv'
<1> USE DEF ShowInv
<1>1. Main \in Threads /\ pc \in [Threads -> {"idle", "scan", "cut", "shrink", "append",
                                             "count", "show", "clear", "open"}]
  BY DEF Threads, Sound, Types
<1>2. ASSUME NEW t \in Threads, NEW s \in Texts, Add(t, s) PROVE ShowInv'
  <2>1. /\ pc[t] = "idle" /\ pc' = [pc EXCEPT ![t] = "scan"] /\ open
        /\ UNCHANGED <<szTraffic, open, shown>>
    BY <1>2 DEF Add, Go
  <2>2. (\A u \in Threads : pc'[u] \notin Stale) => \A u \in Threads : pc[u] \notin Stale
    BY <1>1, <2>1 DEF Stale
  <2>3. pc'[Main] # "open"
    BY <1>1, <2>1
  <2>4. Content' = Content
    BY <2>1, SameContent
  <2>5. QED BY <2>1, <2>2, <2>3, <2>4
\* While the window is being opened the text is left alone.
<1>3. ASSUME NEW t \in Threads, t \in Busy, pc[t] # "open" PROVE pc[Main] # "open"
  <2>1. Alone(t)
    BY <1>3 DEF Sound
  <2>2. QED BY <1>1, <1>3, <2>1 DEF Alone
<1>4. ASSUME NEW t \in Threads, Scan(t) \/ Drop(t) PROVE ShowInv'
  <2>1. /\ pc[t] \in {"scan", "cut"} /\ UNCHANGED <<szTraffic, open, shown>>
        /\ \E x \in {"scan", "append", "cut", "idle"} : pc' = [pc EXCEPT ![t] = x]
    <3>1. CASE Scan(t)
      <4>1. CASE UNCHANGED pc
        <5>1. pc' = [pc EXCEPT ![t] = "scan"]
          BY <1>1, <3>1, <4>1 DEF Scan
        <5>2. QED BY <3>1, <5>1 DEF Scan
      <4>2. CASE Go(t, IF k[t] = 0 THEN "append" ELSE "cut")
        BY <3>1, <4>2 DEF Scan, Go
      <4>3. QED BY <3>1, <4>1, <4>2 DEF Scan
    <3>2. CASE Drop(t)
      BY <3>2 DEF Drop, Return
    <3>3. QED BY <1>4, <3>1, <3>2
  <2>2. pc[Main] # "open" /\ pc'[Main] # "open"
    <3>1. t \in Busy
      BY <2>1 DEF Busy
    <3>2. QED BY <1>1, <1>3, <2>1, <3>1
  <2>3. (\A u \in Threads : pc'[u] \notin Stale) => \A u \in Threads : pc[u] \notin Stale
    BY <1>1, <2>1 DEF Stale
  <2>4. Content' = Content
    BY <2>1, SameContent
  <2>5. QED BY <2>1, <2>2, <2>3, <2>4
<1>5. ASSUME NEW t \in Threads, Cut(t), crashed' = crashed PROVE ShowInv'
  <2>1. pc[t] = "cut" /\ pc' = [pc EXCEPT ![t] = "shrink"]
    BY <1>5 DEF Cut, Go, Running
  <2>2. pc'[t] \in Stale /\ pc'[Main] # "open"
    <3>1. t \in Busy
      BY <2>1 DEF Busy
    <3>2. QED BY <1>1, <1>3, <2>1, <3>1 DEF Stale
  <2>3. QED BY <2>2
<1>6. ASSUME NEW t \in Threads, Shrink(t) \/ Count(t) PROVE ShowInv'
  <2>1. /\ pc[t] \in {"shrink", "count"}
        /\ \E x \in {"append", "show"} : pc' = [pc EXCEPT ![t] = x]
    BY <1>6 DEF Shrink, Count, Go
  <2>2. pc'[t] \in Stale /\ pc'[Main] # "open"
    <3>1. t \in Busy
      BY <2>1 DEF Busy
    <3>2. QED BY <1>1, <1>3, <2>1, <3>1 DEF Stale
  <2>3. QED BY <2>2
<1>7. ASSUME NEW t \in Threads, AppendText(t), crashed' = crashed PROVE ShowInv'
  <2>1. pc[t] = "append" /\ pc' = [pc EXCEPT ![t] = "count"]
    BY <1>7 DEF AppendText, Go, Running
  <2>2. pc'[t] \in Stale /\ pc'[Main] # "open"
    <3>1. t \in Busy
      BY <2>1 DEF Busy
    <3>2. QED BY <1>1, <1>3, <2>1, <3>1 DEF Stale
  <2>3. QED BY <2>2
<1>8. ASSUME NEW t \in Threads, Show(t) PROVE ShowInv'
  <2>1. /\ pc[t] = "show" /\ pc' = [pc EXCEPT ![t] = "idle"] /\ UNCHANGED <<szTraffic, open>>
        /\ shown' = IF open THEN Content ELSE shown
    BY <1>8 DEF Show, Return
  <2>2. Content' = Content
    BY <2>1, SameContent
  <2>3. pc'[Main] = "open" => pc[Main] = "open"
    BY <1>1, <2>1
  <2>4. QED BY <2>1, <2>2, <2>3
<1>9. CASE Clear
  <2>1. pc' = [pc EXCEPT ![Main] = "clear"]
    BY <1>9 DEF Clear, Go
  <2>2. pc'[Main] = "clear"
    BY <1>1, <2>1
  <2>3. QED BY <1>1, <2>2 DEF Stale
<1>10. CASE Cleared \/ Open
  <2>1. /\ UNCHANGED <<szTraffic, open>> /\ shown' = Content
        /\ (pc' = [pc EXCEPT ![Main] = "idle"] \/ (pc' = [pc EXCEPT ![Main] = "open"] /\ ~open))
    BY <1>10 DEF Cleared, Open, Go
  <2>2. Content' = Content
    BY <2>1, SameContent
  <2>3. pc'[Main] = "open" => ~open
    BY <1>1, <2>1
  <2>4. QED BY <2>1, <2>2, <2>3
<1>11. CASE Opened
  <2>1. /\ UNCHANGED <<szTraffic, shown>> /\ pc[Main] = "open"
        /\ pc' = [pc EXCEPT ![Main] = "idle"]
    BY <1>11 DEF Opened, Go
  <2>2. Content' = Content
    BY <2>1, SameContent
  <2>3. pc'[Main] = "idle"
    BY <1>1, <2>1
  <2>4. QED BY <2>1, <2>2, <2>3
<1>12. CASE Close \/ Freeze \/ UNCHANGED vars
  <2>1. /\ UNCHANGED <<szTraffic, shown, pc>> /\ (open' = open \/ open' = FALSE)
    BY <1>12 DEF Close, Freeze, vars, threadVars
  <2>2. Content' = Content
    BY <2>1, SameContent
  <2>3. QED BY <2>1, <2>2
<1>13. CASE crashed' # crashed
  <2>1. UNCHANGED <<szTraffic, pc, open, shown>>
    BY <1>13, NextCases
       DEF vars, Add, Scan, Drop, Cut, Shrink, AppendText, Count, Show, Clear,
           Cleared, Open, Opened, Close, Freeze
  <2>2. Content' = Content
    BY <2>1, SameContent
  <2>3. QED BY <2>1, <2>2
<1>14. QED
  BY <1>2, <1>4, <1>5, <1>6, <1>7, <1>8, <1>9, <1>10, <1>11, <1>12, <1>13, NextCases

\* When nobody is at work the open window shows the text, also after it was
\* closed, opened again or cleared (UDPdispatcher.cpp:78-98, 217-222).
THEOREM WindowIsTrue == Spec => []WindowShowsText
<1>1. Init => raced \/ ShowInv
  BY DEF Init, ShowInv, Threads
<1>2. TextInv /\ (raced \/ ShowInv) /\ [Next]_vars => (raced \/ ShowInv)'
  <2> SUFFICES ASSUME TextInv, raced \/ ShowInv, [Next]_vars, ~raced' PROVE ShowInv'
    OBVIOUS
  <2>1. raced => raced'
    BY NextCases DEF vars, Add, Scan, Drop, Cut, Shrink, AppendText, Count, Show, Clear,
         Cleared, Open, Opened, Close, Freeze
  <2>2. Sound /\ ShowInv
    BY <2>1 DEF TextInv
  <2>3. QED BY <2>2, ShownStep
<1>3. (raced \/ ShowInv) => WindowShowsText
  BY DEF ShowInv, WindowShowsText, Stale
<1>4. QED BY <1>1, <1>2, <1>3, TextAlways, PTL DEF Spec
-----------------------------------------------------------------------------
\* The types, which hold whatever the threads do to each other: the buffer's
\* last character is never touched, so there is always a NUL to stop at.
Buffer == szTraffic \in [Index -> Nat] /\ szTraffic[Size - 1] = NUL

Places == {"idle", "scan", "cut", "shrink", "append", "count", "show", "clear", "open"}

\* What a set of places in the buffer that has a NUL in it stops at.
LEMMA FirstAfter ==
  ASSUME TrafficAssumption, NEW j \in Index, NEW T \in SUBSET Index,
         Size - 1 \in T
  PROVE  \E e \in j .. Size - 1 : e \in T /\ \A h \in j .. e - 1 : h \notin T
<1>1. Size \in Nat /\ Index = 0 .. Size - 1 /\ j \in Nat /\ j <= Size - 1
  BY Sizes
<1> DEFINE U == {e \in T : j <= e}
<1>2. U \in SUBSET Nat /\ Size - 1 \in U
  <2>1. \A e \in U : e \in Index
    OBVIOUS
  <2>2. \A e \in U : e \in Nat
    BY <1>1, <2>1
  <2>3. Size - 1 \in U
    BY <1>1
  <2>4. QED BY <2>2, <2>3
<1>3. PICK e \in U : \A y \in U : e <= y
  BY <1>2, LeastNumber
<1>4. e \in T /\ e \in j .. Size - 1
  BY <1>1, <1>3
<1>5. ASSUME NEW h \in j .. e - 1, h \in T PROVE FALSE
  <2>1. h \in U /\ h < e
    BY <1>1, <1>4, <1>5
  <2>2. e <= h
    BY <1>3, <2>1
  <2>3. QED BY <1>1, <1>4, <2>1, <2>2
<1>6. QED BY <1>4, <1>5

LEMMA NextLineInBuffer ==
  ASSUME TrafficAssumption, Buffer, NEW j \in Index
  PROVE  NextLine(j) \in Index
<1>1. Size \in Nat /\ Size - 1 \in Nat /\ Index = 0 .. Size - 1 /\ j \in Nat /\ j <= Size - 1
  BY Sizes
<1> DEFINE T == {e \in Index : szTraffic[e] \in {NUL, LF}}
           End(e) == /\ szTraffic[e] \in {NUL, LF}
                     /\ \A h \in j .. e - 1 : szTraffic[h] \notin {NUL, LF}
           e1 == CHOOSE e \in j .. Size - 1 : End(e)
<1>2. Size - 1 \in T
  BY <1>1 DEF Buffer
<1>3. PICK x \in j .. Size - 1 : x \in T /\ \A h \in j .. x - 1 : h \notin T
  BY <1>2, FirstAfter
<1>4. End(x)
  <2>1. \A h \in j .. x - 1 : h \in Index
    BY <1>1, <1>3
  <2>2. QED BY <1>3, <2>1
<1> HIDE DEF End
<1>5. e1 \in j .. Size - 1 /\ End(e1)
  BY <1>3, <1>4
<1>6. NextLine(j) = IF szTraffic[e1] = LF THEN e1 + 1 ELSE e1
  BY DEF NextLine, e1, End
<1> HIDE DEF e1
<1>7. szTraffic[e1] = LF => e1 # Size - 1
  BY DEF Buffer, NUL, LF
<1>8. QED BY <1>1, <1>5, <1>6, <1>7

LEMMA NulInBuffer ==
  ASSUME TrafficAssumption, Buffer
  PROVE  IsLength(IndexOfNul)
<1>1. Size \in Nat /\ Size - 1 \in Nat /\ Index = 0 .. Size - 1 /\ 0 \in Index
  BY Sizes
<1> DEFINE T == {e \in Index : szTraffic[e] = NUL}
           N == IndexOfNul
<1>2. Size - 1 \in T
  BY <1>1 DEF Buffer
<1>3. PICK x \in 0 .. Size - 1 : x \in T /\ \A h \in 0 .. x - 1 : h \notin T
  BY <1>1, <1>2, FirstAfter
<1>4. \A h \in 0 .. x - 1 : h \in Index
  BY <1>1, <1>3
<1>5. \A h \in 0 .. x - 1 : szTraffic[h] # NUL
  BY <1>3, <1>4
<1>6. x \in Index /\ szTraffic[x] = NUL
  BY <1>3
<1>7. N \in Index /\ szTraffic[N] = NUL /\ \A j \in 0 .. N - 1 : szTraffic[j] # NUL
  BY <1>5, <1>6 DEF IndexOfNul
<1> HIDE DEF N
<1>8. IsLength(N)
  BY <1>7 DEF IsLength
<1>9. QED BY <1>8 DEF N

LEMMA ContentIsText ==
  ASSUME TrafficAssumption, Buffer
  PROVE  Content \in Seq(Nat) /\ Len(Content) = IndexOfNul
<1> DEFINE N == IndexOfNul
<1>1. N \in Nat /\ N <= Size - 1 /\ Index = 0 .. Size - 1 /\ Size \in Nat
  BY Sizes, NulInBuffer DEF IsLength
<1>2. Content = [j \in 1 .. N |-> szTraffic[j - 1]]
  BY DEF Content
<1> HIDE DEF N
<1>3. \A j \in 1 .. N : j - 1 \in Index
  BY <1>1
<1>4. \A j \in 1 .. N : szTraffic[j - 1] \in Nat
  BY <1>3 DEF Buffer
<1>5. Content \in Seq(Nat) /\ Len(Content) = N
  BY <1>1, <1>2, <1>4
<1>6. QED BY <1>5 DEF N

LEMMA ToldIsText ==
  ASSUME TrafficAssumption, told \in Seq(Nat), NEW s \in Seq(Nat)
  PROVE  Told(s) \in Seq(Nat)
<1> DEFINE all == told \o s
           from == IF Len(all) > Recent THEN Len(all) - Recent ELSE 0
<1>1. all \in Seq(Nat) /\ Len(all) \in Nat /\ Recent \in Nat
  BY ConcatProperties, LenProperties DEF TrafficAssumption
<1>2. Told(s) = IF raced THEN <<>> ELSE SubSeq(all, from + 1, Len(all))
  BY DEF Told
<1> HIDE DEF all
<1>3. from \in Nat
  BY <1>1
<1> HIDE DEF from
<1>4. \A j \in from + 1 .. Len(all) : all[j] \in Nat
  <2>1. \A j \in from + 1 .. Len(all) : j \in 1 .. Len(all)
    BY <1>1, <1>3
  <2>2. QED BY <1>1, <2>1, ElementOfSeq
<1>5. from + 1 \in Int /\ Len(all) \in Int
  BY <1>1, <1>3
<1>6. SubSeq(all, from + 1, Len(all)) \in Seq(Nat)
  BY <1>4, <1>5, SubSeqProperties
<1>7. QED BY <1>2, <1>6, EmptySeq

\* The steps of a trim and of an addition leave a string in the buffer.
LEMMA CutKeepsBuffer ==
  ASSUME TrafficAssumption, Buffer, nTraffic \in Int, NEW t \in Threads, k[t] \in Index,
         Cut(t)
  PROVE  Buffer'
<1> DEFINE c == nTraffic - k[t] + 1
           a == k[t]
<1>1. /\ Size \in Nat /\ Size - 1 \in Nat /\ Index = 0 .. Size - 1
      /\ szTraffic \in [Index -> Nat] /\ szTraffic[Size - 1] = NUL
  BY Sizes DEF Buffer
<1>2. CASE UNCHANGED szTraffic
  BY <1>1, <1>2 DEF Buffer, Index
<1>3. CASE c >= 0 /\ nTraffic + 1 <= Size /\ szTraffic' = Moved(a, c)
  <2>1. szTraffic' = [j \in Index |-> IF j < c THEN szTraffic[j + a] ELSE szTraffic[j]]
    BY <1>3 DEF Moved
  <2>2. c \in Int /\ a \in Nat /\ c + a <= Size
    BY <1>1, <1>3
  <2> HIDE DEF c, a
  <2>3. \A j \in Index : j < c => j + a \in Index
    BY <1>1, <2>2
  <2>4. szTraffic' \in [Index -> Nat]
    BY <1>1, <2>1, <2>3
  <2>5. Size - 1 \in Index /\ (Size - 1 < c => a = 0)
    BY <1>1, <2>2
  <2>6. szTraffic'[Size - 1] = NUL
    <3>1. CASE Size - 1 < c
      <4>1. Size - 1 + a = Size - 1
        BY <1>1, <2>5, <3>1
      <4>2. szTraffic'[Size - 1] = szTraffic[Size - 1 + a]
        BY <2>1, <2>5, <3>1
      <4>3. QED BY <1>1, <4>1, <4>2
    <3>2. CASE ~(Size - 1 < c)
      BY <1>1, <2>1, <2>5, <3>2
    <3>3. QED BY <3>1, <3>2
  <2>7. QED BY <2>4, <2>6 DEF Buffer, Index
<1>4. QED BY <1>2, <1>3 DEF Cut

LEMMA AppendKeepsBuffer ==
  ASSUME TrafficAssumption, Buffer, NEW t \in Threads, text[t] \in Seq(Nat), AppendText(t)
  PROVE  Buffer'
<1> DEFINE s == text[t] \o <<CR, LF>>
           at == IndexOfNul
           z == Len(s)
<1>1. /\ Size \in Nat /\ Size - 1 \in Nat /\ Index = 0 .. Size - 1
      /\ szTraffic \in [Index -> Nat] /\ szTraffic[Size - 1] = NUL
  BY Sizes DEF Buffer
<1>2. at \in Nat
  BY <1>1, NulInBuffer DEF IsLength
<1>3. s \in Seq(Nat) /\ z \in Nat
  <2>1. <<CR, LF>> \in Seq(Nat)
    BY DEF CR, LF
  <2>2. QED BY <2>1, ConcatProperties, LenProperties
<1>4. CASE UNCHANGED szTraffic
  BY <1>1, <1>4 DEF Buffer, Index
<1>5. CASE /\ at + z + 1 <= Size
           /\ szTraffic' = [j \in Index |->
                IF j \in at .. at + z - 1 THEN s[j - at + 1]
                ELSE IF j = at + z THEN NUL ELSE szTraffic[j]]
  <2>1. \A j \in 1 .. z : s[j] \in Nat
    BY <1>3, ElementOfSeq
  <2> HIDE DEF s, at, z
  <2>2. \A j \in at .. at + z - 1 : j - at + 1 \in 1 .. z
    BY <1>2, <1>3
  <2>3. \A j \in at .. at + z - 1 : s[j - at + 1] \in Nat
    BY <2>1, <2>2
  <2>4. szTraffic' \in [Index -> Nat]
    BY <1>1, <1>5, <2>3 DEF NUL
  <2>5. Size - 1 \in Index /\ Size - 1 \notin at .. at + z - 1
    BY <1>1, <1>2, <1>3, <1>5
  <2>6. szTraffic'[Size - 1] = NUL
    BY <1>1, <1>5, <2>5
  <2>7. QED BY <2>4, <2>6 DEF Buffer, Index
<1>6. QED BY <1>4, <1>5 DEF AppendText

LEMMA ClearKeepsBuffer ==
  ASSUME TrafficAssumption, Buffer, szTraffic' = [szTraffic EXCEPT ![0] = NUL]
  PROVE  Buffer'
BY Sizes DEF Buffer, NUL, Index

\* Where the threads are, what they add and how far they got.
Threaded ==
  /\ pc \in [Threads -> Places]
  /\ text \in [Threads -> Seq(Nat)] /\ \A t \in Threads : Len(text[t]) < TextSize
  /\ k \in [Threads -> Index]

LEMMA TypeParts ==
  TypeOK <=> /\ Buffer /\ nTraffic \in Int /\ Threaded
             /\ open \in BOOLEAN /\ frozen \in BOOLEAN /\ raced \in BOOLEAN
             /\ shown \in Seq(Nat) /\ told \in Seq(Nat)
             /\ crashed \in {"no", "memmove", "strcat_s"}
BY DEF TypeOK, Buffer, Threaded, Places

LEMMA PartsTyped ==
  ASSUME Buffer', nTraffic' \in Int, Threaded',
         open' \in BOOLEAN, frozen' \in BOOLEAN, raced' \in BOOLEAN,
         shown' \in Seq(Nat), told' \in Seq(Nat),
         crashed' \in {"no", "memmove", "strcat_s"}
  PROVE  TypeOK'
BY DEF TypeOK, Buffer, Threaded, Places

LEMMA Going ==
  ASSUME Threaded, NEW t \in Threads, NEW x \in Places, Go(t, x), UNCHANGED <<text, k>>
  PROVE  Threaded'
BY DEF Threaded, Go, Index

LEMMA Returning ==
  ASSUME TrafficAssumption, Threaded, NEW t \in Threads, Return(t)
  PROVE  Threaded'
<1>1. 0 \in Index /\ <<>> \in Seq(Nat) /\ Len(<<>>) < TextSize
  BY Sizes
<1>2. pc' \in [Threads -> Places] /\ k' \in [Threads -> Index]
  BY <1>1 DEF Threaded, Return, Places
<1>3. text' \in [Threads -> Seq(Nat)] /\ \A u \in Threads : Len(text'[u]) < TextSize
  BY <1>1 DEF Threaded, Return
<1>4. QED BY <1>2, <1>3 DEF Threaded, Index

LEMMA TypeStep ==
  ASSUME TrafficAssumption, TypeOK, [Next]_vars
  PROVE  TypeOK'
<1>1. /\ Buffer /\ nTraffic \in Int /\ Threaded
      /\ open \in BOOLEAN /\ frozen \in BOOLEAN /\ raced \in BOOLEAN
      /\ shown \in Seq(Nat) /\ told \in Seq(Nat)
      /\ crashed \in {"no", "memmove", "strcat_s"}
  BY TypeParts
<1>2. Size \in Nat /\ Index = 0 .. Size - 1 /\ Main \in Threads
  BY Sizes DEF Threads
<1>3. Content \in Seq(Nat)
  BY <1>1, ContentIsText
<1>4. ASSUME NEW t \in Threads
      PROVE  /\ k[t] \in Index /\ k[t] \in Nat /\ text[t] \in Seq(Nat)
             /\ i(t) \in Nat /\ text[t] \o <<CR, LF>> \in Seq(Nat)
  <2>1. k[t] \in Index /\ text[t] \in Seq(Nat)
    BY <1>1 DEF Threaded
  <2>2. <<CR, LF>> \in Seq(Nat)
    BY DEF CR, LF
  <2>3. text[t] \o <<CR, LF>> \in Seq(Nat) /\ Len(text[t]) \in Nat
    BY <2>1, <2>2, ConcatProperties, LenProperties
  <2>4. QED BY <1>2, <2>1, <2>3 DEF i
<1>5. ASSUME NEW x \in Nat PROVE nTraffic + x \in Int /\ nTraffic - x \in Int
  BY <1>1
<1>6. UNCHANGED szTraffic => Buffer'
  BY <1>1 DEF Buffer, Index
<1>7. UNCHANGED threadVars => Threaded'
  BY <1>1 DEF Threaded, threadVars, Index
<1>8. ASSUME NEW t \in Threads, NEW s \in Texts, Add(t, s) PROVE TypeOK'
  <2>1. s \in Seq(Nat) /\ Len(s) < TextSize
    <3>1. s \in Short
      BY Sizes
    <3>2. Character \subseteq Nat
      BY DEF Character
    <3>3. QED BY <3>1, <3>2, SeqMonotonic DEF Short
  <2>2. /\ pc' = [pc EXCEPT ![t] = "scan"] /\ text' = [text EXCEPT ![t] = s] /\ k' = k
        /\ raced' \in BOOLEAN
        /\ UNCHANGED <<szTraffic, nTraffic, open, frozen, shown, crashed, told>>
    BY <1>8 DEF Add, Go
  <2>3. Threaded'
    <3>1. text' \in [Threads -> Seq(Nat)] /\ \A u \in Threads : Len(text'[u]) < TextSize
      BY <1>1, <2>1, <2>2 DEF Threaded
    <3>2. QED BY <1>1, <2>2, <3>1 DEF Threaded, Places, Index
  <2>4. QED BY <1>1, <1>6, <2>2, <2>3, PartsTyped
<1>9. ASSUME NEW t \in Threads, Scan(t) PROVE TypeOK'
  <2>1. /\ UNCHANGED <<szTraffic, nTraffic, open, frozen, shown, text, crashed, raced, told>>
        /\ \/ k' = [k EXCEPT ![t] = NextLine(k[t])] /\ UNCHANGED pc
           \/ (Go(t, "append") \/ Go(t, "cut")) /\ UNCHANGED k
    BY <1>9 DEF Scan
  <2>2. NextLine(k[t]) \in Index
    BY <1>1, <1>4, NextLineInBuffer
  <2>3. Threaded'
    <3>1. CASE k' = [k EXCEPT ![t] = NextLine(k[t])] /\ UNCHANGED pc
      BY <1>1, <2>1, <2>2, <3>1 DEF Threaded, Index
    <3>2. CASE (Go(t, "append") \/ Go(t, "cut")) /\ UNCHANGED k
      BY <1>1, <2>1, <3>2, Going DEF Places
    <3>3. QED BY <2>1, <3>1, <3>2
  <2>4. QED BY <1>1, <1>6, <2>1, <2>3, PartsTyped
<1>10. ASSUME NEW t \in Threads, Drop(t) PROVE TypeOK'
  <2>1. /\ told' = Told(text[t] \o <<CR, LF>>) /\ Return(t)
        /\ UNCHANGED <<szTraffic, nTraffic, open, frozen, shown, crashed, raced>>
    BY <1>10 DEF Drop
  <2>2. told' \in Seq(Nat)
    BY <1>1, <1>4, <2>1, ToldIsText
  <2>3. Threaded'
    BY <1>1, <2>1, Returning
  <2>4. QED BY <1>1, <1>6, <2>1, <2>2, <2>3, PartsTyped
<1>11. ASSUME NEW t \in Threads, Cut(t) PROVE TypeOK'
  <2>1. /\ UNCHANGED <<nTraffic, open, frozen, shown, text, k, raced, told>>
        /\ \/ Go(t, "shrink") /\ UNCHANGED crashed
           \/ crashed' = "memmove" /\ UNCHANGED pc
    BY <1>11 DEF Cut
  <2>2. Buffer'
    BY <1>1, <1>4, <1>11, CutKeepsBuffer
  <2>3. Threaded'
    BY <1>1, <1>7, <2>1, Going DEF Places, threadVars
  <2>4. QED BY <1>1, <2>1, <2>2, <2>3, PartsTyped
<1>12. ASSUME NEW t \in Threads, Shrink(t) \/ Count(t) PROVE TypeOK'
  <2>1. /\ UNCHANGED <<szTraffic, open, frozen, shown, text, k, crashed, raced, told>>
        /\ Go(t, "append") \/ Go(t, "show")
        /\ nTraffic' = nTraffic - k[t] \/ nTraffic' = nTraffic + i(t)
    BY <1>12 DEF Shrink, Count
  <2>2. nTraffic' \in Int
    BY <1>4, <1>5, <2>1
  <2>3. Threaded'
    BY <1>1, <2>1, Going DEF Places
  <2>4. QED BY <1>1, <1>6, <2>1, <2>2, <2>3, PartsTyped
<1>13. ASSUME NEW t \in Threads, AppendText(t) PROVE TypeOK'
  <2>1. /\ UNCHANGED <<nTraffic, open, frozen, shown, text, k, raced>>
        /\ \/ Go(t, "count") /\ UNCHANGED crashed /\ told' = Told(text[t] \o <<CR, LF>>)
           \/ crashed' = "strcat_s" /\ UNCHANGED <<pc, told>>
    BY <1>13 DEF AppendText
  <2>2. Buffer'
    BY <1>1, <1>4, <1>13, AppendKeepsBuffer
  <2>3. told' \in Seq(Nat)
    BY <1>1, <1>4, <2>1, ToldIsText
  <2>4. Threaded'
    BY <1>1, <1>7, <2>1, Going DEF Places, threadVars
  <2>5. QED BY <1>1, <2>1, <2>2, <2>3, <2>4, PartsTyped
<1>14. ASSUME NEW t \in Threads, Show(t) PROVE TypeOK'
  <2>1. /\ shown' = Content \/ shown' = shown
        /\ Return(t)
        /\ UNCHANGED <<szTraffic, nTraffic, open, frozen, crashed, raced, told>>
    BY <1>14 DEF Show
  <2>2. Threaded'
    BY <1>1, <2>1, Returning
  <2>3. QED BY <1>1, <1>3, <1>6, <2>1, <2>2, PartsTyped
<1>15. CASE Clear
  <2>1. /\ szTraffic' = [szTraffic EXCEPT ![0] = NUL] /\ told' = <<>> /\ raced' \in BOOLEAN
        /\ Go(Main, "clear")
        /\ UNCHANGED <<nTraffic, open, frozen, shown, text, k, crashed>>
    BY <1>15 DEF Clear
  <2>2. Buffer'
    BY <1>1, <2>1, ClearKeepsBuffer
  <2>3. Threaded'
    BY <1>1, <1>2, <2>1, Going DEF Places
  <2>4. QED BY <1>1, <2>1, <2>2, <2>3, EmptySeq, PartsTyped
<1>16. CASE Cleared \/ Open \/ Opened
  <2>1. /\ nTraffic' = nTraffic \/ nTraffic' = 0
        /\ shown' = shown \/ shown' = Content
        /\ raced' \in BOOLEAN /\ open' \in BOOLEAN
        /\ Go(Main, "idle") \/ Go(Main, "open")
        /\ UNCHANGED <<szTraffic, frozen, text, k, crashed, told>>
    BY <1>1, <1>16 DEF Cleared, Open, Opened
  <2>2. Threaded'
    BY <1>1, <1>2, <2>1, Going DEF Places
  <2>3. QED BY <1>1, <1>3, <1>6, <2>1, <2>2, PartsTyped
<1>17. CASE Close \/ Freeze \/ UNCHANGED vars
  <2>1. /\ open' \in BOOLEAN /\ frozen' \in BOOLEAN
        /\ UNCHANGED <<szTraffic, nTraffic, shown, threadVars, crashed, raced, told>>
    BY <1>1, <1>17 DEF Close, Freeze, vars, threadVars
  <2>2. QED BY <1>1, <1>6, <1>7, <2>1, PartsTyped
<1>18. QED
  BY <1>8, <1>9, <1>10, <1>11, <1>12, <1>13, <1>14, <1>15, <1>16, <1>17, NextCases

\* The buffer always holds a string, every place in it that a thread keeps is
\* inside it and no text is longer than its own buffer, also after threads raced
\* in the text (UDPdispatcher.cpp:53-82): what a race can do is end the process.
THEOREM TypeCorrect == Spec => []TypeOK
<1>1. Init => TypeOK
  <2> SUFFICES ASSUME Init PROVE TypeOK
    OBVIOUS
  <2>1. 0 \in Index /\ Size - 1 \in Index /\ <<>> \in Seq(Nat) /\ Len(<<>>) < TextSize
    BY Sizes, TrafficAssumption
  <2>2. Buffer
    BY <2>1 DEF Init, Buffer, NUL
  <2>3. Threaded
    BY <2>1 DEF Init, Threaded, Places
  <2>4. nTraffic = 0 /\ shown \in Seq(Nat) /\ told \in Seq(Nat)
    BY EmptySeq DEF Init
  <2>5. /\ open \in BOOLEAN /\ frozen \in BOOLEAN /\ raced \in BOOLEAN
        /\ crashed \in {"no", "memmove", "strcat_s"}
    BY Zenon DEF Init
  <2>6. QED BY <2>2, <2>3, <2>4, <2>5, TypeParts
<1>2. TypeOK /\ [Next]_vars => TypeOK'
  BY TypeStep, TrafficAssumption
<1>3. QED BY <1>1, <1>2, PTL DEF Spec

-----------------------------------------------------------------------------
\* What the first s characters of the buffer are while one thread is at work:
\* the end of what was told, from the start of a line to the end of one.  The
\* last text told is a line of at most TextSize + 1 characters (it may hold
\* line ends of its own), so a line starts that near to the end: a trim that
\* stops at the first start of a line that leaves room stops before it.
LineStart(p) == p = 0 \/ szTraffic[p - 1] = LF

Lines(s, q) == told # <<>> => \E p \in q .. s - 1 : LineStart(p) /\ s - p <= TextSize + 1

Newest(s) ==
  /\ s <= Len(told)
  /\ \A x \in 0 .. s - 1 : szTraffic[x] = told[Len(told) - s + 1 + x]
  /\ s = Len(told) \/ told[Len(told) - s] = LF
  /\ LineStart(s)
  /\ Lines(s, 0)

Keeps(t) ==
  /\ pc[t] \in {"scan", "cut", "append", "open"} => Newest(nTraffic)
  /\ pc[t] \in {"scan", "cut"} => LineStart(k[t]) /\ Lines(nTraffic, k[t])
  /\ pc[t] = "cut" => k[t] # 0
  /\ pc[t] = "shrink" => Newest(nTraffic - k[t])
  /\ pc[t] = "count" => Newest(nTraffic + i(t))
  /\ pc[t] = "clear" => told = <<>>

Kept ==
  /\ Busy = {} => Newest(nTraffic)
  /\ \A t \in Threads : Keeps(t)

\* What a step of one thread, alone in the buffer, has to establish.
LEMMA OneKeeps ==
  ASSUME NEW t \in Threads, Alone(t)', Keeps(t)',
         pc'[t] \in {"idle", "show"} => Newest(nTraffic)'
  PROVE  Kept'
<1>1. \A u \in Threads \ {t} : pc'[u] \in {"idle", "show"}
  BY DEF Alone
<1>2. \A u \in Threads \ {t} : Keeps(u)'
  BY <1>1 DEF Keeps
<1>3. Busy' = {} => Newest(nTraffic)'
  BY DEF Busy
<1>4. QED BY <1>2, <1>3 DEF Kept

\* A text in the buffer stays what it was when only the count changes to its length.
LEMMA StillNewest ==
  ASSUME UNCHANGED <<szTraffic, told>>, NEW s, Newest(s), nTraffic' = s
  PROVE  Newest(nTraffic)'
BY DEF Newest, Lines, LineStart

\* Steps that touch neither the text nor a thread at work in it.
LEMMA AsideKeeps ==
  ASSUME Kept, UNCHANGED <<szTraffic, nTraffic, told>>,
         \A t \in Threads : \/ pc'[t] = pc[t] /\ k'[t] = k[t] /\ text'[t] = text[t]
                            \/ pc[t] = "show" /\ pc'[t] = "idle"
  PROVE  Kept'
<1>1. \A t \in Threads : pc[t] \in {"idle", "show"} <=> pc'[t] \in {"idle", "show"}
  OBVIOUS
<1>2. Busy' = Busy
  BY <1>1 DEF Busy
<1>3. ASSUME NEW t \in Threads PROVE Keeps(t)'
  <2>1. Keeps(t)
    BY DEF Kept
  <2>2. CASE pc'[t] = pc[t] /\ k'[t] = k[t] /\ text'[t] = text[t]
    <3>1. i(t)' = i(t)
      BY <2>2 DEF i
    <3>2. QED BY <2>1, <2>2, <3>1 DEF Keeps, Newest, Lines, LineStart
  <2>3. CASE pc'[t] = "idle"
    BY <2>3 DEF Keeps
  <2>4. QED BY <2>2, <2>3
<1>4. Busy' = {} => Newest(nTraffic)'
  BY <1>2 DEF Kept, Newest, Lines, LineStart
<1>5. QED BY <1>3, <1>4 DEF Kept

LEMMA AddKeeps ==
  ASSUME Sound, Kept, NEW t \in Threads, NEW s \in Texts, Add(t, s), ~raced'
  PROVE  Kept'
<1>1. /\ pc[t] = "idle" /\ Busy = {} /\ pc' = [pc EXCEPT ![t] = "scan"]
      /\ UNCHANGED <<szTraffic, nTraffic, k, told>>
  BY DEF Add, Go
<1>2. Alone(t)' /\ pc'[t] = "scan"
  BY <1>1, StaysAlone
<1>3. Newest(nTraffic) /\ k'[t] = 0
  BY <1>1 DEF Kept, Sound, Types
<1>4. Newest(nTraffic)'
  BY <1>1, <1>3, StillNewest
<1>5. LineStart(k[t])' /\ Lines(nTraffic, k[t])'
  BY <1>3, <1>4 DEF LineStart, Newest, Lines
<1>6. Keeps(t)'
  BY <1>2, <1>4, <1>5 DEF Keeps
<1>7. QED BY <1>2, <1>6, OneKeeps

\* The next line starts where it says, and no line starts before it.
LEMMA NextLineStarts ==
  ASSUME TrafficAssumption, NEW s, IsLength(s), NEW j \in Nat,
         NEW p \in Nat, j < p, p < s, LineStart(p)
  PROVE  NextLine(j) \in Nat /\ NextLine(j) <= p /\ LineStart(NextLine(j))
<1>1. Size \in Nat /\ s \in 0 .. Size - 1 /\ Index = 0 .. Size - 1
      /\ \A h \in 0 .. s - 1 : szTraffic[h] # NUL
  BY Sizes DEF IsLength
<1> DEFINE T == {e \in Index : szTraffic[e] \in {NUL, LF}}
           End(e) == /\ szTraffic[e] \in {NUL, LF}
                     /\ \A h \in j .. e - 1 : szTraffic[h] \notin {NUL, LF}
           e1 == CHOOSE e \in j .. Size - 1 : End(e)
           Ends == {e \in T : j <= e}
<1>2. p - 1 \in Nat /\ p - 1 \in Index /\ szTraffic[p - 1] = LF /\ j <= p - 1
  BY <1>1 DEF LineStart
<1>3. p - 1 \in Ends /\ Ends \in SUBSET Nat
  <2>1. \A e \in Ends : e \in Index
    OBVIOUS
  <2>2. \A e \in Ends : e \in Nat
    BY <1>1, <2>1
  <2>3. QED BY <1>2, <2>2
<1>4. PICK x \in Ends : \A y \in Ends : x <= y
  BY <1>3, LeastNumber
<1>5. x \in j .. Size - 1 /\ End(x)
  <2>1. x \in j .. Size - 1 /\ szTraffic[x] \in {NUL, LF}
    BY <1>1, <1>4
  <2>2. \A h \in j .. x - 1 : h \in Index /\ j <= h /\ ~(x <= h)
    BY <1>1, <2>1
  <2>3. \A h \in j .. x - 1 : szTraffic[h] \notin {NUL, LF}
    BY <1>4, <2>2
  <2>4. QED BY <2>1, <2>3
<1> HIDE DEF End
<1>6. e1 \in j .. Size - 1 /\ End(e1)
  BY <1>5
<1>7. NextLine(j) = IF szTraffic[e1] = LF THEN e1 + 1 ELSE e1
  BY DEF NextLine, e1, End
<1> HIDE DEF e1, Ends
<1>8. e1 <= p - 1
  <2>1. p - 1 \notin j .. e1 - 1
    BY <1>2, <1>6 DEF End
  <2>2. QED BY <1>1, <1>2, <1>6, <2>1
<1>9. e1 \in Nat /\ e1 \in 0 .. s - 1
  BY <1>1, <1>2, <1>6, <1>8
<1>10. szTraffic[e1] = LF
  BY <1>1, <1>6, <1>9 DEF End
<1>11. NextLine(j) = e1 + 1 /\ e1 + 1 - 1 = e1
  BY <1>7, <1>9, <1>10
<1>12. QED BY <1>8, <1>2, <1>9, <1>10, <1>11 DEF LineStart

\* What a thread knows of the text while it looks for the lines to trim.
LEMMA Looking ==
  ASSUME TrafficAssumption, told \in Seq(Nat), Sound, Kept,
         NEW t \in Threads, pc[t] \in {"scan", "cut"}
  PROVE  /\ k[t] \in Nat /\ nTraffic \in Nat /\ k[t] <= nTraffic /\ nTraffic < Size
         /\ IsLength(nTraffic) /\ Newest(nTraffic) /\ Len(told) \in Nat
         /\ LineStart(k[t]) /\ Lines(nTraffic, k[t])
         /\ k[t] < nTraffic <=> szTraffic[k[t]] # NUL
         /\ told = <<>> => nTraffic = 0
<1>1. IsLength(nTraffic) /\ k[t] <= nTraffic /\ k[t] \in Nat
  BY DEF Sound, At, Types
<1>2. Newest(nTraffic) /\ LineStart(k[t]) /\ Lines(nTraffic, k[t])
  BY DEF Kept, Keeps
<1>3. nTraffic \in Nat /\ nTraffic < Size
      /\ szTraffic[nTraffic] = NUL /\ \A j \in 0 .. nTraffic - 1 : szTraffic[j] # NUL
  BY <1>1, Sizes DEF IsLength
<1>4. k[t] < nTraffic <=> szTraffic[k[t]] # NUL
  <2>1. k[t] < nTraffic => k[t] \in 0 .. nTraffic - 1
    BY <1>1, <1>3
  <2>2. ~(k[t] < nTraffic) => k[t] = nTraffic
    BY <1>1, <1>3
  <2>3. QED BY <1>3, <2>1, <2>2
<1>5. Len(told) \in Nat /\ nTraffic <= Len(told)
  BY <1>2, LenProperties DEF Newest
<1>6. told = <<>> => nTraffic = 0
  <2>1. told = <<>> => Len(told) = 0
    OBVIOUS
  <2>2. QED BY <1>3, <1>5, <2>1
<1>7. QED BY <1>1, <1>2, <1>3, <1>4, <1>5, <1>6

LEMMA ScanKeeps ==
  ASSUME TrafficAssumption, told \in Seq(Nat), Sound, Kept, NEW t \in Threads, Scan(t)
  PROVE  Kept'
<1> DEFINE j == k[t]
           n == nTraffic
<1>1. pc[t] = "scan" /\ t \in Busy /\ UNCHANGED <<szTraffic, nTraffic, text, told>>
  BY DEF Scan, Busy
<1>2. /\ j \in Nat /\ n \in Nat /\ j <= n /\ IsLength(n) /\ Newest(n)
      /\ LineStart(j) /\ Lines(n, j) /\ (j < n <=> szTraffic[j] # NUL)
      /\ told = <<>> => n = 0
  BY <1>1, Looking
<1>3. Newest(nTraffic)'
  BY <1>1, <1>2, StillNewest
<1>4. pc \in [Threads -> Places] /\ k \in [Threads -> Nat]
  BY DEF Sound, Types, Places
<1>5. CASE szTraffic[j] # NUL /\ TooBig(t) /\ k' = [k EXCEPT ![t] = NextLine(j)] /\ UNCHANGED pc
  <2>1. j < n /\ told # <<>>
    BY <1>2, <1>5
  <2>2. PICK p \in j .. n - 1 : LineStart(p) /\ n - p <= TextSize + 1
    BY <1>2, <2>1 DEF Lines
  <2>3. n - j > TextSize + 1
    <3>1. i(t) \in Nat /\ i(t) <= TextSize + 1
      BY LineLength DEF Sound
    <3>2. ~(n - j + i(t) + 1 < 0)
      BY <1>2, <3>1
    <3>3. n - j + i(t) + 1 > Size
      BY <1>5, <3>2 DEF TooBig
    <3>4. QED BY <1>2, <3>1, <3>3, Sizes
  <2>4. p \in Nat /\ j < p /\ p < n
    <3>1. TextSize \in Nat
      BY Sizes
    <3>2. QED BY <1>2, <2>2, <2>3, <3>1
  <2>5. NextLine(j) \in Nat /\ NextLine(j) <= p /\ LineStart(NextLine(j))
    <3> HIDE DEF j, n
    <3>1. QED BY <1>2, <2>2, <2>4, NextLineStarts
  <2>6. p \in NextLine(j) .. n - 1
    BY <2>2, <2>4, <2>5
  <2>7. k'[t] = NextLine(j)
    BY <1>4, <1>5
  <2>8. LineStart(k[t])' /\ Lines(nTraffic, k[t])'
    BY <1>1, <2>2, <2>5, <2>6, <2>7 DEF LineStart, Lines
  <2>9. pc'[t] = "scan" /\ Alone(t)'
    BY <1>1, <1>5 DEF Sound, Alone
  <2>10. Keeps(t)'
    BY <1>3, <2>8, <2>9 DEF Keeps
  <2>11. QED BY <2>9, <2>10, OneKeeps
<1>6. CASE Go(t, IF j = 0 THEN "append" ELSE "cut") /\ UNCHANGED k
  <2> DEFINE x == IF j = 0 THEN "append" ELSE "cut"
  <2>1. pc' = [pc EXCEPT ![t] = x] /\ x \in {"append", "cut"} /\ (x = "cut" => j # 0)
    BY <1>6 DEF Go
  <2>2. Alone(t)' /\ pc'[t] = x
    BY <1>1, <2>1, StaysAlone
  <2>3. LineStart(k[t])' /\ Lines(nTraffic, k[t])'
    BY <1>1, <1>2, <1>6 DEF LineStart, Lines
  <2>4. pc'[t] \in {"append", "cut"} /\ (pc'[t] = "cut" => k'[t] # 0)
    BY <1>6, <2>1, <2>2
  <2>5. Keeps(t)'
    BY <1>3, <2>3, <2>4 DEF Keeps
  <2>6. QED BY <2>2, <2>4, <2>5, OneKeeps
<1>7. QED BY <1>5, <1>6 DEF Scan

\* Nothing is dropped when a thread is alone in the text.
LEMMA NoDrop ==
  ASSUME TrafficAssumption, told \in Seq(Nat), Sound, Kept, NEW t \in Threads, pc[t] = "cut"
  PROVE  k[t] < nTraffic
<1>1. /\ k[t] \in Nat /\ nTraffic \in Nat /\ k[t] <= nTraffic
      /\ Lines(nTraffic, k[t]) /\ (told = <<>> => nTraffic = 0)
  BY Looking
<1>2. k[t] # 0
  BY DEF Kept, Keeps
<1>3. told # <<>>
  BY <1>1, <1>2
<1>4. PICK p \in k[t] .. nTraffic - 1 : TRUE
  BY <1>1, <1>3 DEF Lines
<1>5. QED BY <1>1, <1>4

\* A trim moves the end of the text, from the start of a line, to the front.
LEMMA CutKeeps ==
  ASSUME TrafficAssumption, told \in Seq(Nat), Sound, Kept, NEW t \in Threads, Cut(t), Sound'
  PROVE  Kept'
<1> DEFINE a == k[t]
           n == nTraffic
           m == nTraffic - k[t]
<1>1. pc[t] = "cut" /\ t \in Busy /\ UNCHANGED <<nTraffic, text, k, told>>
  BY DEF Cut, Busy
<1>2. /\ a \in Nat /\ n \in Nat /\ a <= n /\ n < Size /\ Newest(n) /\ Len(told) \in Nat
      /\ LineStart(a) /\ Lines(n, a)
  BY <1>1, Looking
<1>3. a < n /\ a # 0 /\ Size \in Nat /\ Index = 0 .. Size - 1
  BY <1>1, Sizes, NoDrop DEF Kept, Keeps
<1>4. szTraffic' = Moved(a, n - a + 1) /\ pc' = [pc EXCEPT ![t] = "shrink"]
  <2>1. crashed' = "no"
    BY DEF Sound, Types
  <2>2. QED BY <2>1 DEF Cut, Go
<1>5. Alone(t)' /\ pc'[t] = "shrink"
  BY <1>1, <1>4, StaysAlone
<1>6. m \in Nat /\ m + a = n /\ m > 0 /\ m <= n /\ n - a + 1 = m + 1 /\ n = m + a /\ m = n - a
  BY <1>2, <1>3
<1>7. m' = m
  BY <1>1
<1>8. Newest(n) /\ Len(told') = Len(told) /\ told' = told
  BY <1>1, <1>2
<1>9. szTraffic' = [j \in Index |-> IF j < m + 1 THEN szTraffic[j + a] ELSE szTraffic[j]]
  BY <1>4, <1>6 DEF Moved
<1> HIDE DEF a, m, n
<1>10. ASSUME NEW x \in 0 .. m - 1 PROVE szTraffic'[x] = szTraffic[x + a] /\ x + a \in 0 .. n - 1
  <2>1. x \in Index /\ x < m + 1
    BY <1>2, <1>3, <1>6
  <2>2. QED BY <1>2, <1>6, <1>9, <2>1
<1>11. m <= Len(told)
  BY <1>2, <1>6 DEF Newest
<1>12. ASSUME NEW x \in 0 .. m - 1 PROVE szTraffic'[x] = told[Len(told) - m + 1 + x]
  <2>1. szTraffic'[x] = szTraffic[x + a] /\ x + a \in 0 .. n - 1
    BY <1>10
  <2>2. szTraffic[x + a] = told[Len(told) - n + 1 + (x + a)]
    BY <1>2, <2>1 DEF Newest
  <2>3. Len(told) - n + 1 + (x + a) = Len(told) - m + 1 + x
    BY <1>2, <1>6
  <2>4. QED BY <2>1, <2>2, <2>3
<1>13. told[Len(told) - m] = LF
  <2>1. szTraffic[a - 1] = LF /\ a - 1 \in 0 .. n - 1
    BY <1>2, <1>3 DEF LineStart
  <2>2. szTraffic[a - 1] = told[Len(told) - n + 1 + (a - 1)]
    BY <1>2, <2>1 DEF Newest
  <2>3. Len(told) - n + 1 + (a - 1) = Len(told) - m
    BY <1>2, <1>6
  <2>4. QED BY <2>1, <2>2, <2>3
<1>14. szTraffic'[m - 1] = LF
  <2>1. m - 1 \in 0 .. m - 1 /\ m - 1 + a = n - 1 /\ n # 0
    BY <1>2, <1>6
  <2>2. szTraffic'[m - 1] = szTraffic[n - 1]
    BY <1>10, <2>1
  <2>3. QED BY <1>2, <2>1, <2>2 DEF Newest, LineStart
<1>15. told # <<>> => \E q \in 0 .. m - 1 : LineStart(q)' /\ m - q <= TextSize + 1
  <2> SUFFICES ASSUME told # <<>>
               PROVE  \E q \in 0 .. m - 1 : (q = 0 \/ szTraffic'[q - 1] = LF) /\ m - q <= TextSize + 1
    BY DEF LineStart
  <2>1. PICK p \in a .. n - 1 : LineStart(p) /\ n - p <= TextSize + 1
    BY <1>2 DEF Lines
  <2>2. p - a \in 0 .. m - 1 /\ m - (p - a) <= TextSize + 1
    <3>1. TextSize \in Nat
      BY Sizes
    <3>2. m - (p - a) = n - p
      BY <1>2, <1>6, <2>1
    <3>3. QED BY <1>2, <1>6, <2>1, <3>1, <3>2
  <2>3. p - a # 0 => szTraffic'[(p - a) - 1] = LF
    <3>1. p - a # 0 => (p - a) - 1 \in 0 .. m - 1 /\ (p - a) - 1 + a = p - 1
      BY <1>2, <1>6, <2>1, <2>2
    <3>2. p - a # 0 => szTraffic'[(p - a) - 1] = szTraffic[p - 1]
      BY <1>10, <3>1
    <3>3. p # 0
      BY <1>2, <1>3, <2>1
    <3>4. QED BY <2>1, <3>2, <3>3 DEF LineStart
  <2>4. QED BY <2>2, <2>3
<1>16. Newest(m)'
  BY <1>7, <1>8, <1>11, <1>12, <1>13, <1>14, <1>15 DEF Newest, Lines, LineStart
<1>17. Keeps(t)'
  BY <1>5, <1>16 DEF Keeps, m
<1>18. QED BY <1>5, <1>17, OneKeeps

LEMMA ShrinkKeeps ==
  ASSUME TrafficAssumption, Sound, Kept, NEW t \in Threads, Shrink(t)
  PROVE  Kept'
<1>1. /\ pc[t] = "shrink" /\ t \in Busy /\ pc' = [pc EXCEPT ![t] = "append"]
      /\ nTraffic' = nTraffic - k[t] /\ UNCHANGED <<szTraffic, told>>
  BY DEF Shrink, Busy, Go
<1>2. Alone(t)' /\ pc'[t] = "append"
  BY <1>1, StaysAlone
<1>3. Newest(nTraffic - k[t])
  BY <1>1 DEF Kept, Keeps
<1>4. Newest(nTraffic)'
  BY <1>1, <1>3, StillNewest
<1>5. Keeps(t)'
  BY <1>2, <1>4 DEF Keeps
<1>6. QED BY <1>2, <1>5, OneKeeps

\* What is remembered is the end of what was told.
LEMMA TheEnd ==
  ASSUME TrafficAssumption, told \in Seq(Nat), NEW s \in Seq(Nat), ~raced,
         NEW all, Joined(all, told, s)
  PROVE  /\ all \in Seq(Nat) /\ Len(all) = Len(told) + Len(s)
         /\ Told(s) \in Seq(Nat) /\ Len(Told(s)) \in Nat
         /\ Len(Told(s)) <= Len(all)
         /\ Len(Told(s)) = Len(all) \/ Len(Told(s)) = Recent
         /\ Len(all) <= Recent => Len(Told(s)) = Len(all)
         /\ \A d \in 0 .. Len(Told(s)) - 1 : Told(s)[Len(Told(s)) - d] = all[Len(all) - d]
<1> DEFINE from == IF Len(all) > Recent THEN Len(all) - Recent ELSE 0
           new == SubSeq(all, from + 1, Len(all))
<1>1. all \in Seq(Nat) /\ Len(all) \in Nat /\ Recent \in Nat /\ Len(all) = Len(told) + Len(s)
  BY ConcatProperties, LenProperties DEF TrafficAssumption, Joined
<1>2. Told(s) = new
  BY Zenon DEF Told, Joined
<1> DEFINE A == Len(all)
<1>3. from \in Nat /\ from <= A /\ (A - from = A \/ A - from = Recent) /\ (A <= Recent => from = 0)
  <2>1. A \in Nat /\ Recent \in Nat /\ from = IF A > Recent THEN A - Recent ELSE 0
    BY <1>1
  <2> HIDE DEF A, from
  <2>2. CASE A > Recent
    BY <2>1, <2>2
  <2>3. CASE ~(A > Recent)
    BY <2>1, <2>3
  <2>4. QED BY <2>2, <2>3
<1> HIDE DEF from
<1>4. \A j \in from + 1 .. Len(all) : all[j] \in Nat
  <2>1. \A j \in from + 1 .. Len(all) : j \in 1 .. Len(all)
    BY <1>1, <1>3
  <2>2. QED BY <1>1, <2>1, ElementOfSeq
<1>5. from + 1 \in Int /\ Len(all) \in Int
  BY <1>1, <1>3
<1>6. /\ new \in Seq(Nat)
      /\ Len(new) = IF from + 1 <= Len(all) THEN Len(all) - (from + 1) + 1 ELSE 0
      /\ \A j \in 1 .. Len(all) - (from + 1) + 1 : new[j] = all[(from + 1) + j - 1]
  BY <1>4, <1>5, SubSeqProperties
<1> HIDE DEF new
<1>7. Len(new) = Len(all) - from /\ Len(new) \in Nat
  BY <1>1, <1>3, <1>6
<1>8. ASSUME NEW d \in 0 .. Len(new) - 1 PROVE new[Len(new) - d] = all[Len(all) - d]
  <2>1. Len(new) - d \in 1 .. Len(all) - (from + 1) + 1
    BY <1>1, <1>3, <1>7
  <2>2. (from + 1) + (Len(new) - d) - 1 = Len(all) - d
    BY <1>1, <1>3, <1>7
  <2>3. QED BY <1>6, <2>1, <2>2
<1>9. /\ Len(new) <= A /\ (Len(new) = A \/ Len(new) = Recent) /\ (A <= Recent => Len(new) = A)
  <2> HIDE DEF A
  <2>1. A \in Nat
    BY <1>1 DEF A
  <2>2. Len(new) = A - from
    BY <1>7 DEF A
  <2>3. QED BY <1>3, <2>1, <2>2
<1> DEFINE T == Told(s)
<1>10. T = new
  BY <1>2
<1> HIDE DEF T, new
<1>11. /\ T \in Seq(Nat) /\ Len(T) \in Nat
       /\ Len(T) <= A /\ (Len(T) = A \/ Len(T) = Recent) /\ (A <= Recent => Len(T) = A)
       /\ \A d \in 0 .. Len(T) - 1 : T[Len(T) - d] = all[A - d]
  BY <1>6, <1>7, <1>8, <1>9, <1>10
<1>12. QED BY <1>1, <1>11 DEF T

LEMMA Sums ==
  ASSUME NEW n \in Nat, NEW z \in Nat, NEW l \in Nat, NEW m \in Nat, NEW e, NEW room \in Nat,
         e = n + z, n <= l, z >= 2, e + 1 <= room,
         m <= l + z, m = l + z \/ room <= m
  PROVE  /\ e \in Nat /\ e >= 2 /\ e <= l + z /\ e <= m /\ l + z - e = l - n /\ e < room
         /\ \A x \in 0 .. e - 1 :
              /\ l - n + 1 + x \in 1 .. l + z
              /\ l + z - (l - n + 1 + x) \in 0 .. m - 1
              /\ m - (l + z - (l - n + 1 + x)) = m - e + 1 + x
         /\ n # l /\ e # m => /\ l - n \in 1 .. l + z /\ l + z - (l - n) \in 0 .. m - 1
                              /\ m - (l + z - (l - n)) = m - e /\ l - n <= l
OBVIOUS

\* The new text goes behind the others, in the buffer as in what was told.
LEMMA AppendKeeps ==
  ASSUME TrafficAssumption, told \in Seq(Nat), Sound, Kept, NEW t \in Threads,
         AppendText(t), Sound', ~raced
  PROVE  Kept'
<1> DEFINE s == text[t] \o <<CR, LF>>
           n == nTraffic
           z == i(t)
           L == Len(told)
           e == n + z
           N == Len(told')
<1>1. pc[t] = "append" /\ t \in Busy /\ UNCHANGED <<nTraffic, text>>
  BY DEF AppendText, Busy
<1>2. IsLength(n) /\ Room(t, n) /\ Newest(n) /\ Types
  BY <1>1 DEF Sound, At, Kept, Keeps
<1>3. IndexOfNul = n
  BY <1>2, TheLength
<1>4. /\ z \in Nat /\ z <= TextSize + 1 /\ z >= 2 /\ Len(s) = z /\ s \in Seq(Nat) /\ s[z] = LF
      /\ z = Len(text[t]) + 2
  <2>1. z \in Nat /\ z <= TextSize + 1 /\ Len(s) = z /\ text[t] \in Seq(Nat)
    BY <1>2, LineLength
  <2>2. <<CR, LF>> \in Seq(Nat) /\ Len(<<CR, LF>>) = 2
    BY DEF CR, LF
  <2>3. Len(text[t]) \in Nat /\ z = Len(text[t]) + 2
    BY <2>1, LenProperties DEF i
  <2>4. s \in Seq(Nat)
    BY <2>1, <2>2, ConcatProperties
  <2>5. s[z] = LF
    <3> DEFINE tail == <<CR, LF>>
               front == text[t]
    <3>1. front \in Seq(Nat) /\ tail \in Seq(Nat) /\ s = front \o tail
          /\ Len(tail) = 2 /\ tail[2] = LF
      BY <2>1, <2>2
    <3>2. z \in 1 .. Len(front) + Len(tail) /\ ~(z <= Len(front)) /\ z - Len(front) = 2
      BY <2>2, <2>3
    <3> HIDE DEF tail, front, s, z
    <3>3. s[z] = tail[z - Len(front)]
      BY <3>1, <3>2, ConcatProperties
    <3>4. QED BY <3>1, <3>2, <3>3
  <2>6. QED BY <2>1, <2>3, <2>4, <2>5
<1>5. /\ szTraffic' = [j \in Index |->
           IF j \in n .. n + z - 1 THEN s[j - n + 1]
           ELSE IF j = n + z THEN NUL ELSE szTraffic[j]]
      /\ pc' = [pc EXCEPT ![t] = "count"] /\ told' = Told(s)
  <2>1. crashed' = "no"
    BY DEF Sound, Types
  <2>2. QED BY <1>3, <1>4, <2>1 DEF AppendText, Go
<1>6. Alone(t)' /\ pc'[t] = "count"
  BY <1>1, <1>5, StaysAlone
<1>7. (nTraffic + i(t))' = e
  BY <1>1 DEF i
<1>8. /\ Size \in Nat /\ TextSize \in Nat /\ Recent \in Nat /\ Size <= Recent
      /\ Index = 0 .. Size - 1 /\ n \in Nat /\ n + z + 1 <= Size /\ L \in Nat /\ n <= L
  <2>1. Size \in Nat /\ TextSize \in Nat /\ Index = 0 .. Size - 1 /\ n \in Index
    BY <1>2, Sizes DEF IsLength
  <2>2. Recent \in Nat /\ Size + TextSize + 1 <= Recent
    BY DEF TrafficAssumption
  <2>3. n + z + 1 <= Size /\ n <= L /\ L \in Nat
    BY <1>2, LenProperties DEF Room, Newest
  <2>4. QED BY <2>1, <2>2, <2>3
<1> DEFINE all == told \o s
<1>9. Joined(all, told, s)
  BY DEF Joined
<1> HIDE DEF s
<1>10. \A j \in 1 .. L + z : all[j] = IF j <= L THEN told[j] ELSE s[j - L]
  BY <1>4, ConcatProperties
<1> HIDE DEF all
<1>11. /\ N \in Nat /\ Len(all) = L + z /\ N <= Len(all)
       /\ N = Len(all) \/ N = Recent
       /\ Len(all) <= Recent => N = Len(all)
       /\ \A d \in 0 .. N - 1 : told'[N - d] = all[Len(all) - d]
  BY <1>4, <1>5, <1>9, TheEnd
<1> HIDE DEF z, L, N
<1>12. /\ e \in Nat /\ e >= 2 /\ e <= L + z /\ e <= N /\ e = n + z /\ L + z - e = L - n
       /\ e < Size
       /\ \A x \in 0 .. e - 1 :
            /\ L - n + 1 + x \in 1 .. L + z
            /\ L + z - (L - n + 1 + x) \in 0 .. N - 1
            /\ N - (L + z - (L - n + 1 + x)) = N - e + 1 + x
       /\ n # L /\ e # N => /\ L - n \in 1 .. L + z /\ L + z - (L - n) \in 0 .. N - 1
                            /\ N - (L + z - (L - n)) = N - e /\ L - n <= L
  <2> HIDE DEF e, n
  <2>1. n + z = e /\ n \in Nat /\ z \in Nat /\ L \in Nat /\ N \in Nat /\ Size \in Nat
    BY <1>4, <1>8, <1>11 DEF e
  <2>2. n <= L /\ z >= 2 /\ e + 1 <= Size /\ N <= L + z /\ (N = L + z \/ Size <= N)
    BY <1>4, <1>8, <1>11 DEF e
  <2>3. QED BY <2>1, <2>2, Sums
<1> HIDE DEF e, n
\* The buffer before the new text and the new text, and both in what was told.
<1>13. ASSUME NEW x \in 0 .. n - 1
       PROVE  szTraffic'[x] = szTraffic[x] /\ szTraffic[x] = told[L - n + 1 + x]
  <2>1. x \in Index /\ x \notin n .. n + z - 1 /\ x # n + z
    BY <1>4, <1>8
  <2>2. szTraffic'[x] = szTraffic[x]
    BY <1>5, <2>1
  <2>3. QED BY <1>2, <2>2 DEF Newest, L
<1>14. ASSUME NEW x \in n .. e - 1
       PROVE  szTraffic'[x] = s[x - n + 1]
  <2>1. x \in Index /\ x \in n .. n + z - 1
    BY <1>4, <1>8, <1>12
  <2>2. QED BY <1>5, <2>1
<1>15. ASSUME NEW j \in 1 .. L + z, L + z - j \in 0 .. N - 1
       PROVE  told'[N - (L + z - j)] = IF j <= L THEN told[j] ELSE s[j - L]
  <2>1. Len(all) - (L + z - j) = j
    BY <1>4, <1>8, <1>11
  <2>2. told'[N - (L + z - j)] = all[j]
    BY <1>11, <1>15, <2>1
  <2>3. QED BY <1>10, <2>2
<1>16. ASSUME NEW x \in 0 .. e - 1
       PROVE  szTraffic'[x] = told'[N - e + 1 + x]
  <2> DEFINE j == L - n + 1 + x
  <2>1. j \in 1 .. L + z /\ L + z - j \in 0 .. N - 1 /\ N - (L + z - j) = N - e + 1 + x
    BY <1>12
  <2>2. told'[N - e + 1 + x] = IF j <= L THEN told[j] ELSE s[j - L]
    BY <1>15, <2>1
  <2>3. CASE x < n
    <3>1. j <= L /\ x \in 0 .. n - 1
      BY <1>8, <2>3
    <3>2. QED BY <1>13, <2>2, <3>1
  <2>4. CASE ~(x < n)
    <3>1. ~(j <= L) /\ j - L = x - n + 1 /\ x \in n .. e - 1
      BY <1>8, <1>12, <2>4
    <3>2. QED BY <1>14, <2>2, <3>1
  <2>5. QED BY <2>3, <2>4
<1>17. e = N \/ told'[N - e] = LF
  <2>1. CASE n = L
    <3>1. L + z <= Recent
      BY <1>8, <1>12, <2>1
    <3>2. QED BY <1>11, <1>12, <2>1, <3>1
  <2>2. CASE n # L /\ e # N
    <3>1. L - n \in 1 .. L + z /\ L + z - (L - n) \in 0 .. N - 1
          /\ N - (L + z - (L - n)) = N - e /\ L - n <= L
      BY <1>12, <2>2
    <3>2. told'[N - e] = told[L - n]
      BY <1>15, <3>1
    <3>3. told[L - n] = LF
      BY <1>2, <2>2 DEF Newest, L
    <3>4. QED BY <3>2, <3>3
  <2>3. QED BY <2>1, <2>2
<1>18. szTraffic'[e - 1] = LF
  <2>1. e - 1 \in n .. e - 1 /\ (e - 1) - n + 1 = z
    BY <1>4, <1>8, <1>12
  <2>2. szTraffic'[e - 1] = s[z]
    BY <1>14, <2>1
  <2>3. QED BY <1>4, <2>2
<1>19. n \in 0 .. e - 1 /\ (n = 0 \/ szTraffic'[n - 1] = LF) /\ e - n <= TextSize + 1
  <2>1. n \in 0 .. e - 1 /\ e - n <= TextSize + 1
    BY <1>4, <1>8, <1>12
  <2>2. n # 0 => n - 1 \in 0 .. n - 1
    BY <1>8
  <2>3. n # 0 => szTraffic'[n - 1] = szTraffic[n - 1]
    BY <1>13, <2>2
  <2>4. n = 0 \/ szTraffic[n - 1] = LF
    BY <1>2 DEF Newest, LineStart
  <2>5. QED BY <2>1, <2>3, <2>4
<1>20. /\ e <= Len(told')
       /\ \A x \in 0 .. e - 1 : szTraffic'[x] = told'[Len(told') - e + 1 + x]
       /\ e = Len(told') \/ told'[Len(told') - e] = LF
  BY <1>12, <1>16, <1>17 DEF N
<1>21. Newest(nTraffic + i(t))'
  BY <1>7, <1>18, <1>19, <1>20 DEF Newest, Lines, LineStart
<1>22. Keeps(t)'
  BY <1>6, <1>21 DEF Keeps
<1>23. QED BY <1>6, <1>22, OneKeeps

LEMMA CountKeeps ==
  ASSUME TrafficAssumption, Sound, Kept, NEW t \in Threads, Count(t)
  PROVE  Kept'
<1>1. /\ pc[t] = "count" /\ t \in Busy /\ pc' = [pc EXCEPT ![t] = "show"]
      /\ nTraffic' = nTraffic + i(t) /\ UNCHANGED <<szTraffic, told>>
  BY DEF Count, Busy, Go
<1>2. Alone(t)' /\ pc'[t] = "show"
  BY <1>1, StaysAlone
<1>3. Newest(nTraffic + i(t))
  BY <1>1 DEF Kept, Keeps
<1>4. Newest(nTraffic)'
  BY <1>1, <1>3, StillNewest
<1>5. Keeps(t)'
  BY <1>2 DEF Keeps
<1>6. QED BY <1>2, <1>4, <1>5, OneKeeps

LEMMA ShowKeeps ==
  ASSUME Sound, Kept, NEW t \in Threads, Show(t)
  PROVE  Kept'
<1>1. /\ pc[t] = "show" /\ pc' = [pc EXCEPT ![t] = "idle"]
      /\ text' = [text EXCEPT ![t] = <<>>] /\ k' = [k EXCEPT ![t] = 0]
      /\ UNCHANGED <<szTraffic, nTraffic, told>>
  BY DEF Show, Return
<1>2. \A u \in Threads : \/ pc'[u] = pc[u] /\ k'[u] = k[u] /\ text'[u] = text[u]
                         \/ pc[u] = "show" /\ pc'[u] = "idle"
  BY <1>1 DEF Sound, Types
<1>3. QED BY <1>1, <1>2, AsideKeeps

\* What the windows' thread does to the text itself.
LEMMA MainKeeps ==
  ASSUME Sound, Kept, Clear \/ Cleared \/ Open \/ Opened, ~raced'
  PROVE  Kept'
<1>1. Main \in Threads
  BY DEF Threads
<1>2. CASE Clear
  <2>1. Busy = {} /\ pc' = [pc EXCEPT ![Main] = "clear"] /\ told' = <<>>
    BY <1>2 DEF Clear, Go
  <2>2. Alone(Main)' /\ pc'[Main] = "clear"
    BY <1>1, <2>1, StaysAlone
  <2>3. Keeps(Main)'
    BY <2>1, <2>2 DEF Keeps
  <2>4. QED BY <1>1, <2>2, <2>3, OneKeeps
<1>3. CASE Cleared
  <2>1. /\ pc[Main] = "clear" /\ Main \in Busy /\ pc' = [pc EXCEPT ![Main] = "idle"]
        /\ nTraffic' = 0 /\ UNCHANGED told
    BY <1>1, <1>3 DEF Cleared, Go, Busy
  <2>2. Alone(Main)' /\ pc'[Main] = "idle"
    BY <1>1, <2>1, StaysAlone
  <2>3. told' = <<>> /\ Len(told') = 0
    BY <1>1, <2>1 DEF Kept, Keeps
  <2>4. \A x \in 0 .. 0 - 1 : FALSE
    OBVIOUS
  <2>5. Newest(nTraffic)'
    BY <2>1, <2>3, <2>4 DEF Newest, LineStart, Lines
  <2>6. Keeps(Main)'
    BY <2>2 DEF Keeps
  <2>7. QED BY <1>1, <2>2, <2>5, <2>6, OneKeeps
<1>4. CASE Open
  <2>1. Busy = {} /\ pc' = [pc EXCEPT ![Main] = "open"]
        /\ UNCHANGED <<szTraffic, nTraffic, told>>
    BY <1>4 DEF Open, Go
  <2>2. Alone(Main)' /\ pc'[Main] = "open"
    BY <1>1, <2>1, StaysAlone
  <2>3. Newest(nTraffic)'
    BY <2>1, StillNewest DEF Kept
  <2>4. Keeps(Main)'
    BY <2>2, <2>3 DEF Keeps
  <2>5. QED BY <1>1, <2>2, <2>3, <2>4, OneKeeps
<1>5. CASE Opened
  <2>1. /\ pc[Main] = "open" /\ Main \in Busy /\ pc' = [pc EXCEPT ![Main] = "idle"]
        /\ UNCHANGED <<szTraffic, nTraffic, told>>
    BY <1>1, <1>5 DEF Opened, Go, Busy
  <2>2. Alone(Main)' /\ pc'[Main] = "idle"
    BY <1>1, <2>1, StaysAlone
  <2>3. Newest(nTraffic)'
    BY <1>1, <2>1, StillNewest DEF Kept, Keeps
  <2>4. Keeps(Main)'
    BY <2>2 DEF Keeps
  <2>5. QED BY <1>1, <2>2, <2>3, <2>4, OneKeeps
<1>6. QED BY <1>2, <1>3, <1>4, <1>5

LEMMA KeptStep ==
  ASSUME TrafficAssumption, TypeOK, TextInv, TextInv', raced \/ Kept, [Next]_vars
  PROVE  (raced \/ Kept)'
<1>1. raced => raced'
  BY NextCases DEF vars, Add, Scan, Drop, Cut, Shrink, AppendText, Count, Show, Clear,
       Cleared, Open, Opened, Close, Freeze
<1>2. SUFFICES ASSUME Sound, Kept, ~raced, ~raced', Sound' PROVE Kept'
  BY <1>1 DEF TextInv
<1>3. told \in Seq(Nat)
  BY DEF TypeOK
<1>4. ASSUME NEW t \in Threads, NEW s \in Texts, Add(t, s) PROVE Kept'
  BY <1>2, <1>4, AddKeeps
<1>5. ASSUME NEW t \in Threads, Drop(t) PROVE FALSE
  <2>1. pc[t] = "cut" /\ szTraffic[k[t]] = NUL
    BY <1>5 DEF Drop
  <2>2. QED BY <1>2, <1>3, <2>1, NoDrop, Looking
<1>6. ASSUME NEW t \in Threads, Scan(t) \/ Cut(t) \/ Shrink(t) PROVE Kept'
  BY <1>2, <1>3, <1>6, ScanKeeps, CutKeeps, ShrinkKeeps
<1>7. ASSUME NEW t \in Threads, AppendText(t) \/ Count(t) \/ Show(t) PROVE Kept'
  BY <1>2, <1>3, <1>7, AppendKeeps, CountKeeps, ShowKeeps
<1>8. CASE Clear \/ Cleared \/ Open \/ Opened
  BY <1>2, <1>8, MainKeeps
<1>9. CASE Close \/ Freeze \/ UNCHANGED vars
  <2>1. UNCHANGED <<szTraffic, nTraffic, pc, text, k, told>>
    BY <1>9 DEF Close, Freeze, vars, threadVars
  <2>2. QED BY <1>2, <2>1, AsideKeeps
<1>10. QED BY <1>4, <1>5, <1>6, <1>7, <1>8, <1>9, NextCases

LEMMA ContentIsTheEnd ==
  ASSUME TrafficAssumption, TypeOK, TextInv, raced \/ Kept
  PROVE  KeepsTheNewest
<1> SUFFICES ASSUME ~raced, Busy = {}
    PROVE  \E j \in 0 .. Len(told) :
             /\ Content = SubSeq(told, j + 1, Len(told))
             /\ j = 0 \/ told[j] = LF
             /\ told # <<>> => j < Len(told)
  BY DEF KeepsTheNewest
<1> DEFINE n == nTraffic
           l == Len(told)
           j == l - n
           end == SubSeq(told, j + 1, l)
<1>1. IsLength(n) /\ Newest(n)
  BY DEF TextInv, Sound, Kept
<1>2. IndexOfNul = n
  BY <1>1, TheLength
<1>3. told \in Seq(Nat) /\ l \in Nat
  BY LenProperties DEF TypeOK
<1>4. n \in Nat /\ n <= l
  BY <1>1, Sizes DEF IsLength, Newest
<1>5. \A x \in 0 .. n - 1 : szTraffic[x] = told[l - n + 1 + x]
  BY <1>1 DEF Newest
<1>6. j \in 0 .. l /\ l - j = n
  BY <1>3, <1>4
<1>7. j = 0 \/ told[j] = LF
  <2>1. n = l \/ told[l - n] = LF
    BY <1>1 DEF Newest
  <2>2. n = l => j = 0
    BY <1>3, <1>4
  <2>3. QED BY <2>1, <2>2
<1>8. told # <<>> => j < l
  <2>1. told # <<>> => \E p \in 0 .. n - 1 : TRUE
    BY <1>1 DEF Newest, Lines
  <2>2. (\E p \in 0 .. n - 1 : TRUE) => j < l
    BY <1>3, <1>4
  <2>3. QED BY <2>1, <2>2
<1>9. Content = [x \in 1 .. n |-> szTraffic[x - 1]]
  BY <1>2 DEF Content
<1>10. Content \in Seq(Nat) /\ Len(Content) = n
  BY <1>2, TypeParts, ContentIsText
<1> HIDE DEF n, l
<1>11. \A x \in j + 1 .. l : told[x] \in Nat
  <2>1. \A x \in j + 1 .. l : x \in 1 .. l
    BY <1>3, <1>4
  <2>2. QED BY <1>3, <2>1, ElementOfSeq DEF l
<1>12. j + 1 \in Int /\ l \in Int
  BY <1>3, <1>4
<1>13. /\ end \in Seq(Nat)
       /\ Len(end) = IF j + 1 <= l THEN l - (j + 1) + 1 ELSE 0
       /\ \A x \in 1 .. l - (j + 1) + 1 : end[x] = told[(j + 1) + x - 1]
  <2> DEFINE a == j + 1
  <2>1. a \in Int /\ l \in Int /\ \A x \in a .. l : told[x] \in Nat
    BY <1>11, <1>12
  <2> HIDE DEF a
  <2>2. /\ SubSeq(told, a, l) \in Seq(Nat)
        /\ Len(SubSeq(told, a, l)) = IF a <= l THEN l - a + 1 ELSE 0
        /\ \A x \in 1 .. l - a + 1 : SubSeq(told, a, l)[x] = told[a + x - 1]
    BY <2>1, SubSeqProperties
  <2>3. QED BY <2>2 DEF a
<1> HIDE DEF end
<1>14. Len(end) = n
  BY <1>3, <1>4, <1>13
<1>15. ASSUME NEW x \in 1 .. n PROVE Content[x] = end[x]
  <2>1. x - 1 \in 0 .. n - 1 /\ l - n + 1 + (x - 1) = (j + 1) + x - 1
        /\ x \in 1 .. l - (j + 1) + 1
    BY <1>3, <1>4
  <2>2. Content[x] = szTraffic[x - 1]
    BY <1>9
  <2>3. QED BY <1>5, <1>13, <2>1, <2>2
<1>16. Content = end
  BY <1>10, <1>13, <1>14, <1>15, SeqEqual
<1>17. QED BY <1>6, <1>7, <1>8, <1>16 DEF l, end

\* What is left after any number of trims is the end of what was reported, whole
\* lines of it, and never without the newest text, as long as no two threads
\* were in the text at once, for any texts and sizes in the program's relation:
\* with them the branch that drops the new text is never taken
\* (UDPdispatcher.cpp:60-77).
THEOREM TrimsTheOldest == Spec => []KeepsTheNewest
<1>1. Init => raced \/ Kept
  <2> SUFFICES ASSUME Init PROVE Kept
    OBVIOUS
  <2>1. \A t \in Threads : pc[t] = "idle"
    BY DEF Init
  <2>2. told = <<>> /\ nTraffic = 0 /\ Len(told) = 0
    BY DEF Init
  <2>3. \A x \in 0 .. 0 - 1 : FALSE
    OBVIOUS
  <2>4. Newest(nTraffic)
    BY <2>2, <2>3 DEF Newest, LineStart, Lines
  <2>5. QED BY <2>1, <2>4 DEF Kept, Keeps
<1>2. TypeOK /\ TextInv /\ TextInv' /\ (raced \/ Kept) /\ [Next]_vars => (raced \/ Kept)'
  BY KeptStep, TrafficAssumption
<1>3. TypeOK /\ TextInv /\ (raced \/ Kept) => KeepsTheNewest
  BY ContentIsTheEnd, TrafficAssumption
<1>4. QED BY <1>1, <1>2, <1>3, TypeCorrect, TextAlways, PTL DEF Spec

=============================================================================
