--------------------------- MODULE Reader_proofs ---------------------------
(***************************************************************************)
(* Proofs about the reader, for any messages and any other datagrams.      *)
(***************************************************************************)
EXTENDS Reader, SequenceLemmas

\* The strings among the fields of a type.
Strings(type) == {j \in DOMAIN Layout(type) : Layout(type)[j] = "utf8"}

Kinds == {"utf8", "uint8", "bool", "uint32", "uint64", "double"}

\* Each type's constructor reads fields of these kinds only, and its destructor
\* frees each string among them: the two lists are written apart in the code.
LEMMA Layouts ==
  ASSUME NEW type \in 0 .. 2
  PROVE  /\ Layout(type) \in Seq(Kinds)
         /\ Strings(type) \subseteq Deleted(type)
<1>1. Layout(0) \in Seq(Kinds) /\ Strings(0) \subseteq Deleted(0)
  BY DEF Layout, Deleted, Strings, Kinds, heartbeat
<1>2. Layout(1) \in Seq(Kinds) /\ Strings(1) \subseteq Deleted(1)
  BY DEF Layout, Deleted, Strings, Kinds, status
<1>3. Layout(2) \in Seq(Kinds) /\ Strings(2) \subseteq Deleted(2)
  BY DEF Layout, Deleted, Strings, Kinds, decode
<1>4. QED
  <2>1. type = 0 \/ type = 1 \/ type = 2
    OBVIOUS
  <2>2. QED BY <1>1, <1>2, <1>3, <2>1
-----------------------------------------------------------------------------
\* Bytes of the buffer, and those of them that are the datagram's.
LEMMA AtIs ==
  ASSUME NEW d \in Seq(Byte), NEW a \in Nat, NEW k \in Nat
  PROVE  /\ At(d, a, k) \in Seq(Byte) /\ Len(At(d, a, k)) = k
         /\ \A j \in 1 .. k : At(d, a, k)[j] \in Byte
         /\ \A j \in 1 .. k : a + j <= Len(d) => At(d, a, k)[j] = d[a + j]
<1>1. Len(d) \in Nat /\ 0 \in Byte
  BY LenProperties DEF Byte
<1> DEFINE b(j) == IF a + j <= Len(d) THEN d[a + j] ELSE 0
<1>2. ASSUME NEW j \in 1 .. k PROVE b(j) \in Byte
  <2>1. CASE a + j <= Len(d)
    <3>1. a + j \in 1 .. Len(d)
      BY <1>1, <2>1
    <3>2. d[a + j] \in Byte
      BY <3>1, ElementOfSeq
    <3>3. QED BY <2>1, <3>2
  <2>2. CASE ~(a + j <= Len(d))
    BY <1>1, <2>2
  <2>3. QED BY <2>1, <2>2
<1>3. At(d, a, k) = [j \in 1 .. k |-> b(j)]
  BY DEF At
<1>4. \A j \in 1 .. k : a + j <= Len(d) => b(j) = d[a + j]
  OBVIOUS
<1> HIDE DEF b
<1>5. QED BY <1>2, <1>3, <1>4

LEMMA BytesRead ==
  ASSUME data \in Seq(Byte), NEW from \in Nat, NEW k \in Nat
  PROVE  /\ Bytes(from, k) \in Seq(Byte) /\ Len(Bytes(from, k)) = k
         /\ \A j \in 1 .. k : Bytes(from, k)[j] \in Byte
         /\ \A j \in 1 .. k : from + j <= Len(data) => Bytes(from, k)[j] = data[from + j]
BY AtIs DEF Bytes

\* What four bytes say of a string's length.
LEMMA LengthRead ==
  ASSUME NEW w, \A j \in 1 .. 4 : w[j] \in Byte
  PROVE  Number(w) \in Nat /\ StringLength(w) \in Nat
<1>1. \A j \in 1 .. 4 : w[j] \in Nat
  BY DEF Byte
<1>2. w[1] % 128 \in Nat /\ w[1] \in Nat /\ w[2] \in Nat /\ w[3] \in Nat /\ w[4] \in Nat
  BY <1>1
<1>3. Number(w) \in Nat
  BY <1>2 DEF Number
<1>4. QED BY <1>3 DEF StringLength
-----------------------------------------------------------------------------
\* The datagram and how far it was read; unless a length was negative, what is
\* left is what is left of the datagram.
Buffer == data \in Seq(Byte) /\ p \in Nat /\ cb \in Int

Exact == p <= Len(data) /\ cb = Len(data) - p

\* What a PK_ function asks for.
LEMMA AsksNat ==
  ASSUME NEW d \in Seq(Byte), NEW a \in Nat, NEW kind \in Kinds
  PROVE  Asks(d, a, kind) \in Nat /\ (kind # "utf8" => Width[kind] \in 1 .. 8)
<1>1. CASE kind # "utf8"
  <2>1. Width[kind] \in 1 .. 8
    BY <1>1 DEF Width, Kinds
  <2>2. QED BY <1>1, <2>1 DEF Asks
<1>2. CASE kind = "utf8"
  <2>1. StringLength(At(d, a, 4)) \in Nat
    <3>1. \A j \in 1 .. 4 : At(d, a, 4)[j] \in Byte
      BY AtIs
    <3>2. QED BY <3>1, LengthRead
  <2>2. QED BY <1>2, <2>1 DEF Asks
<1>3. QED BY <1>1, <1>2

\* The same in terms of the buffer.
LEMMA NeedsHere ==
  ASSUME NEW kind
  PROVE  Needs(kind) = IF kind # "utf8" THEN Width[kind]
                       ELSE 4 + StringLength(Bytes(p, 4))
BY DEF Needs, Asks, Bytes

LEMMA NeedsNat ==
  ASSUME Buffer, NEW kind \in Kinds
  PROVE  Needs(kind) \in Nat /\ (kind # "utf8" => Needs(kind) = Width[kind] /\ Width[kind] \in 1 .. 8)
<1>1. data \in Seq(Byte) /\ p \in Nat
  BY DEF Buffer
<1>2. QED BY <1>1, AsksNat, NeedsHere DEF Needs

\* What a string or another field may be read as.
Value == Seq(Byte) \cup {Unset}

\* What a PK_ function returns, how far it reads and what it leaves.  It stays in
\* the datagram as long as no length was negative, this one included.
LEMMA FieldRead ==
  ASSUME Buffer, NEW kind \in Kinds
  PROVE  /\ PK(kind) \in Value /\ Reach(kind) \in Nat /\ Remains(kind) \in Int
         /\ Exact /\ ~Throws(kind) => Reach(kind) <= Len(data)
         /\ Exact /\ ~Throws(kind) /\ ~Casts(kind) =>
              Remains(kind) = Len(data) - Reach(kind)
<1>1. p \in Nat /\ Len(data) \in Nat /\ data \in Seq(Byte) /\ cb \in Int
  BY LenProperties DEF Buffer
<1>2. Needs(kind) \in Nat
  BY NeedsNat
<1>3. Reach(kind) \in Nat
  BY <1>1, <1>2 DEF Reach
<1> DEFINE w == Bytes(p, 4)
<1>4. Number(w) \in Nat /\ StringLength(w) \in Nat
  <2>1. \A j \in 1 .. 4 : w[j] \in Byte
    BY <1>1, BytesRead
  <2> HIDE DEF w
  <2>2. QED BY <2>1, LengthRead
<1>5. Remains(kind) \in Int
  <2>1. CASE Casts(kind)
    <3> DEFINE a == cb - 4
               b == Number(w)
    <3>1. a \in Int /\ b \in Int
      BY <1>1, <1>4
    <3>2. Remains(kind) = Minus(a, b)
      BY <2>1 DEF Remains
    <3> HIDE DEF a, b
    <3>3. Minus(a, b) \in Int
      BY <3>1 DEF Minus
    <3>4. QED BY <3>2, <3>3
  <2>2. CASE ~Casts(kind)
    BY <1>1, <1>2, <2>2 DEF Remains
  <2>3. QED BY <2>1, <2>2
<1>6. PK(kind) \in Value
  <2>1. CASE kind = "utf8"
    <3> DEFINE b == StringLength(w)
    <3>1. None \in Seq(Byte)
      BY DEF None, Byte
    <3>2. Bytes(p + 4, b) \in Seq(Byte)
      <4>1. b \in Nat /\ p + 4 \in Nat
        BY <1>1, <1>4
      <4> HIDE DEF b
      <4>2. QED BY <1>1, <4>1, BytesRead
    <3>3. PK(kind) \in {None, Unset, Bytes(p + 4, b)}
      BY <2>1 DEF PK
    <3> HIDE DEF b, w
    <3>4. QED BY <3>1, <3>2, <3>3 DEF Value
  <2>2. CASE kind = "bool"
    <3>1. PK(kind) \in {<<0>>, <<1>>}
      BY <2>2 DEF PK, Flag
    <3>2. <<0>> \in Seq(Byte) /\ <<1>> \in Seq(Byte)
      BY DEF Byte
    <3>3. QED BY <3>1, <3>2 DEF Value
  <2>3. CASE kind # "utf8" /\ kind # "bool"
    <3>1. Width[kind] \in Nat
      BY <2>3, NeedsNat
    <3>2. Bytes(p, Width[kind]) \in Seq(Byte)
      BY <1>1, <3>1, BytesRead
    <3>3. QED BY <2>3, <3>2 DEF PK, Value
  <2>4. QED BY <2>1, <2>2, <2>3
<1>7. ASSUME Exact, ~Throws(kind) PROVE Reach(kind) <= Len(data)
  BY <1>1, <1>2, <1>7 DEF Exact, Throws, Reach
<1>8. ASSUME Exact, ~Casts(kind) PROVE Remains(kind) = Len(data) - Reach(kind)
  BY <1>1, <1>2, <1>8 DEF Exact, Remains, Reach
<1>9. QED BY <1>3, <1>5, <1>6, <1>7, <1>8

\* The type is one of those the switch knows.
LEMMA HeaderRead ==
  ASSUME Buffer, HeaderOK(data)
  PROVE  Type \in 0 .. 2 /\ 12 <= Len(data)
<1>1. Len(data) \in Nat /\ data \in Seq(Byte) /\ 12 <= Len(data)
  BY LenProperties DEF Buffer, HeaderOK
<1>2. PICK t \in 0 .. 2 : Bytes(8, 4) = <<0, 0, 0, t>>
  BY DEF HeaderOK, KnownTypes, Bytes
<1>3. Bytes(8, 4)[4] = data[8 + 4]
  BY <1>1, BytesRead
<1>4. <<0, 0, 0, t>>[4] = t
  OBVIOUS
<1>5. data[12] = t
  BY <1>2, <1>3, <1>4
<1>6. QED BY <1>1, <1>5 DEF Type
-----------------------------------------------------------------------------
\* While a message is decoded its type is known, no more fields were read than
\* it has, and only its strings are allocated; at other times nothing is.
Decoding == pc \in {"fields", "print"}

Allocated ==
  /\ heap \subseteq DOMAIN fields
  /\ Decoding => /\ Type \in 0 .. 2
                 /\ Len(fields) <= Len(Layout(Type))
                 /\ heap \subseteq Strings(Type)
  /\ ~Decoding => heap = {} \/ pc = "wild"
  /\ pc = "header" => p = 0 /\ fields = <<>> /\ ~cast

ReadInv ==
  /\ Buffer /\ p <= BufferSize /\ Len(data) <= BufferSize
  /\ ~cast => Exact
  /\ fields \in Seq(Value)
  /\ pc \in {"loop", "header", "fields", "print", "dump", "stopped", "wild"}
  /\ log \in {"nothing", "message", "dump"}
  /\ leaked \in BOOLEAN /\ threw \in BOOLEAN /\ cast \in BOOLEAN
  /\ Allocated
  /\ LeaksOnlyWhenCut

\* The destructor frees all that was allocated.
LEMMA DeletesAll ==
  ASSUME ReadInv, Decoding, Delete
  PROVE  heap' = {} /\ leaked' = FALSE
<1>1. Type \in 0 .. 2 /\ heap \subseteq Strings(Type)
  BY DEF ReadInv, Allocated
<1>2. heap \subseteq Deleted(Type)
  BY <1>1, Layouts
<1>3. heap \ Deleted(Type) = {}
  BY <1>2
<1>4. QED BY <1>3 DEF Delete

\* The kind of the next field.
LEMMA KindIs ==
  ASSUME ReadInv, pc = "fields", MoreFields
  PROVE  /\ Kind \in Kinds /\ Len(fields) + 1 \in DOMAIN Layout(Type)
         /\ Len(fields) + 1 \in 1 .. Len(Layout(Type)) /\ Len(Layout(Type)) \in Nat
<1>1. Len(fields) \in Nat /\ Type \in 0 .. 2
  BY LenProperties DEF ReadInv, Allocated, Decoding
<1>2. /\ Len(Layout(Type)) \in Nat /\ Layout(Type) \in Seq(Kinds)
      /\ DOMAIN Layout(Type) = 1 .. Len(Layout(Type))
  BY <1>1, Layouts, LenProperties
<1>3. Len(fields) + 1 \in 1 .. Len(Layout(Type))
  BY <1>1, <1>2 DEF MoreFields
<1>4. QED BY <1>2, <1>3, ElementOfSeq DEF Kind

LEMMA ReadStep ==
  ASSUME ReadInv, DatagramsAssumption, BufferAssumption, [Next]_vars
  PROVE  ReadInv'
<1> USE DEF ReadInv, Buffer, Exact, Allocated, Decoding, LeaksOnlyWhenCut
<1>1. data \in Seq(Byte) /\ Len(data) \in Nat /\ Len(fields) \in Nat
      /\ DOMAIN fields = 1 .. Len(fields) /\ BufferSize \in Nat
  BY LenProperties DEF BufferAssumption
<1>2. ASSUME NEW d \in Sent \cup Others, Receive(d) PROVE ReadInv'
  <2>1. d \in Seq(Byte) /\ Len(d) \in Nat
    BY LenProperties DEF DatagramsAssumption
  <2>2. <<>> \in Seq(Value) /\ heap = {}
    BY <1>2, EmptySeq DEF Receive
  <2>3. /\ data' = d /\ p' = 0 /\ cb' = Len(d) /\ Len(d) <= BufferSize
        /\ fields' = <<>> /\ log' = "nothing" /\ pc' = "header" /\ heap' = {}
        /\ ~leaked' /\ ~cast'
    BY <1>2, <2>2 DEF Receive
  <2>4. leaked' \in BOOLEAN /\ threw' \in BOOLEAN /\ cast' \in BOOLEAN
    BY <1>2 DEF Receive
  <2>5. Buffer' /\ p' <= BufferSize /\ Len(data)' <= BufferSize /\ Exact'
    BY <1>1, <2>1, <2>3
  <2>6. Allocated'
    BY <2>3
  <2>7. LeaksOnlyWhenCut'
    BY <2>3
  <2>8. QED
    <3> HIDE DEF Buffer, Exact, Allocated, LeaksOnlyWhenCut
    <3>1. QED BY <2>2, <2>3, <2>4, <2>5, <2>6, <2>7
<1>3. CASE Stop \/ \E d \in Sent \cup Others : ReceiveFails(d)
  BY <1>3 DEF Stop, ReceiveFails, buffer, histories, Type
<1>4. CASE ReadHeader
  <2>1. /\ p = 0 /\ fields = <<>> /\ heap = {} /\ Len(fields) = 0 /\ cb = Len(data) /\ ~cast
        /\ UNCHANGED <<data, fields, heap, log, leaked, threw, cast>>
    BY <1>1, <1>4 DEF ReadHeader, histories
  <2>2. CASE HeaderOK(data) /\ pc' = "fields" /\ p' = 12 /\ cb' = cb - 12
    <3>1. Type \in 0 .. 2 /\ 12 <= Len(data)
      BY <2>1, <2>2, HeaderRead
    <3>2. Len(Layout(Type)) \in Nat
      BY <3>1, Layouts, LenProperties
    <3>3. p' \in Nat /\ p' <= Len(data) /\ p' <= BufferSize /\ cb' = Len(data) - p'
      BY <1>1, <2>1, <2>2, <3>1
    <3>4. QED BY <1>1, <2>1, <2>2, <3>1, <3>2, <3>3 DEF Type
  <2>3. CASE ~HeaderOK(data) /\ pc' = "dump" /\ UNCHANGED <<p, cb>>
    BY <2>1, <2>3
  <2>4. QED BY <1>4, <2>2, <2>3 DEF ReadHeader
<1>5. CASE ReadField
  <2>1. /\ pc = "fields" /\ MoreFields /\ ~Throws(Kind) /\ Reach(Kind) <= BufferSize
        /\ fields' = Append(fields, PK(Kind)) /\ p' = Reach(Kind) /\ cb' = Remains(Kind)
        /\ cast' = (cast \/ Casts(Kind))
        /\ heap' = IF Kind = "utf8" THEN heap \cup {Len(fields) + 1} ELSE heap
        /\ UNCHANGED <<pc, data, log, leaked, threw>>
    BY <1>5 DEF ReadField
  <2>2. /\ Type \in 0 .. 2 /\ Len(fields) < Len(Layout(Type)) /\ Len(Layout(Type)) \in Nat
        /\ Len(fields) + 1 \in DOMAIN Layout(Type) /\ Kind \in Kinds
    BY <2>1, KindIs DEF MoreFields
  <2>3. /\ PK(Kind) \in Value /\ Reach(Kind) \in Nat /\ Remains(Kind) \in Int
        /\ ~cast /\ ~Casts(Kind) =>
             Reach(Kind) <= Len(data) /\ Remains(Kind) = Len(data) - Reach(Kind)
    BY <2>1, <2>2, FieldRead
  <2>4. fields' \in Seq(Value) /\ Len(fields') = Len(fields) + 1
    BY <2>1, <2>3, AppendProperties
  <2>5. DOMAIN fields' = 1 .. Len(fields) + 1
    BY <2>4, LenProperties
  <2>6. heap' \subseteq DOMAIN fields' /\ heap' \subseteq Strings(Type)
    <3>1. heap \subseteq Strings(Type) /\ heap \subseteq 1 .. Len(fields)
      BY <1>1, <2>1
    <3>2. \A j \in 1 .. Len(fields) : j \in 1 .. Len(fields) + 1
      BY <1>1
    <3>3. Kind = "utf8" => Len(fields) + 1 \in Strings(Type)
      BY <2>2 DEF Strings, Kind
    <3>4. Len(fields) + 1 \in 1 .. Len(fields) + 1
      BY <1>1
    <3>5. QED BY <2>1, <2>5, <3>1, <3>2, <3>3, <3>4
  <2>7. Type' = Type
    BY <2>1 DEF Type
  <2>8. Len(fields') <= Len(Layout(Type))
    BY <1>1, <2>2, <2>4
  <2>9. Buffer' /\ p' <= BufferSize /\ (~cast' => Exact')
    BY <2>1, <2>3
  <2>10. Allocated'
    BY <2>1, <2>2, <2>6, <2>7, <2>8
  <2>11. LeaksOnlyWhenCut' /\ cast' \in BOOLEAN
    BY <2>1
  <2>12. QED
    <3> HIDE DEF Buffer, Exact, Allocated, LeaksOnlyWhenCut
    <3>1. Len(data)' <= BufferSize /\ leaked' \in BOOLEAN /\ threw' \in BOOLEAN
      BY <2>1
    <3>2. QED BY <2>1, <2>4, <2>9, <2>10, <2>11, <3>1
<1>6. CASE ReadsOn
  BY <1>6 DEF ReadsOn, buffer, histories
<1>7. CASE FieldThrows
  <2>1. leaked' \in BOOLEAN
    BY <1>7 DEF FieldThrows, GivenUp
  <2>2. QED BY <1>7, <2>1 DEF FieldThrows, GivenUp, buffer
<1>8. CASE NewThrows
  <2>1. /\ pc = "fields" /\ MoreFields /\ ~Throws(Kind)
        /\ Casts(Kind) \/ Reach(Kind) > BufferSize
        /\ cast' = (cast \/ Casts(Kind))
    BY <1>8 DEF NewThrows
  <2>2. Kind \in Kinds
    BY <2>1, KindIs
  <2>3. cast' = TRUE
    <3>1. ASSUME ~cast PROVE Reach(Kind) \in Nat /\ Reach(Kind) <= BufferSize
      <4>1. Reach(Kind) \in Nat /\ Reach(Kind) <= Len(data)
        BY <2>1, <2>2, <3>1, FieldRead
      <4>2. QED BY <1>1, <4>1
    <3>2. ASSUME ~cast PROVE ~(Reach(Kind) > BufferSize)
      BY <1>1, <3>1, <3>2
    <3>3. cast \/ Casts(Kind)
      BY <2>1, <3>2, Zenon
    <3>4. QED BY <2>1, <3>3, Zenon
  <2>4. leaked' \in BOOLEAN
    BY <1>8 DEF NewThrows, GivenUp
  <2>5. QED BY <1>8, <2>3, <2>4 DEF NewThrows, GivenUp, buffer
<1>9. CASE Built
  <2>1. CASE cb = 0 /\ pc' = "print" /\ UNCHANGED <<heap, leaked>>
    BY <1>9, <2>1 DEF Built, buffer, Type
  <2>2. CASE cb # 0 /\ pc' = "dump" /\ Delete
    <3>1. heap' = {} /\ leaked' = FALSE
      BY <1>9, <2>2, DeletesAll DEF Built
    <3>2. QED BY <1>9, <2>2, <3>1 DEF Built, buffer
  <2>3. QED BY <1>9, <2>1, <2>2 DEF Built
<1>10. CASE ShowMessage
  <2>1. heap' = {} /\ leaked' = FALSE
    BY <1>10, DeletesAll DEF ShowMessage
  <2>2. QED BY <1>10, <2>1 DEF ShowMessage, LogFields, buffer
<1>11. CASE Dump
  BY <1>11 DEF Dump, buffer, histories
<1>12. CASE UNCHANGED vars
  BY <1>12 DEF vars, buffer, histories, Type
<1>13. QED
  BY <1>2, <1>3, <1>4, <1>5, <1>6, <1>7, <1>8, <1>9, <1>10, <1>11, <1>12 DEF Next

LEMMA Inductive == Spec => []ReadInv
<1>1. Init => ReadInv
  <2>1. <<>> \in Seq(Byte) /\ <<>> \in Seq(Value) /\ Len(<<>>) = 0
    BY EmptySeq
  <2>2. Init => /\ leaked \in BOOLEAN /\ threw \in BOOLEAN /\ cast \in BOOLEAN
                /\ LeaksOnlyWhenCut
    BY DEF Init, LeaksOnlyWhenCut
  <2>3. Init => Buffer /\ Exact /\ p <= BufferSize /\ Len(data) <= BufferSize
    BY <2>1, BufferAssumption DEF Init, Buffer, Exact, BufferAssumption
  <2>4. Init => Allocated
    BY DEF Init, Allocated, Decoding
  <2>5. QED BY <2>1, <2>2, <2>3, <2>4 DEF Init, ReadInv
<1>2. ReadInv /\ [Next]_vars => ReadInv'
  BY ReadStep, DatagramsAssumption, BufferAssumption
<1>3. QED BY <1>1, <1>2, PTL DEF Spec

\* Whatever arrives, what is read stays inside the datagram unless a length in it
\* was negative, inside the buffer until pc = "wild", and only fields that were
\* read are allocated (unpack.cpp:6-77, 224-264).
THEOREM TypeCorrect == Spec => []TypeOK
<1>1. ReadInv => TypeOK
  <2> SUFFICES ASSUME ReadInv PROVE TypeOK
    OBVIOUS
  <2>1. \A j \in DOMAIN fields : fields[j] \in Seq(Byte) \cup {Unset}
    BY LenProperties, ElementOfSeq DEF ReadInv, Value
  <2>2. p \in 0 .. BufferSize
    BY BufferAssumption DEF ReadInv, Buffer, BufferAssumption
  <2>3. heap \subseteq DOMAIN fields
    BY DEF ReadInv, Allocated
  <2>4. QED BY <2>1, <2>2, <2>3 DEF ReadInv, Buffer, Exact, TypeOK
<1>2. QED BY <1>1, Inductive, PTL

\* A string is left behind only when a datagram ends inside a message or has a
\* negative length, whatever arrives (unpack.cpp:48-65, 106-111, 168-181, 214-219,
\* 256-263).
THEOREM FreesAll == Spec => []LeaksOnlyWhenCut
<1>1. ReadInv => LeaksOnlyWhenCut
  BY DEF ReadInv
<1>2. QED BY <1>1, Inductive, PTL
-----------------------------------------------------------------------------
\* A message that is sent is decoded into what it was made of.
LEMMA BytesAre ==
  ASSUME data \in Seq(Byte), NEW from \in Nat, NEW c \in Seq(Byte),
         from + Len(c) <= Len(data), \A x \in 1 .. Len(c) : data[from + x] = c[x]
  PROVE  Bytes(from, Len(c)) = c
<1>1. Len(c) \in Nat
  BY LenProperties
<1> DEFINE b == Bytes(from, Len(c))
<1>2. /\ b \in Seq(Byte) /\ Len(b) = Len(c)
      /\ \A x \in 1 .. Len(c) : from + x <= Len(data) => b[x] = data[from + x]
  BY <1>1, BytesRead
<1>3. \A x \in 1 .. Len(c) : from + x <= Len(data)
  <2>1. Len(data) \in Nat
    BY LenProperties
  <2>2. QED BY <1>1, <2>1
<1> HIDE DEF b
<1>4. \A x \in 1 .. Len(b) : b[x] = c[x]
  BY <1>2, <1>3
<1>5. b = c
  BY <1>2, <1>4, SeqEqual
<1>6. QED BY <1>5 DEF b

\* What the reader takes a field for agrees with what the sender sends it as:
\* the two lists are in two programs.
SameField(kind, sent) ==
  /\ kind \in Kinds
  /\ kind = "utf8" <=> sent = "utf8"
  /\ kind = "bool" <=> sent = "bool"
  /\ sent # "utf8" => Width[kind] = Size[sent]

LEMMA LayoutsAgree ==
  ASSUME NEW type \in 0 .. 2
  PROVE  /\ Len(Layout(type)) = Len(Contents[type + 1])
         /\ \A j \in 1 .. Len(Layout(type)) : SameField(Layout(type)[j], Contents[type + 1][j])
<1>1. CASE type = 0
  <2>1. Layout(type) = heartbeat /\ Contents[type + 1] = Heartbeat
    BY <1>1 DEF Layout, Contents
  <2>2. Len(heartbeat) = 4 /\ Len(Heartbeat) = 4
    BY DEF heartbeat, Heartbeat
  <2>3. \A j \in 1 .. 4 : SameField(heartbeat[j], Heartbeat[j])
    BY DEF SameField, Kinds, Width, Size, heartbeat, Heartbeat
  <2>4. QED BY <2>1, <2>2, <2>3
<1>2. CASE type = 1
  <2>1. Layout(type) = status /\ Contents[type + 1] = Status
    BY <1>2 DEF Layout, Contents
  <2>2. Len(status) = 22 /\ Len(Status) = 22
    BY DEF status, Status
  <2>3. \A j \in 1 .. 22 : SameField(status[j], Status[j])
    BY DEF SameField, Kinds, Width, Size, status, Status
  <2>4. QED BY <2>1, <2>2, <2>3
<1>3. CASE type = 2
  <2>1. Layout(type) = decode /\ Contents[type + 1] = Decode
    BY <1>3 DEF Layout, Contents
  <2>2. Len(decode) = 10 /\ Len(Decode) = 10
    BY DEF decode, Decode
  <2>3. \A j \in 1 .. 10 : SameField(decode[j], Decode[j])
    BY DEF SameField, Kinds, Width, Size, decode, Decode
  <2>4. QED BY <2>1, <2>2, <2>3
<1>4. QED BY <1>1, <1>2, <1>3

\* A string's length as it is sent is read as it was, and is no null string's.
LEMMA WordRead ==
  ASSUME NEW n \in Nat, n < 65536
  PROVE  /\ Word(n) \in Seq(Byte) /\ Len(Word(n)) = 4
         /\ Word(n) # NoString /\ Word(n)[1] < 128 /\ StringLength(Word(n)) = n
<1> DEFINE a == n \div 256
           b == n % 256
<1>1. a \in Byte /\ b \in Byte /\ 256 * a + b = n
  BY DEF Byte
<1>2. Word(n) = <<0, 0, a, b>>
  BY DEF Word
<1> HIDE DEF a, b
<1>3. Word(n) \in Seq(Byte) /\ Len(Word(n)) = 4
  BY <1>1, <1>2 DEF Byte
<1>4. Word(n) # NoString
  BY <1>2 DEF NoString
<1>5. StringLength(Word(n)) = n
  <2> DEFINE w == Word(n)
  <2>1. w[1] = 0 /\ w[2] = 0 /\ w[3] = a /\ w[4] = b
    BY <1>2
  <2> HIDE DEF w
  <2>2. a \in Nat /\ b \in Nat
    BY <1>1 DEF Byte
  <2>3. Number(w) = 256 * a + b
    BY <2>1, <2>2 DEF Number
  <2>4. StringLength(w) = 256 * a + b
    BY <2>1, <2>3 DEF StringLength
  <2>5. QED BY <1>1, <2>4 DEF w
<1>6. Word(n)[1] < 128
  BY <1>2
<1>7. QED BY <1>3, <1>4, <1>5, <1>6

\* The four bytes that say that a string is n bytes long.
Says(w, n) == Len(w) = 4 /\ w # NoString /\ w[1] < 128 /\ StringLength(w) = n

\* A string as the sender sends it, its length in four bytes first, is read as
\* it was.
LEMMA StringDecoded ==
  ASSUME Buffer, Exact, NEW v \in Seq(Byte), NEW w \in Seq(Byte),
         Says(w, Len(v)), NEW c, Joined(c, w, v),
         p + Len(c) <= Len(data), \A x \in 1 .. Len(c) : data[p + x] = c[x]
  PROVE  /\ ~Throws("utf8") /\ ~Casts("utf8")
         /\ Reach("utf8") = p + Len(c) /\ PK("utf8") = v
<1> DEFINE n == Len(v)
           q == p + 4
<1>1. /\ p \in Nat /\ Len(data) \in Nat /\ data \in Seq(Byte) /\ p <= Len(data)
      /\ n \in Nat /\ cb = Len(data) - p
  BY LenProperties DEF Buffer, Exact
<1> DEFINE l == Len(w)
<1>2. /\ Len(c) = l + n
      /\ \A x \in 1 .. l : c[x] = w[x]
      /\ \A x \in 1 .. n : c[l + x] = v[x]
  BY JoinedProperties
<1>3. l = 4 /\ w # NoString /\ w[1] < 128 /\ StringLength(w) = n
  BY DEF Says
<1>4. /\ Len(c) = 4 + n
      /\ \A x \in 1 .. 4 : c[x] = w[x]
      /\ \A x \in 1 .. n : c[4 + x] = v[x]
  BY <1>2, <1>3
<1>5. Bytes(p, 4) = w
  <2>1. \A x \in 1 .. 4 : x \in 1 .. Len(c)
    BY <1>1, <1>4
  <2>2. \A x \in 1 .. Len(w) : data[p + x] = w[x]
    BY <1>3, <1>4, <2>1
  <2>3. p + Len(w) <= Len(data)
    BY <1>1, <1>3, <1>4
  <2>4. Bytes(p, Len(w)) = w
    BY <1>1, <2>2, <2>3, BytesAre
  <2>5. QED BY <1>3, <2>4
<1>6. Bytes(q, n) = v
  <2>1. \A x \in 1 .. n : 4 + x \in 1 .. Len(c) /\ q + x = p + (4 + x)
    BY <1>1, <1>4
  <2>2. \A x \in 1 .. Len(v) : data[q + x] = v[x]
    BY <1>4, <2>1
  <2>3. q \in Nat /\ q + Len(v) <= Len(data)
    BY <1>1, <1>4
  <2> HIDE DEF q
  <2>4. QED BY <1>1, <2>2, <2>3, BytesAre
<1>7. Needs("utf8") = 4 + n
  BY <1>3, <1>5, NeedsHere
<1>8. ~Throws("utf8") /\ Reach("utf8") = p + Len(c)
  <2> DEFINE need == 4 + n
  <2>1. Len(c) = need /\ need \in Nat /\ p + need <= Len(data)
    BY <1>1, <1>4
  <2>2. Needs("utf8") = need
    BY <1>7
  <2> HIDE DEF need
  <2>3. ~(cb < need)
    BY <1>1, <2>1
  <2>4. QED BY <2>1, <2>2, <2>3 DEF Throws, Reach
<1>9. ~Casts("utf8")
  <2>1. ~Negative(w)
    <3>1. w[1] \in Nat
      <4>1. 1 \in 1 .. Len(w)
        BY <1>3
      <4>2. w[1] \in Byte
        BY <4>1, ElementOfSeq
      <4>3. \A x \in Byte : x \in Nat
        BY DEF Byte
      <4>4. QED BY <4>2, <4>3, Zenon
    <3>2. QED BY <1>3, <3>1 DEF Negative
  <2>2. QED BY <1>5, <2>1 DEF Casts
<1>10. PK("utf8") = v
  BY <1>3, <1>5, <1>6, <1>9 DEF PK
<1>11. QED BY <1>8, <1>9, <1>10

\* A field as the sender sends it is read as it was meant.
LEMMA FieldDecoded ==
  ASSUME Buffer, Exact, NEW f, NEW kind, SameField(kind, f.kind), f.value \in Values(f.kind),
         Code(f) \in Seq(Byte), p + Len(Code(f)) <= Len(data),
         \A x \in 1 .. Len(Code(f)) : data[p + x] = Code(f)[x]
  PROVE  /\ ~Throws(kind) /\ ~Casts(kind)
         /\ Reach(kind) = p + Len(Code(f)) /\ PK(kind) = Shown(f)
<1> DEFINE c == Code(f)
           v == f.value
<1>1. /\ p \in Nat /\ Len(data) \in Nat /\ data \in Seq(Byte) /\ p <= Len(data)
      /\ Len(c) \in Nat /\ c \in Seq(Byte) /\ cb = Len(data) - p
  BY LenProperties DEF Buffer, Exact
<1>2. kind \in Kinds /\ (kind = "utf8" <=> f.kind = "utf8") /\ (kind = "bool" <=> f.kind = "bool")
      /\ (f.kind # "utf8" => Width[kind] = Size[f.kind])
  BY DEF SameField
<1>3. Bytes(p, Len(c)) = c
  BY <1>1, BytesAre
<1>4. NoText \notin Seq(Byte)
  <2> SUFFICES ASSUME NoText \in Seq(Byte) PROVE FALSE
    OBVIOUS
  <2>1. Len(NoText) = 1 /\ NoText[1] = -1
    BY DEF NoText
  <2>2. NoText[1] \in Byte
    <3>1. 1 \in 1 .. Len(NoText)
      BY <2>1
    <3>2. QED BY <3>1, ElementOfSeq
  <2>3. QED BY <2>1, <2>2 DEF Byte
<1>5. CASE kind # "utf8"
  <2>1. /\ c = v /\ v \in Seq(Byte) /\ Len(v) = Size[f.kind]
        /\ (f.kind = "bool" => v \in {<<0>>, <<1>>})
    BY <1>2, <1>5 DEF Code, Values
  <2>2. Len(c) = Width[kind] /\ Shown(f) = c
    BY <1>2, <1>4, <1>5, <2>1 DEF Shown
  <2>3. Needs(kind) = Len(c)
    BY <1>5, <2>2, NeedsHere
  <2>4. ~Throws(kind) /\ ~Casts(kind) /\ Reach(kind) = p + Len(c)
    BY <1>1, <1>5, <2>3 DEF Throws, Casts, Reach
  <2>5. CASE kind = "bool"
    <3>1. c = <<0>> \/ c = <<1>>
      BY <1>2, <2>1, <2>5
    <3>2. Len(c) = 1
      BY <3>1
    <3>3. Bytes(p, 1) = c
      BY <1>3, <3>2
    <3>4. Flag(c[1]) = c
      BY <3>1 DEF Flag
    <3>5. QED BY <2>2, <2>4, <2>5, <3>3, <3>4 DEF PK
  <2>6. CASE kind # "bool"
    BY <1>3, <1>5, <2>2, <2>4, <2>6 DEF PK
  <2>7. QED BY <2>5, <2>6
<1>6. CASE kind = "utf8" /\ v = NoText
  <2>1. c = NoString /\ Len(c) = 4
    BY <1>2, <1>6 DEF Code, NullLength, NoString
  <2>2. Bytes(p, 4) = NoString
    BY <1>3, <2>1
  <2>3. Needs(kind) = 4
    BY <1>6, <2>2, NeedsHere DEF StringLength, NoString
  <2>4. ~Throws(kind) /\ Reach(kind) = p + Len(c)
    BY <1>1, <2>1, <2>3 DEF Throws, Reach
  <2>5. ~Casts(kind)
    BY <2>2 DEF Casts, Negative
  <2>6. PK(kind) = Shown(f)
    BY <1>6, <2>2 DEF PK, Shown
  <2>7. QED BY <2>4, <2>5, <2>6
<1>7. CASE kind = "utf8" /\ v # NoText
  <2>1. v \in Seq(Byte) /\ Len(v) < 65536
    BY <1>2, <1>7 DEF Values
  <2>2. c = Word(Len(v)) \o v
    BY <1>2, <1>7 DEF Code
  <2> DEFINE w == Word(Len(v))
  <2>3. Joined(c, w, v) /\ p + Len(c) <= Len(data) /\ \A x \in 1 .. Len(c) : data[p + x] = c[x]
    BY <2>2 DEF Joined
  <2>6. w \in Seq(Byte) /\ Says(w, Len(v))
    BY <2>1, LenProperties, WordRead DEF Says
  <2> HIDE DEF c, v, w
  <2>4. ~Throws("utf8") /\ ~Casts("utf8") /\ Reach("utf8") = p + Len(c) /\ PK("utf8") = v
    BY <2>1, <2>3, <2>6, StringDecoded
  <2>5. QED BY <1>7, <2>4 DEF Shown, c, v
<1>8. QED BY <1>5, <1>6, <1>7

-----------------------------------------------------------------------------
\* The first j parts of c are in s, one behind the other: part i ends at o[i].
Placed(s, c, o, j) ==
  /\ Len(s) = o[j]
  /\ \A a \in 1 .. j : o[a] = o[a - 1] + Len(c[a]) /\ o[a] <= o[j]
  /\ \A a \in 1 .. j : \A x \in 1 .. Len(c[a]) : s[o[a - 1] + x] = c[a][x]

LEMMA Reaches ==
  ASSUME NEW u \in Nat, NEW l \in Nat, NEW v, v = u + l, NEW k \in Nat, v <= k,
         NEW x \in 1 .. l
  PROVE  u + x \in 1 .. k
OBVIOUS

LEMMA PlacedNext ==
  ASSUME NEW S, NEW c \in Seq(Seq(S)), NEW o \in [0 .. Len(c) -> Nat],
         NEW j \in Nat, NEW m, m = j + 1, m <= Len(c),
         NEW s \in Seq(S), Placed(s, c, o, j),
         NEW e \in Seq(S), c[m] = e, NEW r, Joined(r, s, e), o[m] = Len(r)
  PROVE  r \in Seq(S) /\ Placed(r, c, o, m)
<1>1. /\ r \in Seq(S) /\ Len(r) = Len(s) + Len(e) /\ Len(s) \in Nat /\ Len(e) \in Nat
      /\ \A x \in 1 .. Len(s) : r[x] = s[x]
      /\ \A x \in 1 .. Len(e) : r[Len(s) + x] = e[x]
  BY JoinedProperties
<1>2. m \in Nat /\ m - 1 = j /\ Len(c) \in Nat /\ o[j] \in Nat /\ Len(s) = o[j]
  BY LenProperties DEF Placed
<1>3. ASSUME NEW a \in 1 .. m
      PROVE  o[a] = o[a - 1] + Len(c[a]) /\ o[a] <= o[m]
  <2>1. CASE a = m
    BY <1>1, <1>2, <2>1
  <2>2. CASE a # m
    <3>1. a \in 1 .. j
      BY <1>2, <2>2
    <3>2. o[a] = o[a - 1] + Len(c[a]) /\ o[a] <= o[j]
      BY <3>1 DEF Placed
    <3>3. o[a] \in Nat /\ o[m] \in Nat
      <4>1. a \in 0 .. Len(c) /\ m \in 0 .. Len(c)
        BY <1>2, <3>1
      <4>2. QED BY <4>1
    <3>4. o[j] <= o[m]
      <4>1. Len(s) <= Len(r)
        BY <1>1
      <4>2. QED BY <1>2, <4>1
    <3>5. QED BY <1>2, <3>2, <3>3, <3>4
  <2>3. QED BY <2>1, <2>2
<1>4. ASSUME NEW a \in 1 .. m, NEW x \in 1 .. Len(c[a])
      PROVE  r[o[a - 1] + x] = c[a][x]
  <2>1. CASE a = m
    <3>1. a - 1 = j /\ c[a] = e
      BY <1>2, <2>1
    <3>2. r[Len(s) + x] = e[x]
      BY <1>1, <3>1
    <3>3. QED BY <1>2, <3>1, <3>2
  <2>2. CASE a # m
    <3>1. a \in 1 .. j /\ a - 1 \in 0 .. Len(c) /\ a \in 0 .. Len(c)
      BY <1>2, <2>2
    <3>2. s[o[a - 1] + x] = c[a][x] /\ o[a] = o[a - 1] + Len(c[a]) /\ o[a] <= o[j]
      BY <3>1 DEF Placed
    <3> DEFINE y == o[a - 1] + x
    <3>3. y \in 1 .. Len(s)
      <4>1. o[a - 1] \in Nat /\ o[a] \in Nat
        BY <3>1
      <4>2. c[a] \in Seq(S)
        <5>1. a \in 1 .. Len(c)
          BY <1>2
        <5>2. QED BY <5>1, ElementOfSeq
      <4>3. Len(c[a]) \in Nat
        BY <4>2, LenProperties
      <4>4. y \in 1 .. o[j]
        BY <1>2, <3>2, <4>1, <4>3, Reaches
      <4>5. QED BY <1>2, <4>4
    <3> HIDE DEF y
    <3>4. r[y] = s[y]
      BY <1>1, <3>3
    <3>5. QED BY <3>2, <3>4 DEF y
  <2>3. QED BY <2>1, <2>2
<1>5. QED BY <1>1, <1>3, <1>4 DEF Placed

\* FlattenSeq puts the parts one behind the other.
LEMMA Flattened ==
  ASSUME NEW S, NEW c \in Seq(Seq(S))
  PROVE  /\ FlattenSeq(c) \in Seq(S)
         /\ \E o \in [0 .. Len(c) -> Nat] : o[0] = 0 /\ Placed(FlattenSeq(c), c, o, Len(c))
<1> DEFINE n == Len(c)
<1>1. n \in Nat /\ \A j \in 1 .. n : c[j] \in Seq(S)
  BY LenProperties, ElementOfSeq
<1>2. <<>> \in Seq(S) /\ Len(<<>>) = 0
  BY EmptySeq
<1>3. CASE n = 0
  <2> DEFINE o == [j \in 0 .. n |-> 0]
  <2>1. c = <<>>
    BY <1>3, EmptySeq
  <2>2. FlattenSeq(c) = <<>>
    BY <1>3, <2>1 DEF FlattenSeq
  <2>3. o \in [0 .. n -> Nat] /\ o[0] = 0 /\ Placed(<<>>, c, o, 0)
    BY <1>2, <1>3 DEF Placed
  <2>4. QED BY <1>2, <1>3, <2>2, <2>3
<1>4. CASE n # 0
  <2> DEFINE Is(f) == f = [j \in 1 .. n |-> IF j = 1 THEN c[j] ELSE f[j - 1] \o c[j]]
             step == [d \in (1 .. n) \X Seq(S) |-> d[2] \o c[d[1]]]
             f == CHOOSE g : Is(g)
  <2>1. \E g : Is(g)
    <3>1. step \in [(1 .. n) \X Seq(S) -> Seq(S)]
      <4>1. \A d \in (1 .. n) \X Seq(S) : d[2] \in Seq(S) /\ c[d[1]] \in Seq(S)
        BY <1>1
      <4>2. \A d \in (1 .. n) \X Seq(S) : d[2] \o c[d[1]] \in Seq(S)
        BY <4>1, ConcatProperties
      <4>3. QED BY <4>2
    <3>2. \A j \in 1 .. n, s \in Seq(S) : step[<<j, s>>] = s \o c[j]
      OBVIOUS
    <3> HIDE DEF step
    <3>3. PICK h \in [0 .. n -> Seq(S)] : Computes(h, n, <<>>, step)
      BY <1>1, <1>2, <3>1, Recursion
    <3> DEFINE g == [j \in 1 .. n |-> h[j]]
    <3>4. ASSUME NEW j \in 1 .. n PROVE h[j] = h[j - 1] \o c[j]
      <4>1. j - 1 \in 0 .. n
        BY <1>1
      <4>2. h[j - 1] \in Seq(S) /\ h[j] = step[<<j, h[j - 1]>>]
        BY <3>3, <4>1 DEF Computes
      <4>3. QED BY <3>2, <4>2
    <3>5. h[1] = c[1]
      <4>1. 1 \in 1 .. n /\ 1 - 1 = 0
        BY <1>1, <1>4
      <4>2. h[0] = <<>>
        BY <3>3 DEF Computes
      <4>3. <<>> \o c[1] = c[1]
        BY <1>1, <4>1, ConcatEmptySeq
      <4>4. h[1] = h[1 - 1] \o c[1]
        BY <3>4, <4>1
      <4>5. QED BY <4>1, <4>2, <4>3, <4>4
    <3>6. ASSUME NEW j \in 1 .. n
          PROVE  g[j] = IF j = 1 THEN c[j] ELSE g[j - 1] \o c[j]
      <4>1. CASE j = 1
        BY <3>5, <4>1
      <4>2. CASE j # 1
        <5>1. j - 1 \in 1 .. n
          BY <1>1, <4>2
        <5>2. g[j] = h[j] /\ g[j - 1] = h[j - 1]
          BY <5>1
        <5>3. QED BY <3>4, <4>2, <5>2
      <4>3. QED BY <4>1, <4>2
    <3>7. Is(g)
      <4>1. g = [j \in 1 .. n |-> g[j]]
        OBVIOUS
      <4> HIDE DEF g
      <4>2. QED BY <3>6, <4>1
    <3>8. QED BY <3>7
  <2>2. Is(f)
    BY <2>1
  <2>3. FlattenSeq(c) = f[n]
    BY <1>4 DEF FlattenSeq
  <2> HIDE DEF f
  <2> DEFINE F == [j \in 0 .. n |-> IF j = 0 THEN <<>> ELSE f[j]]
  <2>4. F[0] = <<>> /\ F[n] = f[n]
    BY <1>1, <1>4
  <2>5. ASSUME NEW j \in 1 .. n PROVE F[j] = F[j - 1] \o c[j]
    <3>1. CASE j = 1
      <4>1. F[1] = c[1] /\ F[0] = <<>> /\ j - 1 = 0
        BY <1>1, <2>2, <3>1
      <4>2. <<>> \o c[1] = c[1]
        BY <1>1, <3>1, ConcatEmptySeq
      <4>3. QED BY <3>1, <4>1, <4>2
    <3>2. CASE j # 1
      <4>1. j - 1 \in 1 .. n /\ j \in 0 .. n /\ j - 1 \in 0 .. n /\ j # 0 /\ j - 1 # 0
        BY <1>1, <3>2
      <4>2. f[j] = f[j - 1] \o c[j]
        BY <2>2, <3>2
      <4>3. F[j] = f[j] /\ F[j - 1] = f[j - 1]
        BY <4>1
      <4>4. QED BY <4>2, <4>3
    <3>3. QED BY <3>1, <3>2
  <2> HIDE DEF F
  <2>6. \A j \in 1 .. n : Joined(F[j], F[j - 1], c[j])
    BY <2>5 DEF Joined
  <2>7. \A j \in Nat : j <= n => F[j] \in Seq(S)
    <3> DEFINE T == {j \in Nat : j <= n => F[j] \in Seq(S)}
    <3>1. 0 \in T
      BY <1>2, <2>4
    <3>2. ASSUME NEW j \in T PROVE j + 1 \in T
      <4>1. j \in Nat
        OBVIOUS
      <4> SUFFICES ASSUME j + 1 <= n PROVE F[j + 1] \in Seq(S)
        BY <4>1
      <4> DEFINE m == j + 1
      <4>2. m \in 1 .. n /\ m - 1 = j /\ j <= n
        BY <1>1, <4>1
      <4> HIDE DEF m
      <4>3. F[m - 1] \in Seq(S) /\ c[m] \in Seq(S) /\ Joined(F[m], F[m - 1], c[m])
        BY <1>1, <2>6, <4>2
      <4>4. F[m] \in Seq(S)
        BY <4>3, JoinedProperties
      <4>5. QED BY <4>4 DEF m
    <3> HIDE DEF T
    <3>3. T \in SUBSET Nat
      BY DEF T
    <3>4. T = Nat
      BY <3>1, <3>2, <3>3, Induction
    <3>5. QED BY <3>4 DEF T
  <2> DEFINE o == [j \in 0 .. n |-> Len(F[j])]
  <2>8. ASSUME NEW j \in 0 .. n PROVE Len(F[j]) \in Nat /\ F[j] \in Seq(S)
    <3>1. F[j] \in Seq(S)
      BY <1>1, <2>7
    <3>2. QED BY <3>1, LenProperties
  <2>9. o \in [0 .. n -> Nat] /\ \A j \in 0 .. n : o[j] = Len(F[j])
    BY <2>8
  <2>10. o[0] = 0
    BY <1>1, <1>2, <2>4
  <2> HIDE DEF o
  <2>11. \A j \in Nat : j <= n => Placed(F[j], c, o, j)
    <3> DEFINE T == {j \in Nat : j <= n => Placed(F[j], c, o, j)}
    <3>1. 0 \in T
      <4>1. \A a \in 1 .. 0 : FALSE
        OBVIOUS
      <4>2. Placed(F[0], c, o, 0)
        BY <1>2, <2>4, <2>10, <4>1 DEF Placed
      <4>3. QED BY <4>2
    <3>2. ASSUME NEW j \in T PROVE j + 1 \in T
      <4>1. j \in Nat
        OBVIOUS
      <4> SUFFICES ASSUME j + 1 <= n PROVE Placed(F[j + 1], c, o, j + 1)
        BY <4>1
      <4> DEFINE m == j + 1
      <4>2. m \in 1 .. n /\ m \in 0 .. n /\ m - 1 = j /\ j \in 0 .. n /\ m = j + 1 /\ m <= n
        BY <1>1, <4>1
      <4> HIDE DEF m
      <4>3. F[j] \in Seq(S) /\ c[m] \in Seq(S) /\ Joined(F[m], F[j], c[m]) /\ o[m] = Len(F[m])
        BY <1>1, <2>6, <2>8, <2>9, <4>2
      <4>4. Placed(F[j], c, o, j)
        BY <4>2
      <4>5. Placed(F[m], c, o, m)
        BY <2>9, <4>1, <4>2, <4>3, <4>4, PlacedNext
      <4>6. QED BY <4>5 DEF m
    <3> HIDE DEF T
    <3>3. T \in SUBSET Nat
      BY DEF T
    <3>4. T = Nat
      BY <3>1, <3>2, <3>3, Induction
    <3>5. QED BY <3>4 DEF T
  <2>12. Placed(F[n], c, o, n) /\ F[n] \in Seq(S)
    BY <1>1, <2>7, <2>11
  <2>13. F[n] = FlattenSeq(c)
    BY <2>3, <2>4
  <2>14. QED BY <2>9, <2>10, <2>12, <2>13
<1>5. QED BY <1>3, <1>4

-----------------------------------------------------------------------------
\* A message as the sender encodes it: its header, then the codes of its fields.
Coded(m) == [j \in DOMAIN m.body |-> Code(m.body[j])]

Header(m) == (Magic \o Word(m.schema)) \o Word(m.type)

\* Field j of m is in Encoded[m] up to o[j].
Spread(m, o) ==
  /\ o[0] = 12 /\ o[Len(m.body)] = Len(Encoded[m])
  /\ \A j \in 1 .. Len(m.body) :
       /\ o[j] = o[j - 1] + Len(Code(m.body[j])) /\ o[j] <= Len(Encoded[m])
       /\ \A x \in 1 .. Len(Code(m.body[j])) :
            Encoded[m][o[j - 1] + x] = Code(m.body[j])[x]

Places(m) == CHOOSE o \in [0 .. Len(m.body) -> Nat] : Spread(m, o)

LEMMA CodeIsBytes ==
  ASSUME NEW f, f.value \in Values(f.kind)
  PROVE  Code(f) \in Seq(Byte)
<1> DEFINE v == f.value
<1>1. CASE f.kind # "utf8"
  BY <1>1 DEF Code, Values
<1>2. CASE f.kind = "utf8" /\ v = NoText
  <2>1. NullLength \in Seq(Byte)
    BY DEF NullLength, Byte
  <2>2. QED BY <1>2, <2>1 DEF Code
<1>3. CASE f.kind = "utf8" /\ v # NoText
  <2>1. v \in Seq(Byte) /\ Len(v) < 65536
    BY <1>3 DEF Values
  <2>2. Code(f) = Word(Len(v)) \o v
    BY <1>3 DEF Code
  <2> HIDE DEF v
  <2>3. Len(v) \in Nat
    BY <2>1, LenProperties
  <2>4. Word(Len(v)) \in Seq(Byte)
    BY <2>1, <2>3, WordRead
  <2>5. Word(Len(v)) \o v \in Seq(Byte)
    BY <2>1, <2>4, ConcatProperties
  <2>6. QED BY <2>2, <2>5
<1>4. QED BY <1>1, <1>2, <1>3

\* The body of a message of the protocol, and its code.
LEMMA BodyFields ==
  ASSUME MessagesAssumption, NEW m \in Messages
  PROVE  /\ m.schema \in {2, 3} /\ m.type \in 0 .. 15
         /\ Len(m.body) \in Nat /\ DOMAIN m.body = 1 .. Len(m.body)
         /\ Len(m.body) = Len(Contents[m.type + 1])
         /\ \A j \in 1 .. Len(m.body) : /\ m.body[j].kind = Contents[m.type + 1][j]
                                        /\ m.body[j].value \in Values(m.body[j].kind)
<1>1. MessageType = 0 .. 15
  BY DEF MessageType, Contents
<1>2. m.body \in Seq([kind : {"utf8"} \cup DOMAIN Size, value : Seq(Int)])
  BY DEF MessagesAssumption
<1>3. Len(m.body) \in Nat /\ DOMAIN m.body = 1 .. Len(m.body)
  BY <1>2, LenProperties
<1>4. QED BY <1>1, <1>3 DEF MessagesAssumption

LEMMA CodedParts ==
  ASSUME MessagesAssumption, NEW m \in Messages
  PROVE  /\ Coded(m) \in Seq(Seq(Byte)) /\ Len(Coded(m)) = Len(m.body)
         /\ \A j \in 1 .. Len(m.body) : Coded(m)[j] = Code(m.body[j])
<1> DEFINE n == Len(m.body)
<1>1. n \in Nat /\ DOMAIN m.body = 1 .. n
  BY BodyFields
<1>2. ASSUME NEW j \in 1 .. n PROVE Code(m.body[j]) \in Seq(Byte)
  BY BodyFields, CodeIsBytes
<1>3. Coded(m) = [j \in 1 .. n |-> Code(m.body[j])]
  BY <1>1 DEF Coded
<1> HIDE DEF n
<1>4. Coded(m) \in Seq(Seq(Byte)) /\ Len(Coded(m)) = n
  BY <1>1, <1>2, <1>3
<1>5. \A j \in 1 .. n : Coded(m)[j] = Code(m.body[j])
  BY <1>3
<1>6. QED BY <1>4, <1>5 DEF n

\* The first words of a message.
LEMMA HeaderBytes ==
  ASSUME MessagesAssumption, NEW m \in Messages
  PROVE  /\ Header(m) \in Seq(Byte) /\ Len(Header(m)) = 12
         /\ \A x \in 1 .. 4 : /\ Header(m)[x] = magic[x]
                              /\ Header(m)[4 + x] = <<0, 0, 0, m.schema>>[x]
                              /\ Header(m)[8 + x] = <<0, 0, 0, m.type>>[x]
<1>1. m.schema \in {2, 3} /\ m.type \in 0 .. 15
  BY BodyFields
<1>2. Word(m.schema) = <<0, 0, 0, m.schema>>
  BY <1>1 DEF Word
<1>3. Word(m.type) = <<0, 0, 0, m.type>>
  BY <1>1 DEF Word
<1>4. magic = <<173, 188, 203, 218>> /\ Magic = magic
  BY DEF magic, Magic
<1>5. m.schema \in Byte /\ m.type \in Byte
  BY <1>1 DEF Byte
<1> DEFINE s == <<0, 0, 0, m.schema>>
           t == <<0, 0, 0, m.type>>
           h == magic \o s
<1>6. magic \in Seq(Byte) /\ s \in Seq(Byte) /\ t \in Seq(Byte)
  BY <1>4, <1>5 DEF Byte
<1>7. Len(magic) = 4 /\ Len(s) = 4 /\ Len(t) = 4
  BY <1>4
<1>8. Joined(h, magic, s) /\ Joined(Header(m), h, t)
  BY <1>2, <1>3, <1>4 DEF Header, Joined
<1> HIDE DEF s, t, h
<1>9. /\ h \in Seq(Byte) /\ Len(h) = Len(magic) + Len(s)
      /\ \A x \in 1 .. Len(magic) : h[x] = magic[x]
      /\ \A x \in 1 .. Len(s) : h[Len(magic) + x] = s[x]
  BY <1>6, <1>8, JoinedProperties
<1>10. h \in Seq(Byte)
  BY <1>9
<1>11. Len(h) = 8 /\ \A x \in 1 .. 4 : h[x] = magic[x] /\ h[4 + x] = s[x]
  BY <1>7, <1>9
<1>12. /\ Header(m) \in Seq(Byte) /\ Len(Header(m)) = Len(h) + Len(t)
       /\ \A x \in 1 .. Len(h) : Header(m)[x] = h[x]
       /\ \A x \in 1 .. Len(t) : Header(m)[Len(h) + x] = t[x]
  BY <1>6, <1>8, <1>10, JoinedProperties
<1>13. /\ Header(m) \in Seq(Byte) /\ Len(Header(m)) = 12
       /\ \A x \in 1 .. 8 : Header(m)[x] = h[x]
       /\ \A x \in 1 .. 4 : Header(m)[8 + x] = t[x]
  BY <1>7, <1>11, <1>12
<1>14. \A x \in 1 .. 4 : x \in 1 .. 8 /\ 4 + x \in 1 .. 8
  OBVIOUS
<1>15. QED BY <1>11, <1>13, <1>14 DEF s, t

LEMMA SentIs ==
  ASSUME MessagesAssumption, NEW m \in Messages
  PROVE  /\ Encoded[m] \in Seq(Byte) /\ 12 <= Len(Encoded[m])
         /\ \A x \in 1 .. 12 : Encoded[m][x] = Header(m)[x]
         /\ Places(m) \in [0 .. Len(m.body) -> Nat] /\ Spread(m, Places(m))
<1> DEFINE n == Len(m.body)
           c == Coded(m)
           F == FlattenSeq(c)
           E == Encoded[m]
           H == Header(m)
<1>1. Joined(E, H, F)
  BY DEF Encoded, Encode, Header, Coded, Joined
<1>2. c \in Seq(Seq(Byte)) /\ Len(c) = n /\ \A j \in 1 .. n : c[j] = Code(m.body[j])
  BY CodedParts
<1>3. n \in Nat
  BY BodyFields
<1>4. H \in Seq(Byte) /\ Len(H) = 12
  BY HeaderBytes
<1> HIDE DEF c, E, H
<1>5. F \in Seq(Byte) /\ \E o \in [0 .. Len(c) -> Nat] : o[0] = 0 /\ Placed(F, c, o, Len(c))
  BY <1>2, Flattened
<1>6. PICK o \in [0 .. n -> Nat] : o[0] = 0 /\ Placed(F, c, o, n)
  BY <1>2, <1>5
<1> HIDE DEF F, n
<1>7. H \in Seq(Byte)
  BY <1>4
<1>8. /\ E \in Seq(Byte) /\ Len(E) = Len(H) + Len(F) /\ Len(F) \in Nat
      /\ \A x \in 1 .. Len(H) : E[x] = H[x]
      /\ \A x \in 1 .. Len(F) : E[Len(H) + x] = F[x]
  BY <1>1, <1>5, <1>7, JoinedProperties
<1>9. /\ Len(E) = 12 + Len(F) /\ \A x \in 1 .. 12 : E[x] = H[x]
      /\ \A x \in 1 .. Len(F) : E[12 + x] = F[x]
  BY <1>4, <1>8
<1> DEFINE q == [j \in 0 .. n |-> 12 + o[j]]
<1>10. q \in [0 .. n -> Nat] /\ \A j \in 0 .. n : q[j] = 12 + o[j]
  BY <1>6
<1> HIDE DEF q
<1>11. Len(F) = o[n] /\ q[0] = 12 /\ q[n] = Len(E)
  <2>1. Len(F) = o[n]
    BY <1>6 DEF Placed
  <2>2. 0 \in 0 .. n /\ n \in 0 .. n
    BY <1>3
  <2>3. QED BY <1>6, <1>9, <1>10, <2>1, <2>2
<1>12. ASSUME NEW j \in 1 .. n
       PROVE  /\ q[j] = q[j - 1] + Len(c[j]) /\ q[j] <= Len(E)
              /\ \A x \in 1 .. Len(c[j]) : E[q[j - 1] + x] = c[j][x]
  <2>1. j \in 0 .. n /\ j - 1 \in 0 .. n
    BY <1>3
  <2>2. /\ o[j] = o[j - 1] + Len(c[j]) /\ o[j] <= o[n]
        /\ \A x \in 1 .. Len(c[j]) : F[o[j - 1] + x] = c[j][x]
    BY <1>6 DEF Placed
  <2> DEFINE u == o[j - 1]
             v == o[j]
             l == Len(c[j])
             k == Len(F)
  <2>3. u \in Nat /\ v \in Nat /\ l \in Nat /\ k \in Nat /\ v = u + l /\ v <= k
    <3>1. u \in Nat /\ v \in Nat
      BY <2>1
    <3>2. c[j] \in Seq(Byte)
      <4>1. j \in 1 .. Len(c)
        BY <1>2
      <4>2. QED BY <1>2, <4>1, ElementOfSeq
    <3>3. l \in Nat
      BY <3>2, LenProperties
    <3>4. QED BY <1>8, <1>11, <2>2, <3>1, <3>3
  <2>4. q[j] = 12 + v /\ q[j - 1] = 12 + u
    BY <1>10, <2>1
  <2>5. ASSUME NEW x \in 1 .. l PROVE E[q[j - 1] + x] = c[j][x]
    <3> HIDE DEF u, v, l, k
    <3>1. u + x \in 1 .. k
      BY <2>3, Reaches
    <3>2. 12 + (u + x) = q[j - 1] + x
      BY <2>3, <2>4
    <3>3. E[12 + (u + x)] = F[u + x]
      BY <1>9, <3>1 DEF k
    <3>4. F[u + x] = c[j][x]
      BY <2>2 DEF u, l
    <3>5. QED BY <3>2, <3>3, <3>4
  <2>6. Len(E) = 12 + k
    BY <1>9
  <2> HIDE DEF u, v, k, l
  <2>7. q[j] = q[j - 1] + l /\ q[j] <= Len(E)
    <3>1. 12 + v = (12 + u) + l /\ 12 + v <= 12 + k
      BY <2>3
    <3>2. QED BY <2>4, <2>6, <3>1
  <2>8. QED BY <2>5, <2>7 DEF l
<1>13. Spread(m, q)
  BY <1>2, <1>11, <1>12 DEF Spread, n, E
<1>14. Places(m) \in [0 .. Len(m.body) -> Nat] /\ Spread(m, Places(m))
  BY <1>10, <1>13 DEF Places, n
<1>15. 12 <= Len(E)
  BY <1>8, <1>9
<1>16. QED BY <1>8, <1>9, <1>14, <1>15 DEF E, H

\* The reader knows the header of what was sent by its type.
LEMMA HeaderSent ==
  ASSUME MessagesAssumption, NEW m \in Messages, data = Encoded[m]
  PROVE  Type = m.type /\ (HeaderOK(data) <=> m.type \in 0 .. 2)
<1> DEFINE s == <<0, 0, 0, m.schema>>
           t == <<0, 0, 0, m.type>>
<1>1. m.schema \in {2, 3} /\ m.type \in 0 .. 15
  BY BodyFields
<1>2. data \in Seq(Byte) /\ 12 <= Len(data) /\ Len(data) \in Nat
  BY SentIs, LenProperties
<1>3. \A x \in 1 .. 12 : data[x] = Header(m)[x]
  BY SentIs
<1>4. ASSUME NEW x \in 1 .. 4
      PROVE  data[0 + x] = magic[x] /\ data[4 + x] = s[x] /\ data[8 + x] = t[x]
  <2>1. x \in 1 .. 12 /\ 4 + x \in 1 .. 12 /\ 8 + x \in 1 .. 12 /\ 0 + x = x
    OBVIOUS
  <2>2. Header(m)[x] = magic[x] /\ Header(m)[4 + x] = s[x] /\ Header(m)[8 + x] = t[x]
    BY HeaderBytes
  <2> HIDE DEF s, t
  <2>3. data[x] = magic[x] /\ data[4 + x] = s[x] /\ data[8 + x] = t[x]
    BY <1>3, <2>1, <2>2
  <2>4. QED BY <2>1, <2>3
<1>5. /\ Len(magic) = 4 /\ Len(s) = 4 /\ Len(t) = 4
      /\ magic \in Seq(Byte) /\ s \in Seq(Byte) /\ t \in Seq(Byte)
  BY <1>1 DEF magic, Byte
<1>6. t[4] = m.type
  OBVIOUS
<1> HIDE DEF s, t
<1>7. Bytes(0, 4) = magic /\ Bytes(4, 4) = s /\ Bytes(8, 4) = t
  <2>1. Bytes(0, Len(magic)) = magic
    <3>1. 0 + Len(magic) <= Len(data) /\ \A x \in 1 .. Len(magic) : data[0 + x] = magic[x]
      BY <1>2, <1>4, <1>5
    <3>2. QED BY <1>2, <1>5, <3>1, BytesAre
  <2>2. Bytes(4, Len(s)) = s
    <3>1. 4 + Len(s) <= Len(data) /\ \A x \in 1 .. Len(s) : data[4 + x] = s[x]
      BY <1>2, <1>4, <1>5
    <3>2. QED BY <1>2, <1>5, <3>1, BytesAre
  <2>3. Bytes(8, Len(t)) = t
    <3>1. 8 + Len(t) <= Len(data) /\ \A x \in 1 .. Len(t) : data[8 + x] = t[x]
      BY <1>2, <1>4, <1>5
    <3>2. QED BY <1>2, <1>5, <3>1, BytesAre
  <2>4. QED BY <1>5, <2>1, <2>2, <2>3
<1>8. At(data, 0, 4) = magic /\ At(data, 4, 4) = s /\ At(data, 8, 4) = t
  BY <1>7 DEF Bytes
<1>9. Type = m.type
  <2>1. data[8 + 4] = t[4]
    BY <1>4
  <2>2. QED BY <1>6, <2>1 DEF Type
<1>10. s \in {<<0, 0, 0, 2>>, <<0, 0, 0, 3>>}
  BY <1>1 DEF s
<1>11. t \in KnownTypes <=> m.type \in 0 .. 2
  <2>1. \A u : <<0, 0, 0, m.type>> = <<0, 0, 0, u>> => m.type = u
    OBVIOUS
  <2>2. QED BY <2>1 DEF t, KnownTypes
<1>12. QED BY <1>2, <1>8, <1>9, <1>10, <1>11 DEF HeaderOK

\* The next field of a message that was sent is decoded into what it was.
LEMMA FieldSent ==
  ASSUME MessagesAssumption, Buffer, Exact, NEW m \in Messages, data = Encoded[m],
         m.type \in 0 .. 2, NEW k \in Nat, Len(fields) = k, k < Len(m.body),
         p = Places(m)[k]
  PROVE  /\ ~Throws(Kind) /\ ~Casts(Kind)
         /\ Reach(Kind) = Places(m)[k + 1] /\ PK(Kind) = Shown(m.body[k + 1])
<1> DEFINE j == k + 1
           o == Places(m)
           f == m.body[j]
           c == Code(f)
<1>1. Len(m.body) \in Nat /\ j \in 1 .. Len(m.body) /\ j - 1 = k
  BY BodyFields
<1>2. Kind = Layout(m.type)[j]
  BY HeaderSent DEF Kind
<1>3. /\ f.kind = Contents[m.type + 1][j] /\ f.value \in Values(f.kind)
      /\ Len(m.body) = Len(Contents[m.type + 1])
  BY <1>1, BodyFields
<1>4. SameField(Layout(m.type)[j], f.kind)
  <2>1. j \in 1 .. Len(Layout(m.type))
    BY <1>1, <1>3, LayoutsAgree
  <2>2. SameField(Layout(m.type)[j], Contents[m.type + 1][j])
    BY <2>1, LayoutsAgree
  <2>3. QED BY <1>3, <2>2
<1>5. c \in Seq(Byte)
  BY <1>3, CodeIsBytes
<1> HIDE DEF j
<1>6. /\ o[j] = o[j - 1] + Len(c) /\ o[j] <= Len(Encoded[m])
      /\ \A x \in 1 .. Len(c) : Encoded[m][o[j - 1] + x] = c[x]
  BY <1>1, SentIs DEF Spread
<1>7. o[j] = p + Len(c) /\ p + Len(c) <= Len(data) /\ \A x \in 1 .. Len(c) : data[p + x] = c[x]
  BY <1>1, <1>6
<1>8. SameField(Kind, f.kind)
  BY <1>2, <1>4
<1> DEFINE kd == Kind
<1>9. SameField(kd, f.kind) /\ f.value \in Values(f.kind)
  BY <1>3, <1>8
<1> HIDE DEF kd, f
<1>10. ~Throws(kd) /\ ~Casts(kd) /\ Reach(kd) = p + Len(Code(f)) /\ PK(kd) = Shown(f)
  BY <1>5, <1>7, <1>9, FieldDecoded
<1>11. QED BY <1>7, <1>10 DEF kd, f, j
-----------------------------------------------------------------------------
\* Where the fields end: each where the one before it ended, and what it asks
\* for after that.
LEMMA EndsAre ==
  ASSUME NEW d \in Seq(Byte), d[12] \in 0 .. 2
  PROVE  /\ Ends(d)[0] = 12
         /\ \A j \in 1 .. Len(Layout(d[12])) :
              Ends(d)[j] = Ends(d)[j - 1] + Asks(d, Ends(d)[j - 1], Layout(d[12])[j])
<1> DEFINE l == Layout(d[12])
           n == Len(l)
           Is(e) == e = [j \in 0 .. n |->
                           IF j = 0 THEN 12 ELSE e[j - 1] + Asks(d, e[j - 1], l[j])]
           e == CHOOSE g : Is(g)
           step == [v \in (1 .. n) \X Nat |-> v[2] + Asks(d, v[2], l[v[1]])]
<1>1. l \in Seq(Kinds) /\ n \in Nat /\ \A j \in 1 .. n : l[j] \in Kinds
  BY Layouts, LenProperties, ElementOfSeq
<1>2. Ends(d) = e
  BY DEF Ends
<1> HIDE DEF l, n
<1>3. \E g : Is(g)
  <2>1. step \in [(1 .. n) \X Nat -> Nat]
    <3>1. ASSUME NEW v \in (1 .. n) \X Nat PROVE v[2] + Asks(d, v[2], l[v[1]]) \in Nat
      <4>1. v[1] \in 1 .. n /\ v[2] \in Nat
        OBVIOUS
      <4>2. Asks(d, v[2], l[v[1]]) \in Nat
        BY <1>1, <4>1, AsksNat
      <4>3. QED BY <4>1, <4>2
    <3>2. QED BY <3>1
  <2>2. \A j \in 1 .. n, a \in Nat : step[<<j, a>>] = a + Asks(d, a, l[j])
    OBVIOUS
  <2> HIDE DEF step
  <2>3. 12 \in Nat
    OBVIOUS
  <2>4. PICK h \in [0 .. n -> Nat] : Computes(h, n, 12, step)
    BY <1>1, <2>1, <2>3, Recursion
  <2>5. h[0] = 12
    BY <2>4 DEF Computes
  <2>6. ASSUME NEW j \in 1 .. n PROVE h[j] = h[j - 1] + Asks(d, h[j - 1], l[j])
    <3>1. j - 1 \in 0 .. n
      BY <1>1
    <3>2. h[j - 1] \in Nat /\ h[j] = step[<<j, h[j - 1]>>]
      BY <2>4, <3>1 DEF Computes
    <3>3. QED BY <2>2, <3>2
  <2>7. ASSUME NEW j \in 0 .. n
        PROVE  h[j] = IF j = 0 THEN 12 ELSE h[j - 1] + Asks(d, h[j - 1], l[j])
    <3>1. CASE j = 0
      BY <2>5, <3>1
    <3>2. CASE j # 0
      <4>1. j \in 1 .. n
        BY <1>1, <3>2
      <4>2. QED BY <2>6, <3>2, <4>1
    <3>3. QED BY <3>1, <3>2
  <2>8. h = [j \in 0 .. n |-> h[j]]
    OBVIOUS
  <2>9. Is(h)
    BY <2>7, <2>8
  <2>10. QED BY <2>9
<1>4. Is(e)
  BY <1>3
<1> HIDE DEF e
<1>5. e[0] = 12
  <2>1. 0 \in 0 .. n
    BY <1>1
  <2>2. QED BY <1>4, <2>1
<1>6. ASSUME NEW j \in 1 .. n PROVE e[j] = e[j - 1] + Asks(d, e[j - 1], l[j])
  <2>1. j \in 0 .. n /\ j # 0
    BY <1>1
  <2>2. QED BY <1>4, <2>1
<1>7. QED BY <1>2, <1>5, <1>6 DEF l, n
-----------------------------------------------------------------------------
\* Unless a length was negative the reader stands where the fields it has read
\* end, and only what is whole is shown; what was written of a datagram is
\* written at its end.
LengthsAre(d, k) == \A j \in 1 .. k :
  Layout(d[12])[j] = "utf8" => ~Negative(At(d, Ends(d)[j - 1], 4))

WholeInv ==
  /\ Decoding => HeaderOK(data)
  /\ Decoding /\ ~cast => p = Ends(data)[Len(fields)] /\ LengthsAre(data, Len(fields))
  /\ (pc = "print" \/ log = "message") /\ ~cast => Whole(data)
  /\ pc \notin {"loop", "stopped"} => log = "nothing"

LEMMA WholeStep ==
  ASSUME ReadInv, WholeInv, [Next]_vars
  PROVE  WholeInv'
<1> USE DEF WholeInv, Decoding
<1>1. /\ data \in Seq(Byte) /\ Len(fields) \in Nat /\ fields \in Seq(Value)
      /\ p \in Nat /\ Len(data) \in Nat
  BY LenProperties DEF ReadInv, Buffer
<1>2. ASSUME NEW d \in Sent \cup Others, Receive(d) PROVE WholeInv'
  BY <1>2 DEF Receive
<1>3. CASE Stop \/ \E d \in Sent \cup Others : ReceiveFails(d)
  BY <1>3 DEF Stop, ReceiveFails, buffer, histories
<1>4. CASE ReadHeader
  <2>1. p = 0 /\ fields = <<>> /\ Len(fields) = 0
    BY <1>4 DEF ReadHeader, ReadInv, Allocated
  <2>2. CASE HeaderOK(data) /\ pc' = "fields" /\ p' = 12
    <3>1. data[12] \in 0 .. 2
      BY <2>2, HeaderRead DEF ReadInv, Type
    <3>2. Ends(data)[0] = 12
      BY <1>1, <3>1, EndsAre
    <3>3. UNCHANGED <<data, fields, log>> /\ pc' = "fields" /\ log = "nothing"
      BY <1>4, <2>2 DEF ReadHeader
    <3>4. Len(fields)' = 0 /\ LengthsAre(data, 0)'
      BY <2>1, <3>3 DEF LengthsAre
    <3>5. QED BY <2>1, <2>2, <3>2, <3>3, <3>4
  <2>3. CASE ~HeaderOK(data) /\ pc' = "dump"
    BY <1>4, <2>3 DEF ReadHeader
  <2>4. QED BY <1>4, <2>2, <2>3 DEF ReadHeader
<1>5. CASE ReadField
  <2> DEFINE k == Len(fields)
  <2>1. /\ pc = "fields" /\ MoreFields /\ ~Throws(Kind)
        /\ fields' = Append(fields, PK(Kind)) /\ p' = Reach(Kind)
        /\ cast' = (cast \/ Casts(Kind))
        /\ UNCHANGED <<pc, data, log>>
    BY <1>5 DEF ReadField
  <2>2. HeaderOK(data) /\ Type \in 0 .. 2 /\ log = "nothing"
    BY <2>1 DEF ReadInv, Allocated
  <2>3. k + 1 \in 1 .. Len(Layout(Type)) /\ (k + 1) - 1 = k /\ Kind \in Kinds
    BY <1>1, <2>1, KindIs
  <2>4. PK(Kind) \in Value
    BY <2>1, <2>3, FieldRead DEF ReadInv
  <2>5. Len(fields') = k + 1
    BY <1>1, <2>1, <2>4, AppendProperties
  <2>6. Ends(data)[k + 1] = Ends(data)[k] + Asks(data, Ends(data)[k], Kind)
    BY <1>1, <2>2, <2>3, EndsAre DEF Type, Kind
  <2>7. ASSUME ~cast' PROVE p' = Ends(data)[k + 1] /\ LengthsAre(data, k + 1)
    <3>1. p = Ends(data)[k] /\ LengthsAre(data, k) /\ ~Casts(Kind)
      BY <2>1, <2>7
    <3>2. p' = Ends(data)[k + 1]
      BY <2>1, <2>6, <3>1 DEF Reach, Needs
    <3>3. Layout(Type)[k + 1] = "utf8" => ~Negative(Bytes(Ends(data)[k], 4))
      BY <3>1 DEF Casts, Kind
    <3> HIDE DEF k
    <3>4. \A j \in 1 .. k + 1 : j \in 1 .. k \/ j = k + 1
      BY <1>1 DEF k
    <3>5. LengthsAre(data, k + 1)
      BY <2>3, <3>1, <3>3, <3>4 DEF LengthsAre, Bytes, Type
    <3>6. QED BY <3>2, <3>5
  <2>8. ASSUME ~cast' PROVE p' = Ends(data')[Len(fields')] /\ LengthsAre(data', Len(fields'))
    BY <2>1, <2>5, <2>7, <2>8
  <2>9. HeaderOK(data') /\ log' = "nothing" /\ pc' = "fields"
    BY <2>1, <2>2
  <2>10. QED BY <2>8, <2>9
<1>6. CASE ReadsOn
  BY <1>6 DEF ReadsOn, buffer, histories
<1>7. CASE FieldThrows \/ NewThrows
  BY <1>7 DEF FieldThrows, NewThrows, GivenUp, buffer
<1>8. CASE Built
  <2>1. pc = "fields" /\ ~MoreFields /\ UNCHANGED <<data, p, cb, fields, log, cast>>
    BY <1>8 DEF Built, buffer
  <2>2. HeaderOK(data) /\ Type \in 0 .. 2 /\ log = "nothing"
    BY <2>1 DEF ReadInv, Allocated
  <2>3. CASE cb = 0 /\ pc' = "print"
    <3>1. Len(Layout(Type)) \in Nat /\ Len(fields) <= Len(Layout(Type))
      BY <2>1, <2>2, Layouts, LenProperties DEF ReadInv, Allocated
    <3>2. Len(fields) = Len(Layout(Type))
      BY <1>1, <2>1, <3>1 DEF MoreFields
    <3>3. ASSUME ~cast PROVE Whole(data)
      <4>1. p = Ends(data)[Len(Layout(Type))] /\ LengthsAre(data, Len(Layout(Type)))
        BY <2>1, <3>2, <3>3
      <4>2. p = Len(data)
        BY <1>1, <2>3, <3>3 DEF ReadInv, Exact
      <4>3. QED BY <2>2, <4>1, <4>2 DEF Whole, Type, LengthsAre
    <3>4. HeaderOK(data)' /\ (Whole(data) => Whole(data)')
      BY <2>1, <2>2
    <3>5. LengthsAre(data, Len(fields)) => LengthsAre(data, Len(fields))'
      BY <2>1
    <3>6. QED BY <2>1, <2>2, <2>3, <3>3, <3>4, <3>5
  <2>4. CASE pc' = "dump"
    BY <2>1, <2>2, <2>4
  <2>5. QED BY <1>8, <2>3, <2>4 DEF Built
<1>9. CASE ShowMessage
  BY <1>9 DEF ShowMessage, LogFields, buffer
<1>10. CASE Dump
  BY <1>10 DEF Dump, buffer, histories
<1>11. CASE UNCHANGED vars
  BY <1>11 DEF vars, buffer, histories
<1>12. QED
  BY <1>2, <1>3, <1>4, <1>5, <1>6, <1>7, <1>8, <1>9, <1>10, <1>11 DEF Next

\* The fields read are the first fields of m.
Decoded(m) ==
  /\ Len(fields) <= Len(m.body)
  /\ \A j \in 1 .. Len(fields) : fields[j] = Shown(m.body[j])

\* The datagram of m: while it is decoded the fields read are the first fields
\* of m and the reader stands where the next one begins; it is given up for its
\* type only, before a field is read; else all its fields were read and shown.
SentInv(m) == data = Encoded[m] =>
  /\ Decoding => m.type \in 0 .. 2 /\ Decoded(m) /\ p = Places(m)[Len(fields)] /\ ~cast
  /\ pc = "print" => Len(fields) = Len(m.body)
  /\ pc = "dump" => m.type \notin 0 .. 2 /\ fields = <<>>
  /\ pc \in {"loop", "stopped"} =>
       IF m.type \in 0 .. 2
       THEN log = "message" /\ Decoded(m) /\ Len(fields) = Len(m.body)
       ELSE log = "dump" /\ fields = <<>>

LEMMA SentStep ==
  ASSUME MessagesAssumption, BufferAssumption, ReadInv, NEW m \in Messages,
         SentInv(m), [Next]_vars
  PROVE  SentInv(m)'
<1> USE DEF SentInv, Decoding
<1> DEFINE n == Len(m.body)
           o == Places(m)
           k == Len(fields)
<1>1. /\ data \in Seq(Byte) /\ k \in Nat /\ fields \in Seq(Value) /\ Buffer
      /\ Len(data) \in Nat /\ Len(data) <= BufferSize /\ BufferSize \in Nat
  BY LenProperties DEF ReadInv, Buffer, BufferAssumption
<1>2. /\ n \in Nat /\ n = Len(Contents[m.type + 1])
      /\ o \in [0 .. n -> Nat] /\ o[0] = 12 /\ o[n] = Len(Encoded[m])
  BY BodyFields, SentIs DEF Spread
<1>3. ASSUME NEW d \in Sent \cup Others, Receive(d) PROVE SentInv(m)'
  BY <1>3 DEF Receive
<1>4. CASE Stop \/ \E d \in Sent \cup Others : ReceiveFails(d)
  BY <1>4 DEF Stop, ReceiveFails, buffer, histories, Decoded
<1>5. CASE ReadHeader
  <2>1. fields = <<>> /\ Len(fields) = 0 /\ ~cast /\ UNCHANGED <<data, fields, cast>>
    BY <1>5 DEF ReadHeader, histories, ReadInv, Allocated
  <2>2. data = Encoded[m] => (HeaderOK(data) <=> m.type \in 0 .. 2)
    BY HeaderSent
  <2>3. CASE HeaderOK(data) /\ pc' = "fields" /\ p' = 12
    BY <1>2, <2>1, <2>2, <2>3 DEF Decoded
  <2>4. CASE ~HeaderOK(data) /\ pc' = "dump"
    BY <2>1, <2>2, <2>4
  <2>5. QED BY <1>5, <2>3, <2>4 DEF ReadHeader
\* What comes next in the datagram of m.
<1>6. ASSUME data = Encoded[m], pc = "fields", MoreFields
      PROVE  /\ k < n /\ m.type \in 0 .. 2 /\ Decoded(m) /\ ~cast /\ Kind \in Kinds
             /\ ~Throws(Kind) /\ ~Casts(Kind) /\ Reach(Kind) <= BufferSize
             /\ Reach(Kind) = o[k + 1] /\ PK(Kind) = Shown(m.body[k + 1])
  <2>1. m.type \in 0 .. 2 /\ Decoded(m) /\ p = o[k] /\ ~cast /\ Type = m.type
    BY <1>6, HeaderSent
  <2>2. k < n
    BY <1>2, <1>6, <2>1, LayoutsAgree DEF MoreFields
  <2>3. Exact /\ Kind \in Kinds
    BY <1>6, <2>1, KindIs DEF ReadInv
  <2>4. /\ ~Throws(Kind) /\ ~Casts(Kind)
        /\ Reach(Kind) = o[k + 1] /\ PK(Kind) = Shown(m.body[k + 1])
    BY <1>1, <1>6, <2>1, <2>2, <2>3, FieldSent
  <2>5. Reach(Kind) \in Nat /\ Reach(Kind) <= Len(data)
    BY <1>1, <2>3, <2>4, FieldRead
  <2>6. QED BY <1>1, <2>1, <2>2, <2>3, <2>4, <2>5
<1>7. CASE ReadField
  <2> SUFFICES ASSUME data = Encoded[m] PROVE SentInv(m)'
    BY <1>7 DEF ReadField
  <2>1. /\ pc = "fields" /\ MoreFields
        /\ fields' = Append(fields, PK(Kind)) /\ p' = Reach(Kind)
        /\ cast' = (cast \/ Casts(Kind))
        /\ UNCHANGED <<pc, data, log>>
    BY <1>7 DEF ReadField
  <2>2. /\ k < n /\ m.type \in 0 .. 2 /\ Decoded(m) /\ ~cast' /\ Kind \in Kinds
        /\ Reach(Kind) = o[k + 1] /\ PK(Kind) = Shown(m.body[k + 1])
    BY <1>6, <2>1
  <2>3. PK(Kind) \in Value
    BY <1>1, <2>2, FieldRead
  <2>4. /\ Len(fields') = k + 1 /\ fields'[k + 1] = PK(Kind)
        /\ \A j \in 1 .. k : fields'[j] = fields[j]
    BY <1>1, <2>1, <2>3, AppendProperties
  <2> HIDE DEF k
  <2>5. \A j \in 1 .. k + 1 : j \in 1 .. k \/ j = k + 1
    BY <1>1 DEF k
  <2>6. k + 1 <= n
    BY <1>1, <1>2, <2>2
  <2>7. \A j \in 1 .. k + 1 : fields'[j] = Shown(m.body[j])
    BY <2>2, <2>4, <2>5 DEF Decoded, k
  <2>8. Decoded(m)' /\ p' = o[Len(fields')]
    BY <2>1, <2>2, <2>4, <2>6, <2>7 DEF Decoded
  <2>9. QED BY <2>1, <2>2, <2>8
<1>8. CASE ReadsOn \/ FieldThrows \/ NewThrows
  <2> SUFFICES ASSUME data = Encoded[m] PROVE FALSE
    BY <1>8 DEF ReadsOn, FieldThrows, NewThrows, GivenUp, buffer
  <2>1. /\ pc = "fields" /\ MoreFields
        /\ Throws(Kind) \/ Casts(Kind) \/ Reach(Kind) > BufferSize
    BY <1>8 DEF ReadsOn, FieldThrows, NewThrows
  <2>2. ~Throws(Kind) /\ ~Casts(Kind) /\ Reach(Kind) <= BufferSize /\ Kind \in Kinds
    BY <1>6, <2>1
  <2>3. Reach(Kind) \in Nat
    BY <1>1, <2>2, FieldRead
  <2>4. QED BY <1>1, <2>1, <2>2, <2>3
<1>9. CASE Built
  <2> SUFFICES ASSUME data = Encoded[m] PROVE SentInv(m)'
    BY <1>9 DEF Built, buffer
  <2>1. pc = "fields" /\ ~MoreFields /\ UNCHANGED <<data, p, fields, log, cast>>
    BY <1>9 DEF Built, buffer
  <2>2. m.type \in 0 .. 2 /\ Decoded(m) /\ p = o[k] /\ ~cast /\ Type = m.type
    BY <2>1, HeaderSent
  <2>3. k = n
    <3>1. Len(Layout(Type)) = n
      BY <1>2, <2>2, LayoutsAgree
    <3>2. QED BY <1>1, <1>2, <2>1, <2>2, <3>1 DEF Decoded, MoreFields
  <2>4. cb = 0
    BY <1>1, <1>2, <2>2, <2>3 DEF ReadInv, Exact
  <2>5. pc' = "print"
    BY <1>9, <2>4 DEF Built
  <2>6. QED BY <2>1, <2>2, <2>3, <2>5 DEF Decoded
<1>10. CASE ShowMessage
  BY <1>10 DEF ShowMessage, LogFields, buffer, Decoded
<1>11. CASE Dump
  BY <1>11 DEF Dump, buffer, histories
<1>12. CASE UNCHANGED vars
  BY <1>12 DEF vars, buffer, histories, Decoded
<1>13. QED
  BY <1>3, <1>4, <1>5, <1>7, <1>8, <1>9, <1>10, <1>11, <1>12 DEF Next

LEMMA WholeInductive == Spec => []WholeInv
<1>1. Init => WholeInv
  BY DEF Init, WholeInv, Decoding
<1>2. ReadInv /\ WholeInv /\ [Next]_vars => WholeInv'
  BY WholeStep
<1>3. QED BY <1>1, <1>2, Inductive, PTL DEF Spec

LEMMA SentInductive == Spec => [](\A m \in Messages : SentInv(m))
<1> DEFINE All == \A m \in Messages : SentInv(m)
<1>1. Init => All
  <2> SUFFICES ASSUME Init, NEW m \in Messages PROVE data # Encoded[m]
    BY DEF SentInv
  <2>1. data = <<>> /\ Len(<<>>) = 0
    BY DEF Init
  <2>2. 12 <= Len(Encoded[m])
    BY MessagesAssumption, SentIs
  <2>3. QED BY <2>1, <2>2
<1>2. ReadInv /\ All /\ [Next]_vars => All'
  <2> SUFFICES ASSUME ReadInv, All, [Next]_vars, NEW m \in Messages
               PROVE  SentInv(m)'
    OBVIOUS
  <2>1. SentInv(m)
    OBVIOUS
  <2> HIDE DEF All
  <2>2. QED BY <2>1, MessagesAssumption, BufferAssumption, SentStep
<1> HIDE DEF All
<1>3. Spec => []All
  BY <1>1, <1>2, Inductive, PTL DEF Spec
<1>4. QED BY <1>3 DEF All

\* Whatever arrives, and unless a length in it was negative, only what is a whole
\* message and nothing more is shown as one: its header is one the reader knows
\* and its last field ends where the datagram does (unpack.cpp:227-259).
THEOREM ShowsWholeMessages == Spec => [](log = "message" /\ ~cast => Whole(data))
<1>1. WholeInv => (log = "message" /\ ~cast => Whole(data))
  BY DEF WholeInv
<1>2. QED BY <1>1, WholeInductive, PTL

\* Every message that is sent and fits the buffer is decoded into the fields it
\* was made of, whatever their values, if it is of a type the reader knows, and
\* else not taken for a message, whatever else arrives (unpack.cpp:44-63, 224-264,
\* NetworkMessage.hpp:60-364).
THEOREM DecodesWhatIsSent == Spec => []DecodesWhatWasSent
<1> DEFINE All == \A m \in Messages : SentInv(m)
<1>1. ReadInv /\ WholeInv /\ All => DecodesWhatWasSent
  <2> SUFFICES ASSUME ReadInv, WholeInv, All, pc \in {"loop", "dump"},
                      NEW m \in Messages, data = Encoded[m]
               PROVE  IF m.type \in 0 .. 2
                      THEN /\ log = "message"
                           /\ fields = [j \in DOMAIN m.body |-> Shown(m.body[j])]
                      ELSE log # "message" /\ fields = <<>> /\ heap = {}
    BY DEF DecodesWhatWasSent
  <2>1. SentInv(m) /\ heap = {}
    BY DEF ReadInv, Allocated, Decoding
  <2>2. CASE pc = "dump"
    BY <2>1, <2>2 DEF SentInv, WholeInv
  <2>3. CASE pc = "loop" /\ m.type \notin 0 .. 2
    BY <2>1, <2>3 DEF SentInv
  <2>4. CASE pc = "loop" /\ m.type \in 0 .. 2
    <3>1. log = "message" /\ Decoded(m) /\ Len(fields) = Len(m.body)
      BY <2>1, <2>4 DEF SentInv
    <3>2. fields \in Seq(Value)
      BY DEF ReadInv
    <3>3. DOMAIN m.body = 1 .. Len(m.body)
      BY MessagesAssumption, BodyFields
    <3>4. fields = [j \in 1 .. Len(fields) |-> fields[j]]
      BY <3>2
    <3>5. fields = [j \in DOMAIN m.body |-> Shown(m.body[j])]
      BY <3>1, <3>3, <3>4 DEF Decoded
    <3>6. QED BY <2>4, <3>1, <3>5
  <2>5. QED BY <2>2, <2>3, <2>4
<1> HIDE DEF All
<1>2. Spec => []All
  BY SentInductive DEF All
<1>3. QED BY <1>1, <1>2, Inductive, WholeInductive, PTL
=============================================================================
