------------------------------- MODULE Reader -------------------------------
(***************************************************************************)
(* reader: the program that receives WSJT-X messages on a port of its own, *)
(* decodes them (unpack.cpp) and writes them to a log (reader.cpp).        *)
(*                                                                         *)
(* A datagram is a sequence of bytes, in a buffer of BufferSize that holds *)
(* zeros behind it.  unpack reads it field by field with the PK_ functions, *)
(* which throw when cb says that too few bytes are left; each string is    *)
(* allocated and belongs to the message, whose destructor frees it.  A     *)
(* field's value is the bytes it was read from, except that a string of    *)
(* length 0xffffffff reads as "none" and a flag as <<0>> or <<1>>.         *)
(*                                                                         *)
(* A string's length is cast to an int, negative from 2^31 on: it passes   *)
(* the test of what is left, nothing is copied, and cb is wrong from then  *)
(* on.  A field read past the buffer is undefined: pc = "wild", where the  *)
(* model ends.                                                             *)
(***************************************************************************)
EXTENDS NetworkMessage

CONSTANTS
  Messages,    \* the messages of the protocol that it may get
  Others,      \* other datagrams
  BufferSize   \* the size of the buffer

Byte == 0 .. 255

VARIABLES
  pc,       \* "loop", "header", "fields", "print", "dump", "stopped" or "wild"
  data,     \* the datagram in the buffer
  p,        \* how much of the buffer was read
  cb,       \* how much is left to read
  fields,   \* the values of the fields read so far
  heap,     \* the fields of the present message that are allocated
  log,      \* what was written of it: "nothing", "dump" or "message"
  leaked,   \* strings of this datagram were never freed
  threw,    \* history: this datagram ended inside a message
  cast      \* history: a length in it was negative

buffer == <<data, p, cb>>
histories == <<leaked, threw, cast>>
vars == <<pc, buffer, fields, heap, log, histories>>

\* The fields of each type, in the order its constructor reads them.
heartbeat == <<"utf8", "uint32", "utf8", "utf8">>

status ==
  <<"utf8", "uint64", "utf8", "utf8", "utf8", "utf8", "bool", "bool", "bool",
    "uint32", "uint32", "utf8", "utf8", "utf8", "bool", "utf8", "bool",
    "uint8", "uint32", "uint32", "utf8", "utf8">>

decode ==
  <<"utf8", "bool", "uint32", "uint32", "double", "uint32", "utf8", "utf8",
    "bool", "bool">>

\* Mutant: status and decode are swapped.
LayoutSwapped(type) == <<heartbeat, decode, status>>[type + 1]

Layout(type) == <<heartbeat, status, decode>>[type + 1]

\* Mutant: ~status forgets the last string.
DeletedButOne(type) ==
  <<{1, 3, 4}, {1, 3, 4, 5, 6, 12, 13, 14, 16, 21}, {1, 7, 8}>>[type + 1]

\* The fields each destructor deletes.
Deleted(type) ==
  <<{1, 3, 4}, {1, 3, 4, 5, 6, 12, 13, 14, 16, 21, 22}, {1, 7, 8}>>[type + 1]
-----------------------------------------------------------------------------
\* k bytes of the buffer behind the first a, where it holds d.
At(d, a, k) == [j \in 1 .. k |-> IF a + j <= Len(d) THEN d[a + j] ELSE 0]

Bytes(from, k) == At(data, from, k)

magic == <<173, 188, 203, 218>>
NoString == <<255, 255, 255, 255>>

Width == [uint8 |-> 1, bool |-> 1, uint32 |-> 4, uint64 |-> 8, double |-> 8]

\* The four bytes before a string, as a length: whether the int is negative; by
\* how much the length exceeds 2^31 then; how many characters are copied.
Negative(w) == w[1] >= 128 /\ w # NoString

Number(w) == 256 * (256 * (256 * (w[1] % 128) + w[2]) + w[3]) + w[4]

StringLength(w) == IF w[1] >= 128 THEN 0 ELSE Number(w)

None == <<110, 111, 110, 101>>

\* A string of which no character was set.
Unset == <<-2>>

Flag(b) == IF b = 0 THEN <<0>> ELSE <<1>>

\* The bytes a PK_ function reads where a bytes of d were read; a string's length
\* comes first.
Asks(d, a, kind) ==
  IF kind # "utf8" THEN Width[kind] ELSE 4 + StringLength(At(d, a, 4))

Needs(kind) == Asks(data, p, kind)

\* The PK_ functions: whether one throws; how far it reads; what it returns;
\* what is left.
Throws(kind) == cb < Needs(kind)

Casts(kind) == kind = "utf8" /\ Negative(Bytes(p, 4))

\* Mutant: PK_utf8 takes the length's own bytes off again (PK_uint32 has).
ReachTwice(kind) == p + Needs(kind) + IF kind = "utf8" THEN 4 ELSE 0

Reach(kind) == p + Needs(kind)

PK(kind) ==
  CASE kind = "utf8" -> IF Bytes(p, 4) = NoString THEN None
                        ELSE IF Casts(kind) THEN Unset
                        ELSE Bytes(p + 4, StringLength(Bytes(p, 4)))
    [] kind = "bool" -> Flag(Bytes(p, 1)[1])
    [] OTHER -> Bytes(p, Width[kind])

\* a - 2^31 - b in 32 bits, for a and b below 2^31.
Minus(a, b) ==
  IF a >= b THEN a - b - 2147483647 - 1 ELSE a - b + 1 + 2147483647

Remains(kind) ==
  IF Casts(kind) THEN Minus(cb - 4, Number(Bytes(p, 4))) ELSE cb - Needs(kind)

Type == data[12]

\* The cases of the switch.
KnownTypes == {<<0, 0, 0, t>> : t \in 0 .. 2}

\* Magic, a schema it knows, a type it knows.
HeaderOK(d) ==
  /\ Len(d) >= 12
  /\ At(d, 0, 4) = magic
  /\ At(d, 4, 4) \in {<<0, 0, 0, 2>>, <<0, 0, 0, 3>>}
  /\ At(d, 8, 4) \in KnownTypes

\* Where the fields of d end.
Ends(d) ==
  LET e[j \in 0 .. Len(Layout(d[12]))] ==
        IF j = 0 THEN 12 ELSE e[j - 1] + Asks(d, e[j - 1], Layout(d[12])[j])
  IN e

\* d is a message of a type the reader knows, and nothing more.
Whole(d) ==
  /\ HeaderOK(d)
  /\ Ends(d)[Len(Layout(d[12]))] = Len(d)
  /\ \A j \in 1 .. Len(Layout(d[12])) :
       Layout(d[12])[j] = "utf8" => ~Negative(At(d, Ends(d)[j - 1], 4))
-----------------------------------------------------------------------------
\* The programs that send.
Encoded == [m \in Messages |-> Encode(m)]

Sent == {Encoded[m] : m \in Messages}

ASSUME DatagramsAssumption == Sent \cup Others \subseteq Seq(Byte)

ASSUME BufferAssumption == BufferSize \in Nat

\* The values of a field that has the given kind.
Values(kind) ==
  {v \in Seq(Byte) : IF kind = "utf8" THEN Len(v) < 65536
                     ELSE /\ Len(v) = Size[kind]
                          /\ kind = "bool" => v \in {<<0>>, <<1>>}}
    \cup IF kind = "utf8" THEN {NoText} ELSE {}

ASSUME MessagesAssumption == \A m \in Messages :
  /\ m.schema \in {2, 3} /\ m.type \in MessageType
  /\ m.body \in Seq([kind : {"utf8"} \cup DOMAIN Size, value : Seq(Int)])
  /\ Len(m.body) = Len(Contents[m.type + 1])
  /\ \A i \in DOMAIN m.body : /\ m.body[i].kind = Contents[m.type + 1][i]
                               /\ m.body[i].value \in Values(m.body[i].kind)

\* A field as the reader should show it.
Shown(f) == IF f.value = NoText THEN None ELSE f.value
-----------------------------------------------------------------------------
Init ==
  /\ pc = "loop"
  /\ data = <<>> /\ p = 0 /\ cb = 0
  /\ fields = <<>>
  /\ heap = {}
  /\ log = "nothing"
  /\ leaked = FALSE /\ threw = FALSE /\ cast = FALSE

Receive(d) ==
  /\ pc = "loop"
  /\ Len(d) <= BufferSize
  /\ data' = d /\ p' = 0 /\ cb' = Len(d)
  /\ fields' = <<>>
  /\ log' = "nothing"
  /\ pc' = "header"
  /\ leaked' = FALSE /\ threw' = FALSE /\ cast' = FALSE
  /\ UNCHANGED heap

\* For a datagram longer than the buffer recvfrom fails: the program exits.
ReceiveFails(d) ==
  /\ pc = "loop"
  /\ Len(d) > BufferSize
  /\ pc' = "stopped"
  /\ UNCHANGED <<buffer, fields, heap, log, histories>>

\* A key was pressed, or recvfrom failed for another reason.
Stop ==
  /\ pc = "loop"
  /\ pc' = "stopped"
  /\ UNCHANGED <<buffer, fields, heap, log, histories>>

ReadHeader ==
  /\ pc = "header"
  /\ \/ HeaderOK(data) /\ pc' = "fields" /\ p' = 12 /\ cb' = cb - 12
     \/ ~HeaderOK(data) /\ pc' = "dump" /\ UNCHANGED <<p, cb>>
  /\ UNCHANGED <<data, fields, heap, log, histories>>

Kind == Layout(Type)[Len(fields) + 1]

MoreFields == Len(fields) < Len(Layout(Type))

ReadField ==
  /\ pc = "fields" /\ MoreFields
  /\ ~Throws(Kind)
  /\ Reach(Kind) <= BufferSize
  /\ fields' = Append(fields, PK(Kind))
  /\ p' = Reach(Kind) /\ cb' = Remains(Kind)
  /\ cast' = (cast \/ Casts(Kind))
  /\ heap' = IF Kind = "utf8" THEN heap \cup {Len(fields) + 1} ELSE heap
  /\ UNCHANGED <<pc, data, log, leaked, threw>>

\* What lies behind the buffer is read: nothing is known from here on.
ReadsOn ==
  /\ pc = "fields" /\ MoreFields
  /\ ~Throws(Kind)
  /\ Reach(Kind) > BufferSize
  /\ pc' = "wild"
  /\ UNCHANGED <<buffer, fields, heap, log, histories>>

\* What was allocated is left: the constructor has thrown, so that there is no
\* message to delete.
GivenUp ==
  /\ pc' = "dump"
  /\ leaked' = (heap # {}) /\ heap' = {}
  /\ UNCHANGED <<buffer, fields, log>>

FieldThrows ==
  /\ pc = "fields" /\ MoreFields
  /\ Throws(Kind)
  /\ threw' = TRUE
  /\ GivenUp
  /\ UNCHANGED cast

\* new[] may fail for a string that no datagram could hold.
NewThrows ==
  /\ pc = "fields" /\ MoreFields
  /\ ~Throws(Kind)
  /\ Kind = "utf8" /\ (Casts(Kind) \/ Reach(Kind) > BufferSize)
  /\ cast' = (cast \/ Casts(Kind))
  /\ GivenUp
  /\ UNCHANGED threw

\* delete: the strings the destructor does not name are left.
Delete == leaked' = (heap \ Deleted(Type) # {}) /\ heap' = {}

\* The message has all its fields; with bytes to spare it is deleted again.
Built ==
  /\ pc = "fields" /\ ~MoreFields
  /\ \/ cb = 0 /\ pc' = "print" /\ UNCHANGED <<heap, leaked>>
     \/ cb # 0 /\ pc' = "dump" /\ Delete
  /\ UNCHANGED <<buffer, fields, log, threw, cast>>

\* The fields go to the log (unpack.cpp:211 shows val_new for low_confidence).
LogFields == log' = "message"

ShowMessage ==
  /\ pc = "print"
  /\ LogFields
  /\ Delete
  /\ pc' = "loop"
  /\ UNCHANGED <<buffer, fields, threw, cast>>

Dump ==
  /\ pc = "dump"
  /\ log' = "dump"
  /\ pc' = "loop"
  /\ UNCHANGED <<buffer, fields, heap, histories>>

Next ==
  \/ \E d \in Sent \cup Others : Receive(d) \/ ReceiveFails(d)
  \/ Stop \/ ReadHeader \/ ReadField \/ ReadsOn \/ FieldThrows \/ NewThrows
  \/ Built \/ ShowMessage \/ Dump

Spec == Init /\ [][Next]_vars
-----------------------------------------------------------------------------
\* The type of each variable.  Unless a length was negative, what is read stays
\* inside the datagram and cb is what is left of it (unpack.cpp:6-77).
TypeOK ==
  /\ pc \in {"loop", "header", "fields", "print", "dump", "stopped", "wild"}
  /\ data \in Seq(Byte) /\ Len(data) <= BufferSize /\ p \in 0 .. BufferSize
  /\ cb \in Int /\ (~cast => p <= Len(data) /\ cb = Len(data) - p)
  /\ \A i \in DOMAIN fields : fields[i] \in Seq(Byte) \cup {Unset}
  /\ heap \subseteq DOMAIN fields
  /\ log \in {"nothing", "message", "dump"}
  /\ leaked \in BOOLEAN /\ threw \in BOOLEAN /\ cast \in BOOLEAN

\* A message of a type the reader knows is decoded (unpack.cpp:224-264) into
\* the very fields NetworkMessage.hpp says it is made of, whatever was received
\* before it; one of another type is never taken for one of them.
DecodesWhatWasSent ==
  pc \in {"loop", "dump"} => \A m \in Messages :
    data = Encoded[m] =>
      IF m.type \in 0 .. 2
      THEN /\ log = "message"
           /\ fields = [i \in DOMAIN m.body |-> Shown(m.body[i])]
      ELSE log # "message" /\ fields = <<>> /\ heap = {}

\* The strings of a datagram are freed with its message, also when the message
\* is given up for what follows it.  Strings are left behind only by a datagram
\* that ends inside a message (its constructor threw, unpack.cpp:48 to :65), or
\* by one with a negative length (unpack.cpp:55-57: new[] may throw, and cb is
\* wrong).
LeaksOnlyWhenCut == leaked => threw \/ cast
=============================================================================
