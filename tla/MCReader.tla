------------------------------ MODULE MCReader ------------------------------
(***************************************************************************)
(* Reader for TLC.  It gets a message of every type of the protocol, those *)
(* it knows also with empty, absent and longer strings; bytes differ from  *)
(* field to field.  One message of each type it knows also comes cut short *)
(* at every byte (as an older program may send it, that knows fewer        *)
(* fields), and with a byte more (as a newer one may); with a first string *)
(* that says it is much longer; with one whose length is negative, which   *)
(* lets the reader read on behind the datagram, find a message there, run  *)
(* out of bytes or leave the buffer; with a wrong header.  One message is  *)
(* as long as the buffer, one is a byte longer.                            *)
(***************************************************************************)
EXTENDS Reader

CONSTANT Texts   \* the strings, as sequences of bytes

MCTexts == {<<>>, <<65>>, <<66, 67>>, NoText}

\* A message whose strings are t and u in turn, and whose flags alternate.
Sample(schema, type, t, u) ==
  LET contents == Contents[type + 1]
      Value(i) ==
        CASE contents[i] = "utf8" -> IF i % 3 = 1 THEN t ELSE u
          [] contents[i] = "bool" -> <<i % 2>>
          [] OTHER -> [k \in 1 .. Size[contents[i]] |-> (i * 16 + k) % 256]
  IN [schema |-> schema, type |-> type,
      body |-> [i \in DOMAIN contents |->
                  [kind |-> contents[i], value |-> Value(i)]]]

MCMessages ==
  {Sample(s, type, <<65>>, <<66, 67>>) : s \in {2, 3}, type \in MessageType}
    \cup {Sample(3, type, t, u) : type \in 0 .. 2, t, u \in Texts}
    \cup {Sample(3, 0, [k \in 1 .. 242 |-> 65], u) : u \in {<<>>, <<66>>}}

\* Schemas that are not known, and a type that does not exist yet.
WrongHeaders ==
  {Encode([Sample(3, 0, <<65>>, <<65>>) EXCEPT !.schema = s]) : s \in {1, 4}}
    \cup {Encode([Sample(3, 0, <<65>>, <<65>>) EXCEPT !.type = Len(Contents)])}

\* Strings that are not as long as they are said to be.
WrongLengths ==
  {[Encode(Sample(3, type, <<65>>, <<65>>)) EXCEPT ![k] = 1] :
     type \in 0 .. 2, k \in 13 .. 15}

\* Lengths of 2^31 and more: -2 + 2^32, 2^31, 2^31 + 512.
NegativeLengths ==
  {<<255, 255, 255, 254>>, <<128, 0, 0, 0>>, <<128, 0, 2, 0>>}

\* The first string has such a length, and its one character is taken for the
\* first byte of what follows.
WithLength(d, w) == SubSeq(d, 1, 12) \o w \o SubSeq(d, 17, Len(d))

MCNegative ==
  {WithLength(Encode(Sample(3, type, <<0>>, <<>>)), w) :
     type \in 0 .. 2, w \in NegativeLengths}

\* Heartbeats without revision: the two bytes missing are read behind the
\* datagram; the version is longer than the buffer.
MCReadsOn ==
  {Magic \o Word(3) \o Word(0) \o <<255, 255, 255, 254>> \o Word(3) \o Word(0) \o <<0, 0>>,
   Magic \o Word(3) \o Word(0) \o <<128, 0, 2, 0>> \o Word(3) \o Word(512)}

MCOthers ==
  WrongHeaders \cup WrongLengths \cup MCNegative \cup MCReadsOn \cup UNION {
    LET d == Encode(Sample(2, type, <<66, 67>>, <<65>>))
    IN {SubSeq(d, 1, k) : k \in 1 .. Len(d) - 1} \cup {d \o <<0>>} :
    type \in 0 .. 2}
=============================================================================
