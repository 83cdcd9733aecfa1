--------------------------- MODULE NetworkMessage ---------------------------
(***************************************************************************)
(* What WSJT-X and the programs around it send one another, as             *)
(* NetworkMessage.hpp describes it: the contents of each type of message,  *)
(* and how they become bytes.                                              *)
(*                                                                         *)
(* A message is a record [schema, type, body]; its body has a field        *)
(* [kind, value] for each of the type's contents.  A value is the string,  *)
(* or else the bytes the field is sent as, high byte first.                *)
(***************************************************************************)
EXTENDS Integers, Sequences, SequencesExt

\* The contents of each type of message.
Heartbeat == <<"utf8", "quint32", "utf8", "utf8">>

Status ==
  <<"utf8", "quint64", "utf8", "utf8", "utf8", "utf8", "bool", "bool", "bool",
    "quint32", "quint32", "utf8", "utf8", "utf8", "bool", "utf8", "bool",
    "quint8", "quint32", "quint32", "utf8", "utf8">>

Decode ==
  <<"utf8", "bool", "QTime", "qint32", "float", "quint32", "utf8", "utf8",
    "bool", "bool">>

\* The window is named only to WSJT-X, not by it.
Clear == <<"utf8", "quint8">>

Reply ==
  <<"utf8", "QTime", "qint32", "float", "quint32", "utf8", "utf8", "bool",
    "quint8">>

QSOLogged ==
  <<"utf8", "QDateTime", "utf8", "utf8", "quint64", "utf8", "utf8", "utf8",
    "utf8", "utf8", "utf8", "QDateTime", "utf8", "utf8", "utf8", "utf8", "utf8",
    "utf8">>

Close == <<"utf8">>

Replay == <<"utf8">>

HaltTx == <<"utf8", "bool">>

FreeText == <<"utf8", "utf8", "bool">>

WSPRDecode ==
  <<"utf8", "bool", "QTime", "qint32", "float", "quint64", "qint32", "utf8",
    "utf8", "qint32", "bool">>

Location == <<"utf8", "utf8">>

LoggedADIF == <<"utf8", "utf8">>

HighlightCallsign == <<"utf8", "utf8", "QColor", "QColor", "bool">>

SwitchConfiguration == <<"utf8", "utf8">>

Configure ==
  <<"utf8", "utf8", "quint32", "utf8", "bool", "quint32", "quint32", "utf8",
    "utf8", "bool">>

\* The types in the order of their numbers, from 0.
Contents ==
  <<Heartbeat, Status, Decode, Clear, Reply, QSOLogged, Close, Replay, HaltTx,
    FreeText, WSPRDecode, Location, LoggedADIF, HighlightCallsign,
    SwitchConfiguration, Configure>>

MessageType == 0 .. Len(Contents) - 1
-----------------------------------------------------------------------------
\* How many bytes a field that is not a string takes.  A QDateTime is a date, a
\* time and the byte that says it is UTC; a float goes as a double.
Size ==
  [quint8 |-> 1, bool |-> 1, quint32 |-> 4, qint32 |-> 4, QTime |-> 4,
   quint64 |-> 8, float |-> 8, QColor |-> 11, QDateTime |-> 13]

Magic == <<173, 188, 203, 218>>

Word(k) == <<0, 0, k \div 256, k % 256>>

\* A null string, which the protocol tells from an empty one.
NoText == <<-1>>
NullLength == <<255, 255, 255, 255>>

Code(f) ==
  IF f.kind # "utf8" THEN f.value
  ELSE IF f.value = NoText THEN NullLength
  ELSE Word(Len(f.value)) \o f.value

Encode(m) ==
  Magic \o Word(m.schema) \o Word(m.type)
    \o FlattenSeq([i \in DOMAIN m.body |-> Code(m.body[i])])
=============================================================================
