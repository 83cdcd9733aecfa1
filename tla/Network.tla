------------------------------ MODULE Network ------------------------------
(***************************************************************************)
(* What the program needs of Winsock (external code): UDP sockets as the   *)
(* workers of server.cpp and client.cpp use them.  A socket is the         *)
(* sequence of events recvfrom will report, oldest first; WSAPoll says     *)
(* "readable" when there is one.                                           *)
(***************************************************************************)
EXTENDS Integers, Sequences

CONSTANTS
  Blob,      \* the payloads that fit the 512-byte buffers
  Address,   \* an IP address and port
  Nowhere,   \* sockaddr_in{}: the address before the first datagram
  Faults     \* bound: what may go wrong in this instance

FaultKinds == {"socket", "bind", "send", "tooLong", "away"}

ASSUME NetworkAssumption == Nowhere \notin Address /\ Faults \subseteq FaultKinds

VARIABLE up   \* the addresses where some program has a socket open

\* recvfrom returns a datagram, or fails: with WSAEMSGSIZE for a datagram
\* longer than the buffer, with WSAECONNRESET when an earlier sendto from this
\* socket reached a machine but no open port.
Data(a, b) == [kind |-> "data", from |-> a, blob |-> b]

TooLong(a) == [kind |-> "tooLong", from |-> a]

Reset == [kind |-> "reset"]

Event == [kind : {"data"}, from : Address, blob : Blob]
           \cup [kind : {"tooLong"}, from : Address] \cup {Reset}

\* What a program at a can send to a socket of ours.
From(a, blobs) ==
  {Data(a, b) : b \in blobs}
    \cup (IF "tooLong" \in Faults THEN {TooLong(a)} ELSE {})

\* A sender's socket after a sendto to a, where its events were in: the answer
\* "nobody there" comes back, or not (a machine switched off sends none).
AfterSend(a, in) ==
  IF a \in up THEN {in} ELSE {in, Append(in, Reset)}

NetworkInit == up \in SUBSET Address /\ ("away" \notin Faults => up = Address)

\* A program opens or closes its socket at a.
Switch(a) ==
  /\ "away" \in Faults
  /\ up' = IF a \in up THEN up \ {a} ELSE up \cup {a}
=============================================================================
