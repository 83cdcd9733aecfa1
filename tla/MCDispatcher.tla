---------------------------- MODULE MCDispatcher ----------------------------
(***************************************************************************)
(* The relay for TLC: one program that feeds it, N clients, each with its  *)
(* host and at most one other program that sends to its socket.  Payloads  *)
(* are model values, told apart by where they come from; the relay treats  *)
(* them alike, so any permutation of one origin's payloads is a symmetry.  *)
(***************************************************************************)
EXTENDS Dispatcher, TLC

CONSTANT
  Replies1, Replies2,   \* the replies of the hosts of client 1 and 2
  WithStray             \* the clients whose socket hears another program too

MCClients == 1 .. N

\* Addresses: the feed's, and for a client its host's and another program's.
MCSource == {<<0, 0>>}
MCHome == [c \in MCClients |-> <<c, 1>>]
MCStrays == [c \in MCClients |-> {<<d, 2>> : d \in {c} \cap WithStray}]
MCAddress == MCSource \cup {MCHome[c] : c \in MCClients}
               \cup UNION {MCStrays[c] : c \in MCClients}

MCReplyOf == [c \in MCClients |-> IF c = 1 THEN Replies1 ELSE Replies2]
MCBlob == Packet \cup UNION {MCReplyOf[c] : c \in MCClients}

Alike ==
  Permutations(Packet) \cup Permutations(Replies1) \cup Permutations(Replies2)
=============================================================================
