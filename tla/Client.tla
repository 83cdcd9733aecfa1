------------------------------- MODULE Client -------------------------------
(***************************************************************************)
(* _client (UDPdispatcher/client.cpp): one thread per configured host.  It *)
(* sends the host what it finds in `toSend` and queues what comes back in  *)
(* `received`.  When the host is not there it closes its socket, sleeps    *)
(* five seconds and starts again.                                          *)
(*                                                                         *)
(* Every variable but the network's is a function of the client.  The      *)
(* destructor is in Lifecycle.tla.                                         *)
(***************************************************************************)
EXTENDS Network

CONSTANTS
  Clients,     \* the configured clients
  Home,        \* the address configured for each client's host
  Strays,      \* the other addresses that send to each client's socket
  ReplyOf,     \* what each client's host may send back
  MaxReplies   \* bound: replies accepted by a client or waiting in its socket

ASSUME ClientAssumption ==
  /\ Home \in [Clients -> Address]
  /\ Strays \in [Clients -> SUBSET Address]
  /\ ReplyOf \in [Clients -> SUBSET Blob]
  /\ MaxReplies \in Nat

VARIABLES
  cPc,        \* where the worker is
  cStop,      \* _client::stop
  cActive,    \* _client::bActive, counted in the main window
  cPort,      \* the socket has a port, given by its first sendto
  cIn,        \* the socket
  cDest,      \* server_addr: where the worker sends
  cToSend,    \* _client::toSend
  cReceived,  \* _client::received
  cTaken,     \* history: all taken from toSend; at sendto the last is in hand
  cGot        \* history: all that was put in received

clientVars ==
  <<cPc, cStop, cActive, cPort, cIn, cDest, cToSend, cReceived, cTaken, cGot>>

ClientBoxes == {"socketBox", "recvBox", "sendBox"}

\* "loop" is the head of the loop, up to the test of toSend; "recv" is the
\* test for a reply; "sleep" is the Sleep(5000) before `goto again`.
ClientPlaces ==
  ClientBoxes \cup {"socket", "loop", "sendto", "recv", "sleep", "ended"}

ClientInit ==
  /\ cPc = [c \in Clients |-> "socket"]
  /\ cStop = [c \in Clients |-> FALSE]
  /\ cActive = [c \in Clients |-> FALSE]
  /\ cPort = [c \in Clients |-> FALSE]
  /\ cIn = [c \in Clients |-> <<>>]
  /\ cDest = [c \in Clients |-> Nowhere]
  /\ cToSend = [c \in Clients |-> <<>>]
  /\ cReceived = [c \in Clients |-> <<>>]
  /\ cTaken = [c \in Clients |-> <<>>]
  /\ cGot = [c \in Clients |-> <<>>]

To(c, place) == cPc' = [cPc EXCEPT ![c] = place]
-----------------------------------------------------------------------------
\* Mutant: the address is set only once.
GoesHomeOnce(c) ==
  cDest' = IF cDest[c] = Nowhere THEN [cDest EXCEPT ![c] = Home[c]] ELSE cDest

GoesHome(c) == cDest' = [cDest EXCEPT ![c] = Home[c]]

\* A new socket, and the configured address to send to.
ClientSocket(c) ==
  /\ cPc[c] = "socket"
  /\ \/ To(c, "loop") /\ GoesHome(c)
     \/ "socket" \in Faults /\ To(c, "socketBox") /\ UNCHANGED cDest
  /\ UNCHANGED <<cStop, cActive, cPort, cIn, cToSend, cReceived, cTaken,
                 cGot, up>>

\* stop = error(...), or for the socket: return, or try again.
ClientAnswer(c, yes) ==
  /\ \/ /\ cPc[c] = "socketBox"
        /\ To(c, IF yes THEN "ended" ELSE "socket")
        /\ UNCHANGED cStop
     \/ /\ cPc[c] \in {"recvBox", "sendBox"}
        /\ To(c, "loop")
        /\ cStop' = [cStop EXCEPT ![c] = yes]
  /\ UNCHANGED <<cActive, cPort, cIn, cDest, cToSend, cReceived, cTaken,
                 cGot, up>>

ClientEnds(c) ==
  /\ cPc[c] = "loop" /\ cStop[c]
  /\ To(c, "ended")
  /\ cActive' = [cActive EXCEPT ![c] = FALSE]
  /\ cPort' = [cPort EXCEPT ![c] = FALSE]
  /\ cIn' = [cIn EXCEPT ![c] = <<>>]
  /\ UNCHANGED <<cStop, cDest, cToSend, cReceived, cTaken, cGot, up>>
-----------------------------------------------------------------------------
\* There is something to send, and the socket will not block.
ClientTake(c) ==
  /\ cPc[c] = "loop" /\ ~cStop[c]
  /\ cToSend[c] # <<>>
  /\ cToSend' = [cToSend EXCEPT ![c] = Tail(@)]
  /\ cTaken' = [cTaken EXCEPT ![c] = Append(@, Head(cToSend[c]))]
  /\ To(c, "sendto")
  /\ UNCHANGED <<cStop, cActive, cPort, cIn, cDest, cReceived, cGot, up>>

\* Nothing to send, or the socket would block.
ClientPass(c) ==
  /\ cPc[c] = "loop" /\ ~cStop[c]
  /\ To(c, "recv")
  /\ UNCHANGED <<cStop, cActive, cPort, cIn, cDest, cToSend, cReceived,
                 cTaken, cGot, up>>

\* Mutant: the client counts as active before the send is known to have worked.
ClientSendActive(c) ==
  /\ cPc[c] = "sendto"
  /\ cActive' = [cActive EXCEPT ![c] = TRUE]
  /\ \/ /\ To(c, "loop")
        /\ cPort' = [cPort EXCEPT ![c] = TRUE]
        /\ \E in \in AfterSend(cDest[c], cIn[c]) : cIn' = [cIn EXCEPT ![c] = in]
     \/ "send" \in Faults /\ To(c, "sendBox") /\ UNCHANGED <<cPort, cIn>>
  /\ UNCHANGED <<cStop, cDest, cToSend, cReceived, cTaken, cGot, up>>

ClientSend(c) ==
  /\ cPc[c] = "sendto"
  /\ \/ /\ To(c, "loop")
        /\ cActive' = [cActive EXCEPT ![c] = TRUE]
        /\ cPort' = [cPort EXCEPT ![c] = TRUE]
        /\ \E in \in AfterSend(cDest[c], cIn[c]) : cIn' = [cIn EXCEPT ![c] = in]
     \/ "send" \in Faults /\ To(c, "sendBox") /\ UNCHANGED <<cActive, cPort, cIn>>
  /\ UNCHANGED <<cStop, cDest, cToSend, cReceived, cTaken, cGot, up>>

\* A reply: recvfrom stores its sender in the address the worker sends to.
ClientReceive(c) ==
  /\ cPc[c] = "recv"
  /\ cIn[c] # <<>> /\ Head(cIn[c]).kind = "data"
  /\ cIn' = [cIn EXCEPT ![c] = Tail(@)]
  /\ cDest' = [cDest EXCEPT ![c] = Head(cIn[c]).from]
  /\ cReceived' = [cReceived EXCEPT ![c] = Append(@, Head(cIn[c]).blob)]
  /\ cGot' = [cGot EXCEPT ![c] = Append(@, Head(cIn[c]).blob)]
  /\ cActive' = [cActive EXCEPT ![c] = TRUE]
  /\ To(c, "loop")
  /\ UNCHANGED <<cStop, cPort, cToSend, cTaken, up>>

\* Mutant: the client still counts as active after the socket is closed.
ClientResetQuietly(c) ==
  /\ cPc[c] = "recv"
  /\ cIn[c] # <<>> /\ Head(cIn[c]) = Reset
  /\ cIn' = [cIn EXCEPT ![c] = <<>>]
  /\ cPort' = [cPort EXCEPT ![c] = FALSE]
  /\ To(c, "sleep")
  /\ UNCHANGED <<cStop, cActive, cDest, cToSend, cReceived, cTaken, cGot, up>>

\* WSAECONNRESET, the host is not there: the socket is closed, with all that
\* still waits in it.
ClientReset(c) ==
  /\ cPc[c] = "recv"
  /\ cIn[c] # <<>> /\ Head(cIn[c]) = Reset
  /\ cIn' = [cIn EXCEPT ![c] = <<>>]
  /\ cActive' = [cActive EXCEPT ![c] = FALSE]
  /\ cPort' = [cPort EXCEPT ![c] = FALSE]
  /\ To(c, "sleep")
  /\ UNCHANGED <<cStop, cDest, cToSend, cReceived, cTaken, cGot, up>>

\* Sleep(5000) is over: goto again.
ClientAgain(c) ==
  /\ cPc[c] = "sleep"
  /\ To(c, "socket")
  /\ UNCHANGED <<cStop, cActive, cPort, cIn, cDest, cToSend, cReceived,
                 cTaken, cGot, up>>

\* Any other error: the user is asked, after which the worker sleeps 20 ms and
\* goes round.  The sender of a too long datagram may have been stored.
ClientReceiveFails(c) ==
  /\ cPc[c] = "recv"
  /\ cIn[c] # <<>> /\ Head(cIn[c]).kind = "tooLong"
  /\ cIn' = [cIn EXCEPT ![c] = Tail(@)]
  /\ \/ UNCHANGED cDest
     \/ cDest' = [cDest EXCEPT ![c] = Head(cIn[c]).from]
  /\ To(c, "recvBox")
  /\ UNCHANGED <<cStop, cActive, cPort, cToSend, cReceived, cTaken, cGot, up>>

ClientIdle(c) ==
  /\ cPc[c] = "recv"
  /\ cIn[c] = <<>>
  /\ To(c, "loop")
  /\ UNCHANGED <<cStop, cActive, cPort, cIn, cDest, cToSend, cReceived,
                 cTaken, cGot, up>>
-----------------------------------------------------------------------------
\* Something comes back from the host, or from another program that learned
\* the socket's port.
ClientArrive(c, a) ==
  /\ a \in ({Home[c]} \cup Strays[c]) \cap up
  /\ cPort[c]
  /\ Len(cGot[c]) + Len(cIn[c]) < MaxReplies
  /\ \E e \in From(a, ReplyOf[c]) : cIn' = [cIn EXCEPT ![c] = Append(@, e)]
  /\ UNCHANGED <<cPc, cStop, cActive, cPort, cDest, cToSend, cReceived,
                 cTaken, cGot, up>>

ClientStep(c) ==
  \/ ClientSocket(c) \/ ClientAgain(c) \/ ClientEnds(c)
  \/ ClientTake(c) \/ ClientPass(c) \/ ClientSend(c)
  \/ ClientReceive(c) \/ ClientReset(c) \/ ClientReceiveFails(c) \/ ClientIdle(c)

ClientNext ==
  \E c \in Clients :
    \/ ClientStep(c)
    \/ \E yes \in BOOLEAN : ClientAnswer(c, yes)
    \/ \E a \in Address : ClientArrive(c, a)

-----------------------------------------------------------------------------
ClientTypeOK ==
  /\ cPc \in [Clients -> ClientPlaces]
  /\ cStop \in [Clients -> BOOLEAN] /\ cActive \in [Clients -> BOOLEAN]
  /\ cPort \in [Clients -> BOOLEAN]
  /\ cIn \in [Clients -> Seq(Event)]
  /\ cDest \in [Clients -> Address \cup {Nowhere}]
  /\ cToSend \in [Clients -> Seq(Blob)] /\ cReceived \in [Clients -> Seq(Blob)]
  /\ cTaken \in [Clients -> Seq(Blob)] /\ cGot \in [Clients -> Seq(Blob)]
=============================================================================
