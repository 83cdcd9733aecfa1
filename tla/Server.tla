------------------------------- MODULE Server -------------------------------
(***************************************************************************)
(* _server (UDPdispatcher/server.cpp): the thread that holds the port      *)
(* WSJT-X sends to.  It queues what it receives in `received` and sends    *)
(* what it finds in `toSend` back to whoever it heard from last.           *)
(*                                                                         *)
(* The queues are SafeQueues; SafeQueue.tla shows why each of their calls  *)
(* may be one step here.  The owner's calls on them (dispatcher.cpp) are   *)
(* in Dispatcher.tla, the destructor is in Lifecycle.tla.                  *)
(***************************************************************************)
EXTENDS Network

CONSTANTS
  Source,      \* the addresses of the programs that feed the server
  Packet,      \* what they send
  MaxPackets,  \* bound: datagrams accepted or waiting in the socket
  MaxLost      \* bound: replies whose sendto fails

ASSUME ServerAssumption ==
  /\ Source \subseteq Address /\ Packet \subseteq Blob
  /\ MaxPackets \in Nat /\ MaxLost \in Nat

VARIABLES
  sPc,        \* where the worker is
  sStop,      \* _server::stop
  sBound,     \* the socket is bound to the port
  sIn,        \* the socket
  sReplyTo,   \* client_addr
  sReceived,  \* _server::received
  sToSend,    \* _server::toSend
  accepted,   \* history: all that was put in received
  sTaken,     \* history: all taken from toSend; at sendto the last is in hand
  sSent       \* history: for each of these in turn, whether sendto sent it

serverVars ==
  <<sPc, sStop, sBound, sIn, sReplyTo, sReceived, sToSend, accepted, sTaken, sSent>>

\* Where a worker waits in error()'s message box, and where it goes on to
\* unless the answer ends it.
ServerBoxes == {"socketBox", "bindBox", "recvBox", "sendBox"}

ServerPlaces == ServerBoxes \cup {"socket", "bind", "loop", "send", "sendto", "ended"}

ServerInit ==
  /\ sPc = "socket"
  /\ sStop = FALSE
  /\ sBound = FALSE
  /\ sIn = <<>>
  /\ sReplyTo = Nowhere
  /\ sReceived = <<>> /\ sToSend = <<>>
  /\ accepted = <<>> /\ sTaken = <<>> /\ sSent = <<>>
-----------------------------------------------------------------------------
ServerSocket ==
  /\ sPc = "socket"
  /\ \/ sPc' = "bind"
     \/ "socket" \in Faults /\ sPc' = "socketBox"
  /\ UNCHANGED <<sStop, sBound, sIn, sReplyTo, sReceived, sToSend,
                 accepted, sTaken, sSent, up>>

ServerBind ==
  /\ sPc = "bind"
  /\ \/ sBound' = TRUE /\ sPc' = "loop"
     \/ "bind" \in Faults /\ sPc' = "bindBox" /\ UNCHANGED sBound
  /\ UNCHANGED <<sStop, sIn, sReplyTo, sReceived, sToSend,
                 accepted, sTaken, sSent, up>>

\* stop = error(...): the answer to "stop system?" is the new value of stop,
\* except that a socket that cannot be made ends the worker without it.
ServerAnswer(yes) ==
  /\ sPc \in ServerBoxes
  /\ \/ sPc = "socketBox" /\ yes /\ sPc' = "ended" /\ UNCHANGED sStop
     \/ sPc = "socketBox" /\ ~yes /\ sPc' = "socket" /\ UNCHANGED sStop
     \/ sPc \in {"bindBox", "sendBox"} /\ sPc' = "loop" /\ sStop' = yes
     \/ sPc = "recvBox" /\ sPc' = "send" /\ sStop' = yes
  /\ UNCHANGED <<sBound, sIn, sReplyTo, sReceived, sToSend,
                 accepted, sTaken, sSent, up>>

\* The loop is left: closesocket drops what the socket still holds.
ServerEnds ==
  /\ sPc = "loop" /\ sStop
  /\ sPc' = "ended"
  /\ sBound' = FALSE
  /\ sIn' = <<>>
  /\ UNCHANGED <<sStop, sReplyTo, sReceived, sToSend, accepted, sTaken, sSent, up>>
-----------------------------------------------------------------------------
\* A datagram: remember who sent it, queue it, and go round again at once.
ServerReceive ==
  /\ sPc = "loop" /\ ~sStop
  /\ sIn # <<>> /\ Head(sIn).kind = "data"
  /\ sIn' = Tail(sIn)
  /\ sReplyTo' = Head(sIn).from
  /\ accepted' = Append(accepted, Head(sIn).blob)
  /\ sReceived' = Append(sReceived, Head(sIn).blob)
  /\ UNCHANGED <<sPc, sStop, sBound, sToSend, sTaken, sSent, up>>

\* Mutant: the socket is made anew, and what waits in it is lost.
DiscardAll == sIn' = <<>>

Discard == sIn' = Tail(sIn)

\* recvfrom fails: whatever the error, the user is asked.  A too long datagram
\* is lost; its sender's address may have been stored all the same.
ServerReceiveFails ==
  /\ sPc = "loop" /\ ~sStop
  /\ sIn # <<>> /\ Head(sIn).kind # "data"
  /\ Discard
  /\ \/ UNCHANGED sReplyTo
     \/ Head(sIn).kind = "tooLong" /\ sReplyTo' = Head(sIn).from
  /\ sPc' = "recvBox"
  /\ UNCHANGED <<sStop, sBound, sReceived, sToSend, accepted, sTaken, sSent, up>>

ServerNothingToRead ==
  /\ sPc = "loop" /\ ~sStop
  /\ sIn = <<>>
  /\ sPc' = "send"
  /\ UNCHANGED <<sStop, sBound, sIn, sReplyTo, sReceived, sToSend,
                 accepted, sTaken, sSent, up>>

\* There is something to send, somebody to send it to, and it will not block.
ServerTake ==
  /\ sPc = "send"
  /\ sReplyTo # Nowhere /\ sToSend # <<>>
  /\ sToSend' = Tail(sToSend)
  /\ sTaken' = Append(sTaken, Head(sToSend))
  /\ sPc' = "sendto"
  /\ UNCHANGED <<sStop, sBound, sIn, sReplyTo, sReceived, accepted, sSent, up>>

\* Nothing to send, or the socket would block: Sleep(20) and round again.
ServerIdle ==
  /\ sPc = "send"
  /\ sPc' = "loop"
  /\ UNCHANGED <<sStop, sBound, sIn, sReplyTo, sReceived, sToSend,
                 accepted, sTaken, sSent, up>>

SendFails ==
  /\ "send" \in Faults
  /\ Len(SelectSeq(sSent, LAMBDA ok : ~ok)) < MaxLost

\* Mutant: when sendto fails, the queue is given up with the blob.
ServerSendDropsRest ==
  /\ sPc = "sendto"
  /\ \/ /\ sPc' = "loop" /\ sIn' \in AfterSend(sReplyTo, sIn)
        /\ sSent' = Append(sSent, TRUE) /\ UNCHANGED sToSend
     \/ /\ SendFails /\ sPc' = "sendBox"
        /\ sSent' = Append(sSent, FALSE) /\ sToSend' = <<>> /\ UNCHANGED sIn
  /\ UNCHANGED <<sStop, sBound, sReplyTo, sReceived, accepted, sTaken, up>>

\* When sendto fails the blob is gone, whatever the answer will be.
ServerSend ==
  /\ sPc = "sendto"
  /\ \/ /\ sPc' = "loop" /\ sIn' \in AfterSend(sReplyTo, sIn)
        /\ sSent' = Append(sSent, TRUE)
     \/ /\ SendFails /\ sPc' = "sendBox"
        /\ sSent' = Append(sSent, FALSE) /\ UNCHANGED sIn
  /\ UNCHANGED <<sStop, sBound, sReplyTo, sReceived, sToSend, accepted, sTaken, up>>
-----------------------------------------------------------------------------
\* A source's datagram reaches the bound socket.
ServerArrive(a) ==
  /\ a \in Source \cap up
  /\ sBound
  /\ Len(accepted) + Len(sIn) < MaxPackets
  /\ \E e \in From(a, Packet) : sIn' = Append(sIn, e)
  /\ UNCHANGED <<sPc, sStop, sBound, sReplyTo, sReceived, sToSend,
                 accepted, sTaken, sSent, up>>

\* What the worker does when nobody needs to answer a box for it.
ServerStep ==
  \/ ServerSocket \/ ServerBind \/ ServerEnds
  \/ ServerReceive \/ ServerReceiveFails \/ ServerNothingToRead
  \/ ServerTake \/ ServerIdle \/ ServerSend

ServerNext ==
  \/ ServerStep
  \/ \E yes \in BOOLEAN : ServerAnswer(yes)
  \/ \E a \in Source : ServerArrive(a)

-----------------------------------------------------------------------------
ServerTypeOK ==
  /\ sPc \in ServerPlaces
  /\ sStop \in BOOLEAN /\ sBound \in BOOLEAN
  /\ sIn \in Seq(Event)
  /\ sReplyTo \in Address \cup {Nowhere}
  /\ sReceived \in Seq(Blob) /\ sToSend \in Seq(Blob)
  /\ accepted \in Seq(Blob) /\ sTaken \in Seq(Blob)
  /\ sSent \in Seq(BOOLEAN)
=============================================================================
