----------------------------- MODULE Dispatcher -----------------------------
(***************************************************************************)
(* _dispatcher (UDPdispatcher/dispatcher.cpp) with its server and clients, *)
(* from the moment its worker has made them until it is deleted: the whole *)
(* relay.  The worker hands each packet the server received to every       *)
(* client, and each reply a client received to the server.  Making and     *)
(* deleting the objects is in Lifecycle.tla.                               *)
(***************************************************************************)
EXTENDS Server, Client, FiniteSets

CONSTANT N   \* the number of clients, which are 1 .. N in the vector's order

ASSUME DispatcherAssumption == N \in Nat /\ Clients = 1 .. N

VARIABLES
  dPc,    \* where the worker is
  dAt,    \* the loop variable of the two loops over clients
  dHand,  \* the local `blob b` as a sequence: <<>> outside its scope
  dFrom   \* history: whose each reply is that was put in the server's toSend

vars == <<dPc, dAt, dHand, dFrom, serverVars, clientVars, up>>

Init ==
  /\ dPc = "server"
  /\ dAt = 1
  /\ dHand = <<>> /\ dFrom = <<>>
  /\ ServerInit
  /\ ClientInit
  /\ NetworkInit
-----------------------------------------------------------------------------
\* From one client to the next in the second loop, and then to the next pass
\* after Sleep(20).
NextClient ==
  IF dAt < N THEN dAt' = dAt + 1 /\ dPc' = "clients"
             ELSE dAt' = 1 /\ dPc' = "server"

\* The second loop starts; there may be no clients.
FirstClient == dAt' = 1 /\ dPc' = IF N > 0 THEN "clients" ELSE "server"

\* At most one packet in a pass.
TakePacket ==
  /\ dPc = "server"
  /\ sReceived # <<>>
  /\ sReceived' = Tail(sReceived)
  /\ IF N > 0 THEN dHand' = <<Head(sReceived)>> /\ dPc' = "fanout"
              ELSE UNCHANGED <<dHand, dPc>>
  /\ UNCHANGED <<dAt, dFrom, sPc, sStop, sBound, sIn, sReplyTo, sToSend, accepted, sTaken, sSent>>
  /\ UNCHANGED <<clientVars, up>>

NoPacket ==
  /\ dPc = "server"
  /\ sReceived = <<>>
  /\ FirstClient
  /\ UNCHANGED <<dHand, dFrom, serverVars, clientVars, up>>

\* Mutant: the loop over the clients runs one too far.
FanOutPastEnd ==
  /\ dPc = "fanout"
  /\ cToSend' = [cToSend EXCEPT ![dAt] = @ \o dHand]
  /\ IF dAt <= N THEN dAt' = dAt + 1 /\ UNCHANGED <<dPc, dHand>>
                 ELSE FirstClient /\ dHand' = <<>>
  /\ UNCHANGED <<dFrom, serverVars, up>>
  /\ UNCHANGED <<cPc, cStop, cActive, cPort, cIn, cDest, cReceived, cTaken, cGot>>

\* Mutant: the queue of the first client gets the copies meant for all.
FanOutToFirst ==
  /\ dPc = "fanout"
  /\ cToSend' = [cToSend EXCEPT ![1] = @ \o dHand]
  /\ IF dAt < N THEN dAt' = dAt + 1 /\ UNCHANGED <<dPc, dHand>>
                ELSE FirstClient /\ dHand' = <<>>
  /\ UNCHANGED <<dFrom, serverVars, up>>
  /\ UNCHANGED <<cPc, cStop, cActive, cPort, cIn, cDest, cReceived, cTaken, cGot>>

\* One client's copy; after the last the blob is gone.
FanOut ==
  /\ dPc = "fanout"
  /\ cToSend' = [cToSend EXCEPT ![dAt] = @ \o dHand]
  /\ IF dAt < N THEN dAt' = dAt + 1 /\ UNCHANGED <<dPc, dHand>>
                ELSE FirstClient /\ dHand' = <<>>
  /\ UNCHANGED <<dFrom, serverVars, up>>
  /\ UNCHANGED <<cPc, cStop, cActive, cPort, cIn, cDest, cReceived, cTaken, cGot>>

\* At most one reply of each client in a pass.
TakeReply ==
  /\ dPc = "clients"
  /\ cReceived[dAt] # <<>>
  /\ dHand' = <<Head(cReceived[dAt])>>
  /\ cReceived' = [cReceived EXCEPT ![dAt] = Tail(@)]
  /\ dPc' = "reply"
  /\ UNCHANGED <<dAt, dFrom, serverVars, up>>
  /\ UNCHANGED <<cPc, cStop, cActive, cPort, cIn, cDest, cToSend, cTaken, cGot>>

\* Mutant: without asking empty(), dequeue() waits for this client's reply.
NoReplyWaits ==
  /\ dPc = "clients"
  /\ cReceived[dAt] = <<>>
  /\ UNCHANGED vars

NoReply ==
  /\ dPc = "clients"
  /\ cReceived[dAt] = <<>>
  /\ NextClient
  /\ UNCHANGED <<dHand, dFrom, serverVars, clientVars, up>>

\* Mutant: the reply is dropped unless the server's queue is empty.
PutReplyIfRoom ==
  /\ dPc = "reply"
  /\ IF sToSend = <<>> THEN sToSend' = dHand /\ dFrom' = Append(dFrom, dAt)
                       ELSE UNCHANGED <<sToSend, dFrom>>
  /\ dHand' = <<>>
  /\ NextClient
  /\ UNCHANGED <<sPc, sStop, sBound, sIn, sReplyTo, sReceived, accepted, sTaken, sSent>>
  /\ UNCHANGED <<clientVars, up>>

PutReply ==
  /\ dPc = "reply"
  /\ sToSend' = sToSend \o dHand
  /\ dFrom' = Append(dFrom, dAt)
  /\ dHand' = <<>>
  /\ NextClient
  /\ UNCHANGED <<sPc, sStop, sBound, sIn, sReplyTo, sReceived, accepted, sTaken, sSent>>
  /\ UNCHANGED <<clientVars, up>>
-----------------------------------------------------------------------------
DispatcherStep ==
  \/ TakePacket \/ NoPacket \/ FanOut
  \/ TakeReply \/ NoReply \/ PutReply

\* The programs around the relay come and go.
Environment ==
  /\ \E a \in Address : Switch(a)
  /\ UNCHANGED <<dPc, dAt, dHand, dFrom, serverVars, clientVars>>

\* A worker's step, and what the rest of the relay makes of it: nothing.
Dispatcher1 == <<dPc, dAt, dHand, dFrom>>

ServerRuns == ServerStep /\ UNCHANGED <<Dispatcher1, clientVars>>

ClientRuns(c) == ClientStep(c) /\ UNCHANGED <<Dispatcher1, serverVars>>

Next ==
  \/ DispatcherStep
  \/ ServerNext /\ UNCHANGED <<Dispatcher1, clientVars>>
  \/ ClientNext /\ UNCHANGED <<Dispatcher1, serverVars>>
  \/ Environment

Spec == Init /\ [][Next]_vars

\* The threads are scheduled, and no socket refuses to send for ever.  Neither
\* the user nor the programs outside owe anything.
Fairness ==
  /\ WF_vars(DispatcherStep)
  /\ WF_vars(ServerRuns)
  /\ SF_vars(ServerTake /\ UNCHANGED <<Dispatcher1, clientVars>>)
  /\ \A c \in Clients :
       /\ WF_vars(ClientRuns(c))
       /\ SF_vars(ClientTake(c) /\ UNCHANGED <<Dispatcher1, serverVars>>)

FairSpec == Spec /\ Fairness
-----------------------------------------------------------------------------
TypeOK ==
  /\ dPc \in {"server", "fanout", "clients", "reply"}
  /\ dAt \in Clients \/ (dAt = 1 /\ dPc = "server")
  /\ dHand \in Seq(Blob)
  /\ Len(dHand) = IF dPc \in {"fanout", "reply"} THEN 1 ELSE 0
  /\ dFrom \in Seq(Clients)
  /\ ServerTypeOK
  /\ ClientTypeOK
  /\ up \subseteq Address

\* A client the main window counts as active has a socket that reached its
\* host: not one that was closed for the five seconds' sleep, was made anew
\* after it, or belonged to a worker that ended.
ActiveHasPort == \A c \in Clients : cActive[c] => cPort[c]

\* A client that another program's datagram sent astray (client.cpp:75) finds
\* home again: what it sends first from each new socket goes to the address
\* configured for it.
NewSocketGoesHome ==
  \A c \in Clients :
    cPc[c] \in {"loop", "sendto", "recv", "recvBox", "sendBox"} /\ ~cPort[c]
      => cDest[c] = Home[c]

\* Each client gets every packet the server accepted, once, in the order it
\* was accepted and whatever the other clients do: through the server's queue,
\* the fan-out of dispatcher.cpp and the client's queue.
Forward == INSTANCE Broadcast
             WITH Value <- Blob, Receivers <- Clients, handed <- cTaken
EveryPacketInOrder == Forward!Spec

\* Those of the first n replies in s that are c's, where from says whose each is.
OfClient(c, from, s, n) ==
  LET f[j \in 0 .. Len(s)] ==
        IF j = 0 THEN <<>>
        ELSE IF from[j] = c THEN Append(f[j - 1], s[j]) ELSE f[j - 1]
  IN  f[n]

\* Each reply of a client comes up for sending, in the order it arrived,
\* although they share the server's queue with those of the others and the
\* dispatcher polls the clients in turn.  Whether sendto then sends it is not
\* said here.
ToSend(c) == OfClient(c, dFrom, sTaken, Len(sTaken))

Back == INSTANCE Channels
          WITH Value <- Blob, Senders <- Clients, given <- cGot,
               returned <- [c \in Clients |-> ToSend(c)]
RepliesInOrder == Back!Spec
-----------------------------------------------------------------------------
ServerStuck == sPc \in ServerBoxes \cup {"ended"}

ClientStuck(c) == cPc[c] \in ClientBoxes \cup {"ended"}

\* Every accepted packet reaches the worker of every client that is not kept
\* waiting for the user, even while other clients' hosts are away or other
\* workers wait for an answer or have ended ("all the sub-systems run
\* independently", README.md:30-31).
EveryPacketArrives ==
  \A c \in Clients : <>[]~ClientStuck(c) =>
    \A n \in 1 .. MaxPackets :
      (Len(accepted) >= n) ~> (Len(cTaken[c]) >= n)

\* How many replies of a client sendto sent, and how many it failed to send.
Tried(c, ok) ==
  Cardinality({j \in 1 .. Len(sSent) : dFrom[j] = c /\ sSent[j] = ok})

\* Every reply is sent, once somebody to send it to is known, if the server is
\* not kept waiting for the user; all but those whose own sendto fails, which
\* are lost when the user answers No too (server.cpp:58-64).  A failure takes
\* along none of the replies that wait behind.
EveryReplyReturns ==
  <>[]~ServerStuck =>
    \A c \in Clients, n \in 1 .. MaxReplies :
      (sReplyTo # Nowhere /\ Len(cGot[c]) >= n)
        ~> (Tried(c, TRUE) >= n - Tried(c, FALSE))

\* An error of recvfrom (a datagram of more than 512 bytes, server.cpp:42, or the
\* reset after a reply to a feed that is gone) costs the user an answer, but no
\* datagram that waits behind it.
Waiting == Len(SelectSeq(sIn, LAMBDA e : e.kind = "data"))

ErrorCostsNoOther ==
  <>[]~ServerStuck =>
    \A n \in 1 .. MaxPackets :
      (Len(accepted) + Waiting >= n) ~> (Len(accepted) >= n)

\* A client whose host is away is noticed: it stops being counted as active.
AwayIsNoticed ==
  \A c \in Clients : <>[]~ClientStuck(c) =>
    ((\E i \in 1 .. Len(cIn[c]) : cIn[c][i] = Reset) ~> ~cActive[c])
-----------------------------------------------------------------------------
\* README.md:39: "you can switch the radio apps in and out at will and within a
\* few seconds they are back": the program that feeds the server may go away
\* without the server stopping to wait for the user.
FeedMayGoAway == sPc # "recvBox"
=============================================================================
