------------------------- MODULE Dispatcher_proofs -------------------------
(***************************************************************************)
(* Proofs about the relay, for any number of clients, packets and replies. *)
(***************************************************************************)
EXTENDS Dispatcher, SequenceLemmas

\* What an event of a socket holds.
LEMMA EventFields ==
  ASSUME NEW e \in Event
  PROVE  /\ e.kind = "data" => e.from \in Address /\ e.blob \in Blob
         /\ e.kind = "tooLong" => e.from \in Address
BY DEF Event, Reset

\* What the network puts into a socket is an event.
LEMMA FromIsEvent ==
  ASSUME NEW a \in Address, NEW B \in SUBSET Blob, NEW e \in From(a, B)
  PROVE  e \in Event
BY DEF From, Event, Data, TooLong

LEMMA AfterSendType ==
  ASSUME NEW a, NEW in \in Seq(Event), NEW x \in AfterSend(a, in)
  PROVE  x \in Seq(Event)
<1>1. Reset \in Event
  BY DEF Event
<1>2. QED BY <1>1, AppendProperties DEF AfterSend

LEMMA NothingToTake ==
  ASSUME NEW S, NEW s \in Seq(S), s # <<>>
  PROVE  Head(s) \in S /\ Tail(s) \in Seq(S)
BY HeadTailProperties
-----------------------------------------------------------------------------
\* The server's worker, and what arrives for it, keep the server's types.
LEMMA ServerTypeStep ==
  ASSUME ServerTypeOK, ServerNext, ServerAssumption
  PROVE  ServerTypeOK'
<1> USE DEF ServerTypeOK, ServerPlaces, ServerBoxes
<1>1. CASE ServerSocket \/ ServerBind
  BY <1>1 DEF ServerSocket, ServerBind
<1>2. CASE ServerReceive
  <2>1. sIn # <<>> /\ Head(sIn).kind = "data"
    BY <1>2 DEF ServerReceive
  <2>2. /\ Head(sIn) \in Event /\ Tail(sIn) \in Seq(Event)
        /\ Head(sIn).from \in Address /\ Head(sIn).blob \in Blob
    BY <2>1, NothingToTake, EventFields
  <2>3. /\ Append(accepted, Head(sIn).blob) \in Seq(Blob)
        /\ Append(sReceived, Head(sIn).blob) \in Seq(Blob)
    BY <2>2, AppendProperties
  <2>4. QED BY <1>2, <2>2, <2>3 DEF ServerReceive
<1>3. CASE ServerReceiveFails
  <2>1. Head(sIn) \in Event /\ Tail(sIn) \in Seq(Event)
    BY <1>3, NothingToTake DEF ServerReceiveFails, Discard
  <2>2. sReplyTo' \in Address \cup {Nowhere}
    BY <1>3, <2>1, EventFields DEF ServerReceiveFails, Discard
  <2>3. QED BY <1>3, <2>1, <2>2 DEF ServerReceiveFails, Discard
<1>4. CASE ServerNothingToRead \/ ServerIdle
  BY <1>4 DEF ServerNothingToRead, ServerIdle
<1>5. CASE ServerTake
  <2>1. Head(sToSend) \in Blob /\ Tail(sToSend) \in Seq(Blob)
    BY <1>5, NothingToTake DEF ServerTake
  <2>2. Append(sTaken, Head(sToSend)) \in Seq(Blob)
    BY <2>1, AppendProperties
  <2>3. QED BY <1>5, <2>1, <2>2 DEF ServerTake
<1>6. CASE ServerSend
  <2>1. sIn' \in Seq(Event)
    BY <1>6, AfterSendType DEF ServerSend
  <2>2. Append(sSent, TRUE) \in Seq(BOOLEAN) /\ Append(sSent, FALSE) \in Seq(BOOLEAN)
    BY AppendProperties
  <2>3. QED BY <1>6, <2>1, <2>2 DEF ServerSend
<1>7. ASSUME NEW yes \in BOOLEAN, ServerAnswer(yes) PROVE ServerTypeOK'
  BY <1>7 DEF ServerAnswer
<1>8. ASSUME NEW a \in Source, ServerArrive(a) PROVE ServerTypeOK'
  <2>1. a \in Address /\ Packet \in SUBSET Blob
    BY DEF ServerAssumption
  <2>2. PICK e \in From(a, Packet) : sIn' = Append(sIn, e)
    BY <1>8 DEF ServerArrive
  <2>3. sIn' \in Seq(Event)
    BY <2>1, <2>2, FromIsEvent, AppendProperties
  <2>4. QED BY <1>8, <2>3 DEF ServerArrive
<1>9. CASE ServerEnds
  <2>1. sIn' \in Seq(Event)
    BY <1>9, EmptySeq DEF ServerEnds
  <2>2. QED BY <1>9, <2>1 DEF ServerEnds
<1>10. QED
  BY <1>1, <1>2, <1>3, <1>4, <1>5, <1>6, <1>7, <1>8, <1>9 DEF ServerNext, ServerStep

\* The same for client c.
LEMMA ClientTypeStep ==
  ASSUME ClientTypeOK, ClientAssumption, NEW c \in Clients,
         ClientStep(c) \/ (\E yes \in BOOLEAN : ClientAnswer(c, yes))
           \/ (\E a \in Address : ClientArrive(c, a))
  PROVE  ClientTypeOK'
<1> USE DEF ClientTypeOK, ClientPlaces, ClientBoxes, To
<1>1. CASE ClientSocket(c)
  <2>1. Home[c] \in Address
    BY DEF ClientAssumption
  <2>2. QED BY <1>1, <2>1 DEF ClientSocket, GoesHome
<1>2. CASE ClientAgain(c) \/ ClientPass(c) \/ ClientIdle(c)
  BY <1>2 DEF ClientAgain, ClientPass, ClientIdle
<1>3. CASE ClientEnds(c)
  <2>1. cIn' \in [Clients -> Seq(Event)]
    BY <1>3, EmptySeq DEF ClientEnds
  <2>2. QED BY <1>3, <2>1 DEF ClientEnds
<1>4. CASE ClientTake(c)
  <2>1. Head(cToSend[c]) \in Blob /\ Tail(cToSend[c]) \in Seq(Blob)
    BY <1>4, NothingToTake DEF ClientTake
  <2>2. Append(cTaken[c], Head(cToSend[c])) \in Seq(Blob)
    BY <2>1, AppendProperties
  <2>3. QED BY <1>4, <2>1, <2>2 DEF ClientTake
<1>5. CASE ClientSend(c)
  <2>1. \A in \in AfterSend(cDest[c], cIn[c]) : in \in Seq(Event)
    BY AfterSendType
  <2>2. cIn' \in [Clients -> Seq(Event)]
    BY <1>5, <2>1 DEF ClientSend
  <2>3. QED BY <1>5, <2>2 DEF ClientSend
<1>6. CASE ClientReceive(c)
  <2>1. cIn[c] # <<>> /\ Head(cIn[c]).kind = "data"
    BY <1>6 DEF ClientReceive
  <2>2. /\ Head(cIn[c]) \in Event /\ Tail(cIn[c]) \in Seq(Event)
        /\ Head(cIn[c]).from \in Address /\ Head(cIn[c]).blob \in Blob
    BY <2>1, NothingToTake, EventFields
  <2>3. /\ Append(cReceived[c], Head(cIn[c]).blob) \in Seq(Blob)
        /\ Append(cGot[c], Head(cIn[c]).blob) \in Seq(Blob)
    BY <2>2, AppendProperties
  <2>4. QED BY <1>6, <2>2, <2>3 DEF ClientReceive
<1>7. CASE ClientReset(c)
  <2>1. cIn' \in [Clients -> Seq(Event)]
    BY <1>7, EmptySeq DEF ClientReset
  <2>2. QED BY <1>7, <2>1 DEF ClientReset
<1>8. CASE ClientReceiveFails(c)
  <2>1. Head(cIn[c]) \in Event /\ Tail(cIn[c]) \in Seq(Event)
    BY <1>8, NothingToTake DEF ClientReceiveFails
  <2>2. cDest' \in [Clients -> Address \cup {Nowhere}]
    BY <1>8, <2>1, EventFields DEF ClientReceiveFails
  <2>3. QED BY <1>8, <2>1, <2>2 DEF ClientReceiveFails
<1>9. ASSUME NEW yes \in BOOLEAN, ClientAnswer(c, yes) PROVE ClientTypeOK'
  BY <1>9 DEF ClientAnswer
<1>10. ASSUME NEW a \in Address, ClientArrive(c, a) PROVE ClientTypeOK'
  <2>1. ReplyOf[c] \in SUBSET Blob
    BY DEF ClientAssumption
  <2>2. PICK e \in From(a, ReplyOf[c]) : cIn' = [cIn EXCEPT ![c] = Append(@, e)]
    BY <1>10 DEF ClientArrive
  <2>3. Append(cIn[c], e) \in Seq(Event)
    BY <2>1, <2>2, FromIsEvent, AppendProperties
  <2>4. QED BY <1>10, <2>2, <2>3 DEF ClientArrive
<1>11. QED
  BY <1>1, <1>2, <1>3, <1>4, <1>5, <1>6, <1>7, <1>8, <1>9, <1>10 DEF ClientStep
-----------------------------------------------------------------------------
\* Where each step of the whole relay comes from.
LEMMA NextCases ==
  ASSUME [Next]_vars
  PROVE  \/ DispatcherStep
         \/ ServerNext /\ UNCHANGED <<Dispatcher1, clientVars>>
         \/ \E c \in Clients :
              /\ \/ ClientStep(c)
                 \/ \E yes \in BOOLEAN : ClientAnswer(c, yes)
                 \/ \E a \in Address : ClientArrive(c, a)
              /\ UNCHANGED <<Dispatcher1, serverVars>>
         \/ Environment
         \/ UNCHANGED vars
BY DEF Next, ClientNext

\* No worker opens or closes another program's socket.
LEMMA UpUntouched ==
  /\ ServerNext => UNCHANGED up
  /\ \A c \in Clients :
       /\ ClientStep(c) => UNCHANGED up
       /\ \A yes \in BOOLEAN : ClientAnswer(c, yes) => UNCHANGED up
       /\ \A a \in Address : ClientArrive(c, a) => UNCHANGED up
<1>1. ServerNext => UNCHANGED up
  BY DEF ServerNext, ServerStep, ServerSocket, ServerBind, ServerEnds, ServerReceive,
         ServerReceiveFails, ServerNothingToRead, ServerTake, ServerIdle, ServerSend,
         ServerAnswer, ServerArrive
<1>2. ASSUME NEW c \in Clients
      PROVE  /\ ClientStep(c) => UNCHANGED up
             /\ \A yes \in BOOLEAN : ClientAnswer(c, yes) => UNCHANGED up
             /\ \A a \in Address : ClientArrive(c, a) => UNCHANGED up
  BY DEF ClientStep, ClientSocket, ClientAgain, ClientEnds, ClientTake, ClientPass,
         ClientSend, ClientReceive, ClientReset, ClientReceiveFails, ClientIdle,
         ClientAnswer, ClientArrive
<1>3. QED BY <1>1, <1>2

\* The dispatcher's own steps keep every type.
LEMMA DispatcherTypeStep ==
  ASSUME TypeOK, DispatcherStep, DispatcherAssumption
  PROVE  TypeOK'
<1> USE DEF TypeOK
<1>1. CASE TakePacket
  <2>1. Head(sReceived) \in Blob /\ Tail(sReceived) \in Seq(Blob)
    BY <1>1, NothingToTake DEF TakePacket, ServerTypeOK
  <2>2. ServerTypeOK' /\ ClientTypeOK' /\ up' = up /\ dFrom' = dFrom
    BY <1>1, <2>1 DEF TakePacket, ServerTypeOK, ClientTypeOK, clientVars
  <2>3. <<Head(sReceived)>> \in Seq(Blob) /\ Len(<<Head(sReceived)>>) = 1
    BY <2>1
  <2>4. CASE N > 0
    <3>1. dPc' = "fanout" /\ dHand' = <<Head(sReceived)>> /\ dAt' \in Clients
      BY <1>1, <2>4 DEF TakePacket, DispatcherAssumption
    <3>2. QED BY <2>2, <2>3, <3>1
  <2>5. CASE ~(N > 0)
    <3>1. UNCHANGED <<dPc, dHand, dAt>>
      BY <1>1, <2>5 DEF TakePacket
    <3>2. QED BY <2>2, <3>1
  <2>6. QED BY <2>4, <2>5
<1>2. CASE NoPacket \/ NoReply
  <2>1. ServerTypeOK' /\ ClientTypeOK' /\ up' = up /\ dHand' = dHand
    BY <1>2 DEF NoPacket, NoReply, ServerTypeOK, ClientTypeOK, serverVars, clientVars
  <2>2. QED
    BY <1>2, <2>1 DEF NoPacket, NoReply, FirstClient, NextClient, DispatcherAssumption
<1>3. CASE FanOut
  <2>1. dAt \in Clients /\ cToSend[dAt] \o dHand \in Seq(Blob)
    BY <1>3, ConcatProperties DEF FanOut, ClientTypeOK
  <2>2. ServerTypeOK' /\ ClientTypeOK' /\ up' = up /\ dFrom' = dFrom
    BY <1>3, <2>1 DEF FanOut, ServerTypeOK, ClientTypeOK, serverVars
  <2>3. <<>> \in Seq(Blob) /\ Len(<<>>) = 0
    BY EmptySeq
  <2>4. CASE dAt < N
    <3>1. dPc' = "fanout" /\ dHand' = dHand /\ dAt' \in Clients /\ dPc = "fanout"
      BY <1>3, <2>1, <2>4 DEF FanOut, DispatcherAssumption
    <3>2. QED BY <2>2, <3>1
  <2>5. CASE ~(dAt < N)
    <3>1. dPc' = "clients" /\ dHand' = <<>> /\ dAt' \in Clients
      BY <1>3, <2>1, <2>5 DEF FanOut, FirstClient, DispatcherAssumption
    <3>2. QED BY <2>2, <2>3, <3>1
  <2>6. QED BY <2>4, <2>5
<1>4. CASE TakeReply
  <2>1. dAt \in Clients
    BY <1>4 DEF TakeReply
  <2>2. Head(cReceived[dAt]) \in Blob /\ Tail(cReceived[dAt]) \in Seq(Blob)
    BY <1>4, <2>1, NothingToTake DEF TakeReply, ClientTypeOK
  <2>3. ServerTypeOK' /\ ClientTypeOK' /\ up' = up
    BY <1>4, <2>2 DEF TakeReply, ServerTypeOK, ClientTypeOK, serverVars
  <2>4. <<Head(cReceived[dAt])>> \in Seq(Blob) /\ Len(<<Head(cReceived[dAt])>>) = 1
    BY <2>2
  <2>5. QED BY <1>4, <2>1, <2>3, <2>4 DEF TakeReply
<1>5. CASE PutReply
  <2>1. sToSend \o dHand \in Seq(Blob)
    BY ConcatProperties DEF ServerTypeOK
  <2>2. ServerTypeOK' /\ ClientTypeOK' /\ up' = up
    BY <1>5, <2>1 DEF PutReply, ServerTypeOK, ClientTypeOK, clientVars
  <2>3. <<>> \in Seq(Blob) /\ Len(<<>>) = 0
    BY EmptySeq
  <2>4. QED BY <1>5, <2>2, <2>3 DEF PutReply, NextClient, DispatcherAssumption
<1>6. QED BY <1>1, <1>2, <1>3, <1>4, <1>5 DEF DispatcherStep

\* Every variable of the relay keeps its type.
THEOREM TypeCorrect == Spec => []TypeOK
<1> USE ServerAssumption, ClientAssumption, DispatcherAssumption
<1>1. Init => TypeOK
  <2> SUFFICES ASSUME Init PROVE TypeOK
    OBVIOUS
  <2> USE EmptySeq
  <2>1. ServerTypeOK
    BY DEF Init, ServerInit, ServerTypeOK, ServerPlaces
  <2>2. ClientTypeOK
    BY DEF Init, ClientInit, ClientTypeOK, ClientPlaces
  <2>3. QED BY <2>1, <2>2 DEF Init, NetworkInit, TypeOK
<1>2. TypeOK /\ [Next]_vars => TypeOK'
  <2> SUFFICES ASSUME TypeOK, [Next]_vars PROVE TypeOK'
    OBVIOUS
  <2>1. CASE DispatcherStep
    BY <2>1, DispatcherTypeStep
  <2>2. CASE ServerNext /\ UNCHANGED <<Dispatcher1, clientVars>>
    <3>1. ServerTypeOK' /\ up' = up
      BY <2>2, ServerTypeStep, UpUntouched DEF TypeOK
    <3>2. QED BY <2>2, <3>1 DEF TypeOK, Dispatcher1, clientVars, ClientTypeOK
  <2>3. ASSUME NEW c \in Clients,
               \/ ClientStep(c)
               \/ \E yes \in BOOLEAN : ClientAnswer(c, yes)
               \/ \E a \in Address : ClientArrive(c, a),
               UNCHANGED <<Dispatcher1, serverVars>>
        PROVE  TypeOK'
    <3>1. ClientTypeOK' /\ up' = up
      BY <2>3, ClientTypeStep, UpUntouched DEF TypeOK
    <3>2. QED BY <2>3, <3>1 DEF TypeOK, Dispatcher1, serverVars, ServerTypeOK
  <2>4. CASE Environment
    <3>1. up' \subseteq Address
      BY <2>4 DEF Environment, Switch, TypeOK
    <3>2. QED
      BY <2>4, <3>1 DEF Environment, TypeOK, serverVars, clientVars, ServerTypeOK, ClientTypeOK
  <2>5. CASE UNCHANGED vars
    BY <2>5 DEF TypeOK, vars, serverVars, clientVars, ServerTypeOK, ClientTypeOK
  <2>6. QED BY <2>1, <2>2, <2>3, <2>4, <2>5, NextCases
<1>3. QED BY <1>1, <1>2, PTL DEF Spec
-----------------------------------------------------------------------------
\* A reply makes a client count as active, so a socket with anything in it has
\* a port: nobody can answer a socket that never sent.
AnsweredHasPort == \A c \in Clients : cIn[c] # <<>> => cPort[c]

PortInv == ActiveHasPort /\ AnsweredHasPort

LEMMA PortStep ==
  ASSUME TypeOK, PortInv, NEW c \in Clients,
         ClientStep(c) \/ (\E yes \in BOOLEAN : ClientAnswer(c, yes))
           \/ (\E a \in Address : ClientArrive(c, a))
  PROVE  PortInv'
<1> USE DEF TypeOK, ClientTypeOK, PortInv, ActiveHasPort, AnsweredHasPort
<1>1. CASE \/ ClientSocket(c) \/ ClientAgain(c) \/ ClientTake(c)
           \/ ClientPass(c) \/ ClientIdle(c)
  BY <1>1 DEF ClientSocket, GoesHome, ClientAgain, ClientTake, ClientPass, ClientIdle
<1>2. CASE ClientEnds(c) \/ ClientReset(c)
  BY <1>2 DEF ClientEnds, ClientReset
<1>3. CASE ClientSend(c)
  BY <1>3 DEF ClientSend
<1>4. CASE ClientReceive(c) \/ ClientReceiveFails(c)
  BY <1>4 DEF ClientReceive, ClientReceiveFails
<1>5. ASSUME NEW yes \in BOOLEAN, ClientAnswer(c, yes) PROVE PortInv'
  BY <1>5 DEF ClientAnswer
<1>6. ASSUME NEW a \in Address, ClientArrive(c, a) PROVE PortInv'
  BY <1>6 DEF ClientArrive
<1>7. QED
  BY <1>1, <1>2, <1>3, <1>4, <1>5, <1>6 DEF ClientStep

LEMMA PortCorrect == Spec => []PortInv
<1> USE DEF PortInv, ActiveHasPort, AnsweredHasPort
<1>1. Init => PortInv
  BY DEF Init, ClientInit
<1>2. TypeOK /\ PortInv /\ [Next]_vars => PortInv'
  <2> SUFFICES ASSUME TypeOK, PortInv, [Next]_vars PROVE PortInv'
    OBVIOUS
  <2>1. CASE UNCHANGED <<cActive, cPort, cIn>>
    BY <2>1
  <2>2. CASE DispatcherStep
    BY <2>1, <2>2
       DEF DispatcherStep, TakePacket, NoPacket, FanOut, TakeReply, NoReply,
           PutReply, clientVars
  <2>3. ASSUME NEW c \in Clients,
               \/ ClientStep(c)
               \/ \E yes \in BOOLEAN : ClientAnswer(c, yes)
               \/ \E a \in Address : ClientArrive(c, a)
        PROVE  PortInv'
    BY <2>3, PortStep
  <2>4. CASE UNCHANGED clientVars
    BY <2>1, <2>4 DEF clientVars
  <2>5. QED
    BY <2>2, <2>3, <2>4, NextCases DEF Environment, vars
<1>3. QED BY <1>1, <1>2, TypeCorrect, PTL DEF Spec

\* What the main window counts as active has a socket that reached its host.
THEOREM ActiveIsConnected == Spec => []ActiveHasPort
<1>1. PortInv => ActiveHasPort
  BY DEF PortInv
<1>2. QED BY <1>1, PortCorrect, PTL

LEMMA HomeStep ==
  ASSUME TypeOK, PortInv, NewSocketGoesHome, NEW c \in Clients,
         ClientStep(c) \/ (\E yes \in BOOLEAN : ClientAnswer(c, yes))
           \/ (\E a \in Address : ClientArrive(c, a))
  PROVE  NewSocketGoesHome'
<1> USE DEF TypeOK, ClientTypeOK, NewSocketGoesHome, To
<1>1. CASE ClientSocket(c)
  BY <1>1 DEF ClientSocket, GoesHome
<1>2. CASE ClientAgain(c) \/ ClientTake(c) \/ ClientPass(c) \/ ClientIdle(c)
  BY <1>2 DEF ClientAgain, ClientTake, ClientPass, ClientIdle
<1>3. CASE ClientEnds(c) \/ ClientReset(c)
  BY <1>3 DEF ClientEnds, ClientReset
<1>4. CASE ClientSend(c)
  BY <1>4 DEF ClientSend
<1>5. CASE ClientReceive(c) \/ ClientReceiveFails(c)
  <2>1. cPort[c]
    BY <1>5 DEF PortInv, AnsweredHasPort, ClientReceive, ClientReceiveFails
  <2>2. UNCHANGED cPort /\ \A d \in Clients : d # c => cPc'[d] = cPc[d] /\ cDest'[d] = cDest[d]
    BY <1>5 DEF ClientReceive, ClientReceiveFails
  <2>3. QED BY <2>1, <2>2
<1>6. ASSUME NEW yes \in BOOLEAN, ClientAnswer(c, yes) PROVE NewSocketGoesHome'
  BY <1>6 DEF ClientAnswer
<1>7. ASSUME NEW a \in Address, ClientArrive(c, a) PROVE NewSocketGoesHome'
  BY <1>7 DEF ClientArrive
<1>8. QED
  BY <1>1, <1>2, <1>3, <1>4, <1>5, <1>6, <1>7 DEF ClientStep

\* Whoever wrote over a client's address, its next socket goes back to the host
\* configured for it.
THEOREM StrayForgotten == Spec => []NewSocketGoesHome
<1>1. Init => NewSocketGoesHome
  BY DEF Init, ClientInit, NewSocketGoesHome
<1>2. TypeOK /\ PortInv /\ NewSocketGoesHome /\ [Next]_vars => NewSocketGoesHome'
  <2> SUFFICES ASSUME TypeOK, PortInv, NewSocketGoesHome, [Next]_vars
               PROVE  NewSocketGoesHome'
    OBVIOUS
  <2>1. CASE UNCHANGED <<cPc, cPort, cDest>>
    BY <2>1 DEF NewSocketGoesHome
  <2>2. CASE DispatcherStep
    BY <2>1, <2>2
       DEF DispatcherStep, TakePacket, NoPacket, FanOut, TakeReply, NoReply,
           PutReply, clientVars
  <2>3. ASSUME NEW c \in Clients,
               \/ ClientStep(c)
               \/ \E yes \in BOOLEAN : ClientAnswer(c, yes)
               \/ \E a \in Address : ClientArrive(c, a)
        PROVE  NewSocketGoesHome'
    BY <2>3, HomeStep
  <2>4. CASE UNCHANGED clientVars
    BY <2>1, <2>4 DEF clientVars
  <2>5. QED
    BY <2>2, <2>3, <2>4, NextCases DEF Environment, vars
<1>3. QED BY <1>1, <1>2, TypeCorrect, PortCorrect, PTL DEF Spec
-----------------------------------------------------------------------------
\* Where a packet is on its way to client c: handed to its worker, in its
\* queue, in the hand of the dispatcher, or in the server's queue.
InHand(c) == IF dPc = "fanout" /\ dAt <= c THEN dHand ELSE <<>>

OnTheWay(c) == (cTaken[c] \o cToSend[c]) \o (InHand(c) \o sReceived)

\* Nothing is lost, doubled or overtaken on the way.
NothingLost == \A c \in Clients : OnTheWay(c) = accepted

\* Between two passes the loop variable is at the start: the packet taken
\* next goes to every client.
PassStarts == dPc = "server" => dAt = 1 /\ dHand = <<>>

ForwardInv == NothingLost /\ PassStarts
LEMMA SameWay ==
  ASSUME NothingLost, UNCHANGED <<cTaken, cToSend, sReceived, accepted>>,
         \A c \in Clients : InHand(c)' = InHand(c)
  PROVE  NothingLost'
BY DEF NothingLost, OnTheWay

LEMMA InHandType ==
  ASSUME TypeOK, NEW c \in Clients
  PROVE  InHand(c) \in Seq(Blob)
BY EmptySeq DEF TypeOK, InHand

\* The dispatcher moves a packet on, and hands nothing to a worker itself.
LEMMA DispatcherForwards ==
  ASSUME TypeOK, ForwardInv, DispatcherStep, DispatcherAssumption
  PROVE  ForwardInv' /\ UNCHANGED <<accepted, cTaken>>
<1> USE DEF ForwardInv, PassStarts
<1>1. CASE TakePacket
  <2>1. PassStarts' /\ UNCHANGED <<accepted, cTaken, cToSend>>
    BY <1>1 DEF TakePacket, clientVars
  <2>2. ASSUME NEW c \in Clients PROVE OnTheWay(c)' = OnTheWay(c)
    <3>1. N > 0 /\ c >= 1
      BY DEF DispatcherAssumption
    <3>2. InHand(c) = <<>> /\ InHand(c)' = <<Head(sReceived)>>
      BY <1>1, <3>1 DEF TakePacket, InHand
    <3>3. <<Head(sReceived)>> \o Tail(sReceived) = <<>> \o sReceived
      BY <1>1, HeadAndTail, ConcatEmptySeq DEF TakePacket, TypeOK, ServerTypeOK
    <3>4. QED BY <1>1, <2>1, <3>2, <3>3 DEF TakePacket, OnTheWay
  <2>3. QED BY <2>1, <2>2 DEF NothingLost
<1>2. CASE NoPacket \/ NoReply \/ TakeReply \/ PutReply
  <2>1. PassStarts' /\ UNCHANGED <<accepted, cTaken, cToSend, sReceived>>
    BY <1>2 DEF NoPacket, NoReply, TakeReply, PutReply, FirstClient, NextClient,
                serverVars, clientVars, TypeOK
  <2>2. \A c \in Clients : InHand(c)' = InHand(c)
    BY <1>2 DEF NoPacket, NoReply, TakeReply, PutReply, FirstClient, NextClient, InHand
  <2>3. QED BY <2>1, <2>2, SameWay
<1>3. CASE FanOut
  <2>1. /\ UNCHANGED <<accepted, cTaken, sReceived>>
        /\ cToSend' = [cToSend EXCEPT ![dAt] = @ \o dHand]
        /\ dPc = "fanout" /\ dAt \in Clients
    BY <1>3 DEF FanOut, serverVars, TypeOK
  <2>2. PassStarts'
    BY <1>3 DEF FanOut, FirstClient
  <2>3. ASSUME NEW c \in Clients, c # dAt PROVE OnTheWay(c)' = OnTheWay(c)
    <3>1. InHand(c)' = InHand(c)
      BY <1>3, <2>1, <2>3 DEF FanOut, FirstClient, InHand, DispatcherAssumption
    <3>2. QED BY <2>1, <2>3, <3>1 DEF OnTheWay, TypeOK, ClientTypeOK
  <2>4. ASSUME NEW c \in Clients, c = dAt PROVE OnTheWay(c)' = OnTheWay(c)
    <3>1. InHand(c) = dHand /\ InHand(c)' = <<>>
      BY <1>3, <2>1, <2>4 DEF FanOut, FirstClient, InHand, DispatcherAssumption
    <3>2. cToSend'[c] = cToSend[c] \o dHand
      BY <2>1, <2>4 DEF TypeOK, ClientTypeOK
    <3>3. /\ cTaken[c] \in Seq(Blob) /\ cToSend[c] \in Seq(Blob)
          /\ dHand \in Seq(Blob) /\ sReceived \in Seq(Blob)
      BY DEF TypeOK, ServerTypeOK, ClientTypeOK
    <3>4. \A s, t, u \in Seq(Blob) : (s \o t) \o u = s \o (t \o u)
      BY ConcatAssociative
    <3>5. cTaken[c] \o cToSend[c] \in Seq(Blob)
      BY <3>3, ConcatProperties
    <3>6. <<>> \o sReceived = sReceived
      BY <3>3, ConcatEmptySeq
    <3>7. OnTheWay(c)' = (cTaken[c] \o (cToSend[c] \o dHand)) \o sReceived
      BY <2>1, <3>1, <3>2, <3>6 DEF OnTheWay
    <3>8. cTaken[c] \o (cToSend[c] \o dHand) = (cTaken[c] \o cToSend[c]) \o dHand
      BY <3>3, <3>4
    <3>9. ((cTaken[c] \o cToSend[c]) \o dHand) \o sReceived = OnTheWay(c)
      BY <3>1, <3>3, <3>4, <3>5 DEF OnTheWay
    <3>10. QED BY <3>7, <3>8, <3>9
  <2>5. QED BY <2>1, <2>2, <2>3, <2>4 DEF NothingLost
<1>4. QED BY <1>1, <1>2, <1>3 DEF DispatcherStep

\* The server takes a packet in at the end of every client's way.
LEMMA ServerAccepts ==
  ASSUME TypeOK, ForwardInv, ServerNext, UNCHANGED <<Dispatcher1, clientVars>>
  PROVE  ForwardInv' /\ [Forward!Next]_<<accepted, cTaken>>
<1> USE DEF ForwardInv, PassStarts, Dispatcher1, clientVars
<1>1. \A c \in Clients : InHand(c)' = InHand(c)
  BY DEF InHand
<1>2. CASE UNCHANGED <<sReceived, accepted>>
  BY <1>1, <1>2, SameWay
<1>3. CASE ServerReceive
  <2> DEFINE b == Head(sIn).blob
  <2>1. b \in Blob
    BY <1>3, NothingToTake, EventFields DEF ServerReceive, TypeOK, ServerTypeOK
  <2>2. sReceived' = Append(sReceived, b) /\ accepted' = Append(accepted, b)
    BY <1>3 DEF ServerReceive
  <2> HIDE DEF b
  <2>3. Forward!Accept(b)
    BY <2>2 DEF Forward!Accept
  <2>4. ASSUME NEW c \in Clients PROVE OnTheWay(c)' = accepted'
    <3>1. /\ cTaken[c] \o cToSend[c] \in Seq(Blob) /\ sReceived \in Seq(Blob)
          /\ InHand(c) \in Seq(Blob)
      BY ConcatProperties, InHandType DEF TypeOK, ServerTypeOK, ClientTypeOK
    <3>2. \A s, t, u \in Seq(Blob) : s \o (t \o Append(u, b)) = Append(s \o (t \o u), b)
      BY <2>1, AppendToLast
    <3>3. (cTaken[c] \o cToSend[c]) \o (InHand(c) \o Append(sReceived, b))
            = Append(OnTheWay(c), b)
      BY <3>1, <3>2 DEF OnTheWay
    <3>4. QED BY <1>1, <2>2, <3>3 DEF NothingLost, OnTheWay
  <2>5. QED BY <2>1, <2>3, <2>4 DEF NothingLost, Forward!Next
<1>4. ServerReceive \/ UNCHANGED <<sReceived, accepted>>
  BY DEF ServerNext, ServerStep, ServerSocket, ServerBind, ServerEnds,
         ServerReceiveFails, ServerNothingToRead, ServerTake, ServerIdle, ServerSend,
         ServerAnswer, ServerArrive
<1>5. QED BY <1>2, <1>3, <1>4

\* A client's worker takes the packet that is next for it.
LEMMA ClientTakes ==
  ASSUME TypeOK, ForwardInv, UNCHANGED <<Dispatcher1, serverVars>>,
         NEW c \in Clients,
         ClientStep(c) \/ (\E yes \in BOOLEAN : ClientAnswer(c, yes))
           \/ (\E a \in Address : ClientArrive(c, a))
  PROVE  ForwardInv' /\ [Forward!Next]_<<accepted, cTaken>>
<1> USE DEF ForwardInv, PassStarts, Dispatcher1, serverVars
<1>1. \A d \in Clients : InHand(d)' = InHand(d)
  BY DEF InHand
<1>2. CASE UNCHANGED <<cTaken, cToSend>>
  BY <1>1, <1>2, SameWay
<1>3. CASE ClientTake(c)
  <2>1. /\ cToSend[c] # <<>>
        /\ cToSend' = [cToSend EXCEPT ![c] = Tail(@)]
        /\ cTaken' = [cTaken EXCEPT ![c] = Append(@, Head(cToSend[c]))]
    BY <1>3 DEF ClientTake
  <2>2. /\ cTaken[c] \in Seq(Blob) /\ cToSend[c] \in Seq(Blob)
        /\ InHand(c) \o sReceived \in Seq(Blob)
    BY InHandType, ConcatProperties DEF TypeOK, ServerTypeOK, ClientTypeOK
  <2>3. /\ (Append(cTaken[c], Head(cToSend[c])) \o Tail(cToSend[c]))
              \o (InHand(c) \o sReceived) = OnTheWay(c)
        /\ Len(cTaken[c]) < Len(OnTheWay(c))
        /\ OnTheWay(c)[Len(cTaken[c]) + 1] = Head(cToSend[c])
    BY <2>1, <2>2, MoveHeadBefore DEF OnTheWay
  <2>4. Forward!Hand(c)
    BY <2>1, <2>3 DEF Forward!Hand, NothingLost
  <2>5. cTaken'[c] = Append(cTaken[c], Head(cToSend[c])) /\ cToSend'[c] = Tail(cToSend[c])
    BY <2>1 DEF TypeOK, ClientTypeOK
  <2>6. OnTheWay(c)' = OnTheWay(c)
    BY <1>1, <2>3, <2>5 DEF OnTheWay
  <2>7. ASSUME NEW d \in Clients, d # c PROVE OnTheWay(d)' = OnTheWay(d)
    BY <1>1, <2>1, <2>7 DEF OnTheWay, TypeOK, ClientTypeOK
  <2>8. QED BY <2>4, <2>6, <2>7 DEF NothingLost, Forward!Next
<1>4. ClientTake(c) \/ UNCHANGED <<cTaken, cToSend>>
  BY DEF ClientStep, ClientSocket, ClientAgain, ClientEnds, ClientPass, ClientSend,
         ClientReceive, ClientReset, ClientReceiveFails, ClientIdle, ClientAnswer,
         ClientArrive
<1>5. QED BY <1>2, <1>3, <1>4

\* The relay implements the broadcast: every client's worker is handed every
\* accepted packet, once and in order.
THEOREM ForwardsInOrder == Spec => EveryPacketInOrder
<1>1. Init => ForwardInv /\ Forward!Init
  <2> SUFFICES ASSUME Init PROVE ForwardInv /\ Forward!Init
    OBVIOUS
  <2>1. \A c \in Clients : OnTheWay(c) = <<>>
    BY EmptySeq, ConcatEmptySeq DEF Init, ServerInit, ClientInit, OnTheWay, InHand
  <2>2. QED
    BY <2>1 DEF Init, ServerInit, ClientInit, ForwardInv, NothingLost, PassStarts,
                Forward!Init
<1>2. TypeOK /\ ForwardInv /\ [Next]_vars
        => ForwardInv' /\ [Forward!Next]_<<accepted, cTaken>>
  <2> SUFFICES ASSUME TypeOK, ForwardInv, [Next]_vars
               PROVE  ForwardInv' /\ [Forward!Next]_<<accepted, cTaken>>
    OBVIOUS
  <2>1. CASE DispatcherStep
    BY <2>1, DispatcherForwards, DispatcherAssumption
  <2>2. CASE ServerNext /\ UNCHANGED <<Dispatcher1, clientVars>>
    BY <2>2, ServerAccepts
  <2>3. ASSUME NEW c \in Clients,
               \/ ClientStep(c)
               \/ \E yes \in BOOLEAN : ClientAnswer(c, yes)
               \/ \E a \in Address : ClientArrive(c, a),
               UNCHANGED <<Dispatcher1, serverVars>>
        PROVE  ForwardInv' /\ [Forward!Next]_<<accepted, cTaken>>
    BY <2>3, ClientTakes
  <2>4. CASE UNCHANGED <<Dispatcher1, serverVars, clientVars>>
    <3>1. \A c \in Clients : InHand(c)' = InHand(c)
      BY <2>4 DEF InHand, Dispatcher1
    <3>2. QED
      BY <2>4, <3>1, SameWay DEF ForwardInv, PassStarts, Dispatcher1, serverVars, clientVars
  <2>5. QED
    BY <2>1, <2>2, <2>3, <2>4, NextCases DEF Environment, Dispatcher1, vars
<1>3. QED BY <1>1, <1>2, TypeCorrect, PTL DEF Spec, EveryPacketInOrder, Forward!Spec
-----------------------------------------------------------------------------
\* The selection of one client's replies, step by step.
Selects(V, c, from, s) ==
  /\ \A n \in 0 .. Len(s) : OfClient(c, from, s, n) \in Seq(V)
  /\ OfClient(c, from, s, 0) = <<>>
  /\ \A n \in 1 .. Len(s) :
       OfClient(c, from, s, n) =
         IF from[n] = c THEN Append(OfClient(c, from, s, n - 1), s[n])
                        ELSE OfClient(c, from, s, n - 1)

LEMMA OfClientSelects ==
  ASSUME NEW V, NEW s \in Seq(V), NEW from, NEW c
  PROVE  Selects(V, c, from, s)
<1> DEFINE D == 0 .. Len(s)
           Is(g) == g = [n \in D |-> IF n = 0 THEN <<>>
                                     ELSE IF from[n] = c THEN Append(g[n - 1], s[n])
                                                         ELSE g[n - 1]]
           step == [x \in (1 .. Len(s)) \X Seq(V) |->
                      IF from[x[1]] = c THEN Append(x[2], s[x[1]]) ELSE x[2]]
<1>1. Len(s) \in Nat /\ \A n \in 1 .. Len(s) : s[n] \in V
  BY LenProperties, ElementOfSeq
<1>2. step \in [(1 .. Len(s)) \X Seq(V) -> Seq(V)]
  <2> SUFFICES ASSUME NEW n \in 1 .. Len(s), NEW t \in Seq(V)
               PROVE  Append(t, s[n]) \in Seq(V)
    OBVIOUS
  <2>1. QED BY <1>1, AppendProperties
<1>3. \A n \in 1 .. Len(s), t \in Seq(V) :
         step[<<n, t>>] = IF from[n] = c THEN Append(t, s[n]) ELSE t
  OBVIOUS
<1> HIDE DEF step
<1>4. PICK g \in [D -> Seq(V)] : Computes(g, Len(s), <<>>, step)
  BY <1>1, <1>2, EmptySeq, Recursion
<1>5. Is(g)
  <2>1. ASSUME NEW n \in D, n # 0
        PROVE  g[n] = IF from[n] = c THEN Append(g[n - 1], s[n]) ELSE g[n - 1]
    <3>1. n \in 1 .. Len(s) /\ g[n - 1] \in Seq(V)
      BY <1>1, <1>4, <2>1
    <3>2. g[n] = step[<<n, g[n - 1]>>]
      BY <1>4, <3>1 DEF Computes
    <3>3. QED BY <1>3, <3>1, <3>2
  <2>2. g[0] = <<>>
    BY <1>4 DEF Computes
  <2> DEFINE h == [n \in D |-> IF n = 0 THEN <<>>
                              ELSE IF from[n] = c THEN Append(g[n - 1], s[n])
                                                  ELSE g[n - 1]]
  <2>3. \A n \in D : g[n] = h[n]
    BY <2>1, <2>2
  <2>4. g = h
    BY <1>4, <2>3
  <2>5. QED BY <2>4
<1> DEFINE f == CHOOSE h : Is(h)
<1>6. \A n \in 0 .. Len(s) : OfClient(c, from, s, n) = f[n]
  BY DEF OfClient
<1>7. Is(f)
  <2> HIDE DEF Is
  <2>1. QED BY <1>5
<1> HIDE DEF f
<1>8. \A n \in D : n # 0 =>
         f[n] = IF from[n] = c THEN Append(f[n - 1], s[n]) ELSE f[n - 1]
  BY <1>7
<1>9. f[0] = <<>> /\ DOMAIN f = D /\ f = [n \in D |-> f[n]]
  BY <1>1, <1>7
<1> HIDE DEF Is
<1>10. \A n \in D : f[n] \in Seq(V)
  <2> DEFINE T == {n \in Nat : n <= Len(s) => f[n] \in Seq(V)}
  <2>1. 0 \in T
    BY <1>9, EmptySeq
  <2>2. ASSUME NEW n \in T PROVE n + 1 \in T
    <3> SUFFICES ASSUME n + 1 <= Len(s) PROVE f[n + 1] \in Seq(V)
      OBVIOUS
    <3>1. n \in Nat /\ n + 1 \in D /\ n + 1 # 0 /\ (n + 1) - 1 = n /\ f[n] \in Seq(V)
      BY <1>1
    <3>2. f[n + 1] = IF from[n + 1] = c THEN Append(f[n], s[n + 1]) ELSE f[n]
      BY <1>8, <3>1
    <3>3. s[n + 1] \in V
      BY <1>1, <3>1
    <3>4. QED BY <3>1, <3>2, <3>3, AppendProperties
  <2>3. T = Nat
    <3> HIDE DEF T
    <3>1. T \in SUBSET Nat
      BY DEF T
    <3>2. QED BY <2>1, <2>2, <3>1, Induction
  <2>4. QED BY <1>1, <2>3
<1>11. f \in [D -> Seq(V)]
  BY <1>9, <1>10
<1>12. \A n \in 1 .. Len(s) :
          f[n] = IF from[n] = c THEN Append(f[n - 1], s[n]) ELSE f[n - 1]
  BY <1>1, <1>8
<1>13. \A n \in 1 .. Len(s) : n \in 0 .. Len(s) /\ n - 1 \in 0 .. Len(s)
  BY <1>1
<1>14. 0 \in 0 .. Len(s) /\ \A n \in 0 .. Len(s) : f[n] \in Seq(V)
  BY <1>1, <1>11
<1>15. QED BY <1>6, <1>9, <1>12, <1>13, <1>14 DEF Selects

\* It depends on no more than what it selects from.
SelectsSame(c, from, s, to, t, m) ==
  \A n \in 0 .. m : OfClient(c, from, s, n) = OfClient(c, to, t, n)

LEMMA OfClientAgrees ==
  ASSUME NEW V, NEW s \in Seq(V), NEW t \in Seq(V), NEW from, NEW to, NEW c,
         NEW m \in Nat, m <= Len(s), m <= Len(t),
         \A n \in 1 .. m : s[n] = t[n] /\ from[n] = to[n]
  PROVE  SelectsSame(c, from, s, to, t, m)
<1> DEFINE f(j) == OfClient(c, from, s, j)
           g(j) == OfClient(c, to, t, j)
           T == {n \in Nat : n <= m => f(n) = g(n)}
<1>1. /\ f(0) = <<>> /\ g(0) = <<>>
      /\ \A n \in 1 .. Len(s) : f(n) = IF from[n] = c THEN Append(f(n - 1), s[n]) ELSE f(n - 1)
      /\ \A n \in 1 .. Len(t) : g(n) = IF to[n] = c THEN Append(g(n - 1), t[n]) ELSE g(n - 1)
  <2>1. Selects(V, c, from, s) /\ Selects(V, c, to, t)
    BY OfClientSelects
  <2>2. QED BY <2>1 DEF Selects
<1>2. Len(s) \in Nat /\ Len(t) \in Nat
  BY LenProperties
<1> HIDE DEF f, g
<1>3. 0 \in T
  BY <1>1
<1>4. ASSUME NEW n \in T PROVE n + 1 \in T
  <2> SUFFICES ASSUME n + 1 <= m PROVE f(n + 1) = g(n + 1)
    OBVIOUS
  <2>1. n \in Nat /\ n + 1 \in 1 .. m /\ n + 1 \in 1 .. Len(s) /\ n + 1 \in 1 .. Len(t)
    BY <1>2
  <2>2. (n + 1) - 1 = n /\ f(n) = g(n)
    BY <2>1
  <2>3. s[n + 1] = t[n + 1] /\ from[n + 1] = to[n + 1]
    BY <2>1
  <2>4. QED BY <1>1, <2>1, <2>2, <2>3
<1>5. T = Nat
  <2> HIDE DEF T
  <2>1. T \in SUBSET Nat
    BY DEF T
  <2>2. QED BY <1>3, <1>4, <2>1, Induction
<1>6. \A n \in 0 .. m : f(n) = g(n)
  BY <1>5
<1>7. QED BY <1>6 DEF f, g, SelectsSame

\* What was selected first comes first.
Begins(V, r, s) == \E u \in Seq(V) : s = r \o u

LEMMA OfClientGrows ==
  ASSUME NEW V, NEW s \in Seq(V), NEW from, NEW c, NEW m \in 0 .. Len(s)
  PROVE  Begins(V, OfClient(c, from, s, m), OfClient(c, from, s, Len(s)))
<1> DEFINE f(j) == OfClient(c, from, s, j)
           T == {n \in Nat : m + n <= Len(s) => \E u \in Seq(V) : f(m + n) = f(m) \o u}
<1>1. /\ \A n \in 0 .. Len(s) : f(n) \in Seq(V)
      /\ \A n \in 1 .. Len(s) : f(n) = IF from[n] = c THEN Append(f(n - 1), s[n]) ELSE f(n - 1)
  <2>1. Selects(V, c, from, s)
    BY OfClientSelects
  <2>2. QED BY <2>1 DEF Selects
<1>2. Len(s) \in Nat /\ \A n \in 1 .. Len(s) : s[n] \in V
  BY LenProperties, ElementOfSeq
<1> HIDE DEF f
<1>3. m \in Nat /\ f(m) \in Seq(V)
  BY <1>1, <1>2
<1>4. 0 \in T
  <2>1. <<>> \in Seq(V) /\ f(m + 0) = f(m) \o <<>>
    BY <1>3, EmptySeq, ConcatEmptySeq
  <2>2. QED BY <2>1
<1>5. ASSUME NEW n \in T PROVE n + 1 \in T
  <2> SUFFICES ASSUME m + (n + 1) <= Len(s)
               PROVE  \E u \in Seq(V) : f(m + (n + 1)) = f(m) \o u
    OBVIOUS
  <2>1. n \in Nat /\ m + (n + 1) \in 1 .. Len(s) /\ (m + (n + 1)) - 1 = m + n /\ m + n <= Len(s)
    BY <1>2, <1>3
  <2>2. PICK u \in Seq(V) : f(m + n) = f(m) \o u
    BY <2>1
  <2> DEFINE e == s[m + (n + 1)]
  <2>3. e \in V
    BY <1>2, <2>1
  <2>4. f(m + (n + 1)) = IF from[m + (n + 1)] = c THEN Append(f(m + n), e) ELSE f(m + n)
    BY <1>1, <2>1
  <2> HIDE DEF e
  <2>5. Append(u, e) \in Seq(V) /\ f(m) \o Append(u, e) = Append(f(m) \o u, e)
    <3>1. Append(u, e) \in Seq(V)
      BY <2>3, AppendProperties
    <3> DEFINE v == f(m)
    <3>2. v \in Seq(V)
      BY <1>3
    <3> HIDE DEF v
    <3>3. v \o Append(u, e) = Append(v \o u, e)
      BY <2>3, <3>2, AppendToConcat
    <3>4. QED BY <3>1, <3>3 DEF v
  <2>6. f(m + (n + 1)) = f(m) \o u \/ f(m + (n + 1)) = f(m) \o Append(u, e)
    BY <2>2, <2>4, <2>5
  <2>7. QED BY <2>5, <2>6
<1>6. T = Nat
  <2> HIDE DEF T
  <2>1. T \in SUBSET Nat
    BY DEF T
  <2>2. QED BY <1>4, <1>5, <2>1, Induction
<1>7. PICK n \in Nat : m + n = Len(s)
  <2>1. Len(s) - m \in Nat /\ m + (Len(s) - m) = Len(s)
    BY <1>2
  <2>2. QED BY <2>1
<1>8. \E u \in Seq(V) : f(Len(s)) = f(m) \o u
  <2>1. m + n <= Len(s)
    BY <1>2, <1>7
  <2>2. \E u \in Seq(V) : f(m + n) = f(m) \o u
    BY <1>6, <2>1
  <2>3. QED BY <1>7, <2>2
<1>9. QED BY <1>8 DEF f, Begins
-----------------------------------------------------------------------------
\* All replies the server was given; where one of client c is on its way back:
\* it was put in the server's queue, or it is in the hand of the dispatcher, or
\* in the client's queue.
Given == sTaken \o sToSend

Replied(c) == OfClient(c, dFrom, Given, Len(dFrom))

InReply(c) == IF dPc = "reply" /\ dAt = c THEN dHand ELSE <<>>

WayBack(c) == Replied(c) \o (InReply(c) \o cReceived[c])

\* No reply is lost, doubled or overtaken by another of the same client.
NoReplyLost == Len(dFrom) = Len(Given) /\ \A c \in Clients : WayBack(c) = cGot[c]

LEMMA BackTypes ==
  ASSUME TypeOK, NoReplyLost, NEW c \in Clients
  PROVE  /\ Given \in Seq(Blob) /\ Replied(c) \in Seq(Blob) /\ InReply(c) \in Seq(Blob)
         /\ cReceived[c] \in Seq(Blob) /\ cGot[c] \in Seq(Blob)
<1>1. Given \in Seq(Blob)
  BY ConcatProperties DEF Given, TypeOK, ServerTypeOK
<1>2. Len(dFrom) \in 0 .. Len(Given)
  BY <1>1, LenProperties DEF NoReplyLost
<1>3. Replied(c) \in Seq(Blob)
  BY <1>1, <1>2, OfClientSelects DEF Replied, Selects
<1>4. InReply(c) \in Seq(Blob)
  BY EmptySeq DEF InReply, TypeOK
<1>5. QED BY <1>1, <1>3, <1>4 DEF TypeOK, ClientTypeOK

\* A step that changes nothing of this.
LEMMA SameWayBack ==
  ASSUME TypeOK, NoReplyLost,
         UNCHANGED <<dFrom, sTaken, sToSend, cReceived, cGot>>,
         \A c \in Clients : InReply(c)' = InReply(c)
  PROVE  NoReplyLost' /\ [Back!Next]_<<cGot, [c \in Clients |-> ToSend(c)]>>
<1>1. \A c \in Clients : WayBack(c)' = WayBack(c)
  BY DEF WayBack, Replied, Given
<1>2. \A c \in Clients : ToSend(c)' = ToSend(c)
  BY DEF ToSend
<1>3. QED BY <1>1, <1>2 DEF NoReplyLost, Given

\* The dispatcher takes a reply of a client, and puts it at the end of what
\* the server was given.
LEMMA DispatcherTakesReply ==
  ASSUME TypeOK, NoReplyLost, TakeReply
  PROVE  NoReplyLost' /\ [Back!Next]_<<cGot, [c \in Clients |-> ToSend(c)]>>
<1>1. /\ dPc = "clients" /\ dPc' = "reply" /\ dAt' = dAt /\ dAt \in Clients
      /\ cReceived[dAt] # <<>> /\ dHand' = <<Head(cReceived[dAt])>>
      /\ cReceived' = [cReceived EXCEPT ![dAt] = Tail(@)]
      /\ UNCHANGED <<dFrom, sTaken, sToSend, cGot>>
  BY DEF TakeReply, serverVars, TypeOK
<1>2. \A c \in Clients : ToSend(c)' = ToSend(c) /\ Replied(c)' = Replied(c)
  BY <1>1 DEF ToSend, Replied, Given
<1>3. ASSUME NEW c \in Clients
      PROVE  InReply(c)' \o cReceived'[c] = InReply(c) \o cReceived[c]
  <2>1. cReceived[c] \in Seq(Blob) /\ InReply(c) = <<>>
    BY <1>1, BackTypes DEF InReply
  <2>2. CASE c = dAt
    <3>1. InReply(c)' = <<Head(cReceived[c])>> /\ cReceived'[c] = Tail(cReceived[c])
      BY <1>1, <2>2 DEF InReply, TypeOK, ClientTypeOK
    <3>2. <<Head(cReceived[c])>> \o Tail(cReceived[c]) = cReceived[c]
      BY <1>1, <2>1, <2>2, HeadAndTail
    <3>3. QED BY <2>1, <3>1, <3>2, ConcatEmptySeq
  <2>3. CASE c # dAt
    BY <1>1, <2>1, <2>3 DEF InReply, TypeOK, ClientTypeOK
  <2>4. QED BY <2>2, <2>3
<1>4. \A c \in Clients : WayBack(c)' = WayBack(c)
  BY <1>2, <1>3 DEF WayBack
<1>5. QED BY <1>1, <1>2, <1>4 DEF NoReplyLost, Given

LEMMA DispatcherPutsReply ==
  ASSUME TypeOK, NoReplyLost, PutReply
  PROVE  NoReplyLost' /\ [Back!Next]_<<cGot, [c \in Clients |-> ToSend(c)]>>
<1>1. /\ dPc = "reply" /\ dPc' # "reply" /\ dAt \in Clients
      /\ dHand \in Seq(Blob) /\ Len(dHand) = 1
      /\ sToSend' = sToSend \o dHand /\ dFrom' = Append(dFrom, dAt)
      /\ UNCHANGED <<sTaken, cReceived, cGot>>
  BY DEF PutReply, clientVars, TypeOK, NextClient
<1> DEFINE b == dHand[1]
           g == Given
           n == Len(dFrom)
<1>2. b \in Blob /\ dHand = <<b>>
  <2>1. 1 \in 1 .. Len(dHand)
    BY <1>1
  <2>2. b \in Blob
    BY <1>1, <2>1, ElementOfSeq
  <2>3. <<b>> \in Seq(Blob) /\ Len(<<b>>) = 1 /\ <<b>>[1] = b
    BY <2>2
  <2>4. dHand = <<b>>
    <3> HIDE DEF b
    <3>1. \A j \in 1 .. Len(dHand) : dHand[j] = <<b>>[j]
      BY <1>1, <2>3 DEF b
    <3>2. QED BY <1>1, <2>3, <3>1, SeqEqual
  <2>5. QED BY <2>2, <2>4
<1>3. /\ g \in Seq(Blob) /\ n = Len(g) /\ n \in Nat
      /\ sTaken \in Seq(Blob) /\ sToSend \in Seq(Blob) /\ dFrom \in Seq(Clients)
  BY ConcatProperties, LenProperties DEF Given, NoReplyLost, TypeOK, ServerTypeOK
<1>4. Given' = g \o <<b>>
  <2>1. <<b>> \in Seq(Blob) /\ sToSend' = sToSend \o <<b>>
    BY <1>1, <1>2
  <2>2. (sTaken \o sToSend) \o <<b>> = sTaken \o (sToSend \o <<b>>)
    BY <1>3, <2>1, ConcatAssociative
  <2>3. QED BY <1>1, <2>1, <2>2 DEF Given
<1>5. Given' = Append(g, b)
  BY <1>2, <1>3, <1>4, AppendIsConcat
<1>6. /\ Given' \in Seq(Blob) /\ Len(Given') = n + 1
      /\ \A j \in 1 .. n : Given'[j] = g[j]
      /\ Given'[n + 1] = b
  BY <1>2, <1>3, <1>5, AppendProperties
<1>7. /\ Len(dFrom') = n + 1 /\ dFrom'[n + 1] = dAt
      /\ \A j \in 1 .. n : dFrom'[j] = dFrom[j]
  BY <1>1, <1>3, AppendProperties
<1>8. \A c \in Clients : ToSend(c)' = ToSend(c)
  <2>1. Len(sTaken) \in Nat /\ Len(sTaken) <= n
    BY <1>3, ConcatProperties, LenProperties DEF Given
  <2>2. \A j \in 1 .. Len(sTaken) : dFrom[j] = dFrom'[j]
    BY <1>3, <1>7, <2>1
  <2>3. ASSUME NEW c \in Clients
        PROVE  \A j \in 0 .. Len(sTaken) :
                 OfClient(c, dFrom, sTaken, j) = OfClient(c, dFrom', sTaken, j)
    <3>1. Len(sTaken) <= Len(sTaken) /\ \A j \in 1 .. Len(sTaken) : sTaken[j] = sTaken[j]
      BY <2>1
    <3>2. SelectsSame(c, dFrom, sTaken, dFrom', sTaken, Len(sTaken))
      BY <1>3, <2>1, <2>2, <3>1, OfClientAgrees
    <3>3. QED BY <3>2 DEF SelectsSame
  <2>4. QED BY <1>1, <2>1, <2>3 DEF ToSend
<1>9. ASSUME NEW c \in Clients
      PROVE  Replied(c)' = IF c = dAt THEN Append(Replied(c), b) ELSE Replied(c)
  <2> DEFINE h(j) == OfClient(c, dFrom', Given', j)
  <2>1. \A j \in 0 .. n : OfClient(c, dFrom, g, j) = h(j)
    <3> DEFINE t == Given'
               from == dFrom'
    <3> HIDE DEF n, g, h, t, from
    <3>1. t \in Seq(Blob) /\ n <= Len(g) /\ n <= Len(t)
      BY <1>3, <1>6 DEF t
    <3>2. \A j \in 1 .. n : g[j] = t[j] /\ dFrom[j] = from[j]
      BY <1>6, <1>7 DEF t, from
    <3>3. g \in Seq(Blob) /\ n \in Nat
      BY <1>3
    <3>4. SelectsSame(c, dFrom, g, from, t, n)
      BY <3>1, <3>2, <3>3, OfClientAgrees
    <3>5. QED BY <3>4 DEF h, t, from, SelectsSame
  <2>2. h(n + 1) = IF dFrom'[n + 1] = c THEN Append(h(n), Given'[n + 1]) ELSE h(n)
    <3>1. \A j \in 1 .. Len(Given') :
            h(j) = IF dFrom'[j] = c THEN Append(h(j - 1), Given'[j]) ELSE h(j - 1)
      <4>1. Selects(Blob, c, dFrom', Given')
        BY <1>6, OfClientSelects
      <4>2. QED BY <4>1 DEF Selects
    <3> HIDE DEF h
    <3>2. n + 1 \in 1 .. Len(Given') /\ (n + 1) - 1 = n
      BY <1>3, <1>6
    <3>3. QED BY <3>1, <3>2
  <2>3. Replied(c)' = h(n + 1) /\ Replied(c) = h(n)
    BY <1>3, <1>7, <2>1 DEF Replied
  <2> HIDE DEF h
  <2>4. QED BY <1>6, <1>7, <2>2, <2>3
<1> HIDE DEF b, g, n
<1>10. ASSUME NEW c \in Clients PROVE WayBack(c)' = WayBack(c)
  <2>1. InReply(c)' = <<>>
    BY <1>1 DEF InReply
  <2>2. Replied(c) \in Seq(Blob) /\ cReceived[c] \in Seq(Blob)
    BY BackTypes
  <2>3. WayBack(c)' = Replied(c)' \o cReceived[c]
    BY <1>1, <2>1, <2>2, ConcatEmptySeq DEF WayBack
  <2>4. CASE c = dAt
    <3>1. Replied(c)' = Replied(c) \o <<b>> /\ InReply(c) = <<b>> /\ <<b>> \in Seq(Blob)
      BY <1>1, <1>2, <1>9, <2>2, <2>4, AppendIsConcat DEF InReply
    <3>2. (Replied(c) \o <<b>>) \o cReceived[c] = Replied(c) \o (<<b>> \o cReceived[c])
      <4> DEFINE r == Replied(c)
                 q == cReceived[c]
                 o == <<b>>
      <4>1. r \in Seq(Blob) /\ q \in Seq(Blob) /\ o \in Seq(Blob)
        BY <2>2, <3>1
      <4> HIDE DEF r, q, o
      <4>2. (r \o o) \o q = r \o (o \o q)
        BY <4>1, ConcatAssociative
      <4>3. QED BY <4>2 DEF r, q, o
    <3>3. QED BY <2>3, <3>1, <3>2 DEF WayBack
  <2>5. CASE c # dAt
    <3>1. Replied(c)' = Replied(c) /\ InReply(c) = <<>>
      BY <1>9, <2>5 DEF InReply
    <3>2. QED BY <2>2, <2>3, <3>1, ConcatEmptySeq DEF WayBack
  <2>6. QED BY <2>4, <2>5
<1>11. Len(dFrom') = Len(Given')
  BY <1>6, <1>7
<1>12. QED BY <1>1, <1>8, <1>10, <1>11 DEF NoReplyLost

\* The server takes the oldest reply of the client it came from.
LEMMA ServerReturns ==
  ASSUME TypeOK, NoReplyLost, ServerTake, UNCHANGED <<Dispatcher1, clientVars>>
  PROVE  NoReplyLost' /\ [Back!Next]_<<cGot, [c \in Clients |-> ToSend(c)]>>
<1>1. /\ sToSend # <<>> /\ sToSend' = Tail(sToSend)
      /\ sTaken' = Append(sTaken, Head(sToSend))
      /\ UNCHANGED <<dPc, dAt, dHand, dFrom, cReceived, cGot>>
  BY DEF ServerTake, Dispatcher1, clientVars
<1> DEFINE n == Len(sTaken)
           e == Head(sToSend)
<1>2. sTaken \in Seq(Blob) /\ sToSend \in Seq(Blob) /\ dFrom \in Seq(Clients) /\ n \in Nat
  BY LenProperties DEF TypeOK, ServerTypeOK
<1>3. Given' = Given /\ n < Len(Given) /\ Given[n + 1] = e
  BY <1>1, <1>2, MoveHead DEF Given
<1>4. Given \in Seq(Blob) /\ Len(Given) \in Nat /\ Len(dFrom) = Len(Given)
  BY <1>2, ConcatProperties, LenProperties DEF Given, NoReplyLost
<1>5. e \in Blob
  BY <1>1, <1>2, NothingToTake
<1>6. /\ sTaken' \in Seq(Blob) /\ Len(sTaken') = n + 1
      /\ \A j \in 1 .. n : sTaken'[j] = sTaken[j]
      /\ sTaken'[n + 1] = e
  BY <1>1, <1>2, <1>5, AppendProperties
<1>7. \A j \in 1 .. n : Given[j] = sTaken[j]
  BY <1>2, ConcatProperties, LenProperties DEF Given
<1> HIDE DEF n, e
<1>8. \A c \in Clients : WayBack(c)' = WayBack(c)
  BY <1>1, <1>3 DEF WayBack, Replied, InReply
<1>9. ASSUME NEW c \in Clients
      PROVE  /\ ToSend(c) = OfClient(c, dFrom, Given, n)
             /\ ToSend(c)' = OfClient(c, dFrom, Given, n + 1)
  <2>1. \A j \in 0 .. n : OfClient(c, dFrom, sTaken, j) = OfClient(c, dFrom, Given, j)
    <3>1. n <= Len(sTaken) /\ n <= Len(Given)
      BY <1>2, <1>3, <1>4 DEF n
    <3>2. \A j \in 1 .. n : sTaken[j] = Given[j] /\ dFrom[j] = dFrom[j]
      BY <1>7
    <3>3. SelectsSame(c, dFrom, sTaken, dFrom, Given, n)
      BY <1>2, <1>4, <3>1, <3>2, OfClientAgrees
    <3>4. QED BY <3>3 DEF SelectsSame
  <2>2. \A j \in 0 .. n + 1 : OfClient(c, dFrom, sTaken', j) = OfClient(c, dFrom, Given, j)
    <3>1. n + 1 \in Nat /\ n + 1 <= Len(sTaken') /\ n + 1 <= Len(Given)
      BY <1>2, <1>3, <1>4, <1>6
    <3>2. \A j \in 1 .. n + 1 : sTaken'[j] = Given[j] /\ dFrom[j] = dFrom[j]
      BY <1>2, <1>3, <1>6, <1>7
    <3>3. SelectsSame(c, dFrom, sTaken', dFrom, Given, n + 1)
      BY <1>4, <1>6, <3>1, <3>2, OfClientAgrees
    <3>4. QED BY <3>3 DEF SelectsSame
  <2>3. n \in 0 .. n /\ n + 1 \in 0 .. n + 1
    BY <1>2
  <2>4. QED BY <1>1, <1>6, <2>1, <2>2, <2>3 DEF ToSend, n
<1>10. PICK d \in Clients : d = dFrom[n + 1]
  BY <1>2, <1>3, <1>4, ElementOfSeq
<1>11. ASSUME NEW c \in Clients
       PROVE  ToSend(c)' = IF d = c THEN Append(ToSend(c), e) ELSE ToSend(c)
  <2>1. n + 1 \in 1 .. Len(Given) /\ (n + 1) - 1 = n
    BY <1>2, <1>3, <1>4
  <2>2. OfClient(c, dFrom, Given, n + 1) =
          IF dFrom[n + 1] = c THEN Append(OfClient(c, dFrom, Given, n), Given[n + 1])
                              ELSE OfClient(c, dFrom, Given, n)
    <3>1. Selects(Blob, c, dFrom, Given)
      BY <1>4, OfClientSelects
    <3>2. QED BY <2>1, <3>1 DEF Selects
  <2>3. QED BY <1>3, <1>9, <1>10, <2>2
<1>12. Len(ToSend(d)) < Len(cGot[d]) /\ cGot[d][Len(ToSend(d)) + 1] = e
  <2> DEFINE r == ToSend(d)
             w == InReply(d) \o cReceived[d]
  <2>1. PICK u \in Seq(Blob) : Replied(d) = ToSend(d)' \o u
    <3> DEFINE m == n + 1
    <3>1. m \in 0 .. Len(Given)
      BY <1>2, <1>3, <1>4
    <3>2. ToSend(d)' = OfClient(d, dFrom, Given, m)
      BY <1>9, <1>10
    <3> HIDE DEF m
    <3>3. Begins(Blob, OfClient(d, dFrom, Given, m), OfClient(d, dFrom, Given, Len(Given)))
      BY <1>4, <3>1, OfClientGrows
    <3>4. Begins(Blob, ToSend(d)', Replied(d))
      BY <1>4, <3>2, <3>3 DEF Replied
    <3>5. QED BY <3>4 DEF Begins
  <2>2. r \in Seq(Blob)
    <3>1. n \in 0 .. Len(Given)
      BY <1>2, <1>3, <1>4
    <3>2. OfClient(d, dFrom, Given, n) \in Seq(Blob)
      BY <1>4, <3>1, OfClientSelects DEF Selects
    <3>3. QED BY <1>9, <1>10, <3>2
  <2>3. w \in Seq(Blob)
    BY <1>10, BackTypes, ConcatProperties
  <2>4. cGot[d] = (Append(r, e) \o u) \o w
    <3>1. ToSend(d)' = Append(ToSend(d), e)
      BY <1>10, <1>11
    <3>2. cGot[d] = Replied(d) \o w
      BY <1>10 DEF NoReplyLost, WayBack
    <3>3. QED BY <2>1, <3>1, <3>2
  <2> HIDE DEF r, w
  <2>5. QED BY <1>5, <2>2, <2>3, <2>4, ElementStays DEF r
<1>13. Back!Return(d)
  BY <1>1, <1>10, <1>11, <1>12 DEF Back!Return
<1>14. NoReplyLost'
  BY <1>1, <1>3, <1>4, <1>8 DEF NoReplyLost
<1>15. QED BY <1>10, <1>13, <1>14 DEF Back!Next

\* A client's worker queues a reply at the end of the client's way back.
LEMMA ClientGives ==
  ASSUME TypeOK, NoReplyLost, UNCHANGED <<Dispatcher1, serverVars>>,
         NEW c \in Clients,
         ClientStep(c) \/ (\E yes \in BOOLEAN : ClientAnswer(c, yes))
           \/ (\E a \in Address : ClientArrive(c, a))
  PROVE  NoReplyLost' /\ [Back!Next]_<<cGot, [d \in Clients |-> ToSend(d)]>>
<1> USE DEF Dispatcher1, serverVars
<1>1. /\ Given' = Given /\ dFrom' = dFrom
      /\ \A d \in Clients : /\ InReply(d)' = InReply(d) /\ Replied(d)' = Replied(d)
                            /\ ToSend(d)' = ToSend(d)
  BY DEF InReply, Replied, ToSend, Given
<1>2. CASE UNCHANGED <<cReceived, cGot>>
  BY <1>1, <1>2, SameWayBack
<1>3. CASE ClientReceive(c)
  <2> DEFINE b == Head(cIn[c]).blob
  <2>1. /\ cReceived' = [cReceived EXCEPT ![c] = Append(@, b)]
        /\ cGot' = [cGot EXCEPT ![c] = Append(@, b)]
    BY <1>3 DEF ClientReceive
  <2>2. b \in Blob
    <3>1. cIn[c] \in Seq(Event) /\ cIn[c] # <<>> /\ Head(cIn[c]).kind = "data"
      BY <1>3 DEF ClientReceive, TypeOK, ClientTypeOK
    <3>2. Head(cIn[c]) \in Event
      BY <3>1, NothingToTake
    <3>3. QED BY <3>1, <3>2, EventFields
  <2> HIDE DEF b
  <2>3. Back!Give(c, b)
    <3>1. [d \in Clients |-> ToSend(d)]' = [d \in Clients |-> ToSend(d)]
      BY <1>1
    <3>2. QED BY <2>1, <3>1 DEF Back!Give
  <2>4. cReceived'[c] = Append(cReceived[c], b) /\ cGot'[c] = Append(cGot[c], b)
    BY <2>1 DEF TypeOK, ClientTypeOK
  <2>5. WayBack(c)' = cGot'[c]
    <3>1. /\ Replied(c) \in Seq(Blob) /\ InReply(c) \in Seq(Blob)
          /\ cReceived[c] \in Seq(Blob)
      BY BackTypes
    <3>2. Replied(c) \o (InReply(c) \o Append(cReceived[c], b)) = Append(WayBack(c), b)
      <4> DEFINE r == Replied(c)
                 i == InReply(c)
                 q == cReceived[c]
      <4>1. r \in Seq(Blob) /\ i \in Seq(Blob) /\ q \in Seq(Blob)
        BY <3>1
      <4> HIDE DEF r, i, q
      <4>2. r \o (i \o Append(q, b)) = Append(r \o (i \o q), b)
        BY <2>2, <4>1, AppendToLast
      <4>3. QED BY <4>2 DEF r, i, q, WayBack
    <3>3. QED BY <1>1, <2>4, <3>2 DEF NoReplyLost, WayBack
  <2>6. ASSUME NEW d \in Clients, d # c PROVE WayBack(d)' = cGot'[d]
    BY <1>1, <2>1, <2>6 DEF NoReplyLost, WayBack, TypeOK, ClientTypeOK
  <2>7. QED BY <1>1, <2>2, <2>3, <2>5, <2>6 DEF NoReplyLost, Back!Next
<1>4. ClientReceive(c) \/ UNCHANGED <<cReceived, cGot>>
  BY DEF ClientStep, ClientSocket, ClientAgain, ClientEnds, ClientTake, ClientPass,
         ClientSend, ClientReset, ClientReceiveFails, ClientIdle, ClientAnswer,
         ClientArrive
<1>5. QED BY <1>2, <1>3, <1>4

\* The relay implements a channel for each client: the server's worker takes its
\* replies to send them back once each and in order, whichever of the others it
\* shares the server with.
THEOREM RepliesGoBackInOrder == Spec => RepliesInOrder
<1>1. Init => NoReplyLost /\ Back!Init
  <2> SUFFICES ASSUME Init PROVE NoReplyLost /\ Back!Init
    OBVIOUS
  <2>1. sTaken = <<>> /\ sToSend = <<>> /\ dFrom = <<>> /\ dPc = "server"
    BY DEF Init, ServerInit
  <2>2. Given = <<>> /\ Len(<<>>) = 0 /\ <<>> \in Seq(Blob) /\ <<>> \o <<>> = <<>>
    BY <2>1, EmptySeq, ConcatEmptySeq DEF Given
  <2>3. ASSUME NEW c \in Clients PROVE OfClient(c, <<>>, <<>>, 0) = <<>>
    <3>1. Selects(Blob, c, <<>>, <<>>)
      BY <2>2, OfClientSelects
    <3>2. QED BY <3>1 DEF Selects
  <2>4. \A c \in Clients : ToSend(c) = <<>> /\ Replied(c) = <<>> /\ InReply(c) = <<>>
    BY <2>1, <2>2, <2>3 DEF ToSend, Replied, InReply
  <2>5. \A c \in Clients : cGot[c] = <<>> /\ cReceived[c] = <<>>
    BY DEF Init, ClientInit
  <2>6. Back!Init
    BY <2>4 DEF Init, ClientInit, Back!Init
  <2>7. QED BY <2>1, <2>2, <2>4, <2>5, <2>6 DEF NoReplyLost, WayBack
<1>2. TypeOK /\ NoReplyLost /\ [Next]_vars
        => NoReplyLost' /\ [Back!Next]_<<cGot, [c \in Clients |-> ToSend(c)]>>
  <2> SUFFICES ASSUME TypeOK, NoReplyLost, [Next]_vars
               PROVE  /\ NoReplyLost'
                      /\ [Back!Next]_<<cGot, [c \in Clients |-> ToSend(c)]>>
    OBVIOUS
  <2>1. CASE TakePacket \/ NoPacket \/ FanOut \/ NoReply
    <3>1. /\ UNCHANGED <<dFrom, sTaken, sToSend, cReceived, cGot>>
          /\ dPc # "reply" /\ dPc' # "reply"
      BY <2>1 DEF TakePacket, NoPacket, FanOut, NoReply, FirstClient, NextClient,
                  serverVars, clientVars, TypeOK
    <3>2. \A c \in Clients : InReply(c)' = InReply(c)
      BY <3>1 DEF InReply
    <3>3. QED BY <3>1, <3>2, SameWayBack
  <2>2. CASE TakeReply
    BY <2>2, DispatcherTakesReply
  <2>3. CASE PutReply
    BY <2>3, DispatcherPutsReply
  <2>4. CASE ServerNext /\ UNCHANGED <<Dispatcher1, clientVars>>
    <3>1. CASE ServerTake
      BY <2>4, <3>1, ServerReturns
    <3>2. CASE UNCHANGED <<sTaken, sToSend>>
      <4>1. \A c \in Clients : InReply(c)' = InReply(c)
        BY <2>4 DEF InReply, Dispatcher1
      <4>2. QED BY <2>4, <3>2, <4>1, SameWayBack DEF Dispatcher1, clientVars
    <3>3. ServerTake \/ UNCHANGED <<sTaken, sToSend>>
      BY <2>4 DEF ServerNext, ServerStep, ServerSocket, ServerBind, ServerEnds,
                  ServerReceive, ServerReceiveFails, ServerNothingToRead, ServerIdle,
                  ServerSend, ServerAnswer, ServerArrive
    <3>4. QED BY <3>1, <3>2, <3>3
  <2>5. ASSUME NEW c \in Clients,
               \/ ClientStep(c)
               \/ \E yes \in BOOLEAN : ClientAnswer(c, yes)
               \/ \E a \in Address : ClientArrive(c, a),
               UNCHANGED <<Dispatcher1, serverVars>>
        PROVE  /\ NoReplyLost'
               /\ [Back!Next]_<<cGot, [d \in Clients |-> ToSend(d)]>>
    BY <2>5, ClientGives
  <2>6. CASE UNCHANGED <<Dispatcher1, serverVars, clientVars>>
    <3>1. \A c \in Clients : InReply(c)' = InReply(c)
      BY <2>6 DEF InReply, Dispatcher1
    <3>2. QED BY <2>6, <3>1, SameWayBack DEF Dispatcher1, serverVars, clientVars
  <2>7. QED
    BY <2>1, <2>2, <2>3, <2>4, <2>5, <2>6, NextCases
       DEF DispatcherStep, Environment, Dispatcher1, vars
<1>3. QED BY <1>1, <1>2, TypeCorrect, PTL DEF Spec, RepliesInOrder, Back!Spec
=============================================================================
