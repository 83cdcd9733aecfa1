-------------------------- MODULE TestTools_proofs --------------------------
(***************************************************************************)
(* Proofs about TestTools, for any number of runs of the client, questions *)
(* and datagrams lost: types, which answer a client takes for its          *)
(* question, and what ends the server.                                     *)
(***************************************************************************)
EXTENDS TestTools, SequenceLemmas

LEMMA EventFields ==
  /\ Reset \in Event /\ Reset.kind = "reset"
  /\ \A a, b : Data(a, b).kind = "data" /\ Data(a, b).from = a /\ Data(a, b).blob = b
  /\ \A a \in Address, b \in Blob : Data(a, b) \in Event
  /\ \A e \in Event : e.kind = "data" => e.from \in Address /\ e.blob \in Blob
<1>1. Reset.kind = "reset" BY DEF Reset
<1>2. \A a, b : Data(a, b).kind = "data" /\ Data(a, b).from = a /\ Data(a, b).blob = b
  BY DEF Data
<1>3. \A a \in Address, b \in Blob : Data(a, b) \in Event
  BY DEF Data, Event
<1>4. ASSUME NEW e \in Event, e.kind = "data"
      PROVE  e.from \in Address /\ e.blob \in Blob
  <2>1. CASE e \in [kind : {"data"}, from : Address, blob : Blob]
    BY <2>1
  <2>2. CASE e \in [kind : {"tooLong"}, from : Address]
    BY <2>2, <1>4
  <2>3. CASE e = Reset
    BY <2>3, <1>1, <1>4
  <2>4. QED BY <2>1, <2>2, <2>3 DEF Event
<1>5. QED BY <1>1, <1>2, <1>3, <1>4 DEF Event
-----------------------------------------------------------------------------
\* What an operation on one socket does to the events in all of them.
InType == in \in [Address -> Seq(Event)]

Kept(x, j) == j \in 1 .. Len(in[x]) /\ in'[x][j] = in[x][j]

More(b, e) ==
  /\ InType'
  /\ \A x \in Address : \A j \in 1 .. Len(in'[x]) :
       Kept(x, j) \/ (x = b /\ j = Len(in[b]) + 1 /\ in'[x][j] = e)

LEMMA OneMore ==
  ASSUME InType, NEW b \in Address, NEW e \in Event,
         in' = [in EXCEPT ![b] = Append(@, e)]
  PROVE  More(b, e)
<1>1. in[b] \in Seq(Event) /\ Len(in[b]) \in Nat
  BY LenProperties DEF InType
<1>2. /\ Append(in[b], e) \in Seq(Event)
      /\ Len(Append(in[b], e)) = Len(in[b]) + 1
      /\ \A j \in 1 .. Len(in[b]) : Append(in[b], e)[j] = in[b][j]
      /\ Append(in[b], e)[Len(in[b]) + 1] = e
  BY <1>1, AppendProperties
<1>3. in'[b] = Append(in[b], e) /\ \A x \in Address \ {b} : in'[x] = in[x]
  BY DEF InType
<1>4. InType'
  BY <1>2, <1>3 DEF InType
<1>5. ASSUME NEW x \in Address, NEW j \in 1 .. Len(in'[x])
      PROVE  Kept(x, j) \/ (x = b /\ j = Len(in[b]) + 1 /\ in'[x][j] = e)
  <2>1. CASE x # b
    BY <2>1, <1>3 DEF Kept
  <2>2. CASE x = b
    <3>1. j \in 1 .. Len(in[b]) + 1
      BY <2>2, <1>2, <1>3
    <3>2. j \in 1 .. Len(in[b]) \/ j = Len(in[b]) + 1
      BY <3>1, <1>1
    <3>3. QED BY <2>2, <3>2, <1>2, <1>3 DEF Kept
  <2>3. QED BY <2>1, <2>2
<1>6. QED BY <1>4, <1>5 DEF More

Less(b) ==
  /\ InType'
  /\ Head(in[b]) \in Event
  /\ 1 \in 1 .. Len(in[b]) /\ Head(in[b]) = in[b][1]
  /\ \A x \in Address \ {b} : \A j \in 1 .. Len(in'[x]) : Kept(x, j)
  /\ \A j \in 1 .. Len(in'[b]) :
       /\ j + 1 \in 1 .. Len(in[b]) /\ j + 1 # 1
       /\ in'[b][j] = in[b][j + 1]

LEMMA OneLess ==
  ASSUME InType, NEW b \in Address, in[b] # <<>>, in' = [in EXCEPT ![b] = Tail(@)]
  PROVE  Less(b)
<1>1. in[b] \in Seq(Event) /\ Len(in[b]) \in Nat \ {0}
  BY LenProperties, EmptySeq DEF InType
<1>2. /\ Head(in[b]) \in Event /\ Tail(in[b]) \in Seq(Event)
      /\ Len(Tail(in[b])) = Len(in[b]) - 1
      /\ \A j \in 1 .. Len(Tail(in[b])) : Tail(in[b])[j] = in[b][j + 1]
  BY <1>1, HeadTailProperties
<1>3. in'[b] = Tail(in[b]) /\ \A x \in Address \ {b} : in'[x] = in[x]
  BY DEF InType
<1>4. InType'
  BY <1>2, <1>3 DEF InType
<1>5. 1 \in 1 .. Len(in[b]) /\ Head(in[b]) = in[b][1]
  BY <1>1
<1>6. ASSUME NEW j \in 1 .. Len(in'[b])
      PROVE  j + 1 \in 1 .. Len(in[b]) /\ j + 1 # 1 /\ in'[b][j] = in[b][j + 1]
  <2>1. in'[b] = Tail(in[b])
    BY <1>3
  <2>2. j \in 1 .. Len(Tail(in[b]))
    BY <2>1
  <2>3. Tail(in[b])[j] = in[b][j + 1]
    BY <1>2, <2>2
  <2>4. j + 1 \in 1 .. Len(in[b]) /\ j + 1 # 1
    BY <1>1, <1>2, <2>2
  <2>5. QED BY <2>1, <2>3, <2>4
<1>7. \A x \in Address \ {b} : \A j \in 1 .. Len(in'[x]) : Kept(x, j)
  BY <1>3 DEF Kept
<1>8. QED BY <1>2, <1>4, <1>5, <1>6, <1>7 DEF Less

Closed(b) ==
  /\ InType'
  /\ Len(in'[b]) = 0
  /\ \A x \in Address : \A j \in 1 .. Len(in'[x]) : x # b /\ Kept(x, j)

LEMMA NoneLeft ==
  ASSUME InType, NEW b \in Address, in' = [in EXCEPT ![b] = <<>>]
  PROVE  Closed(b)
<1>1. in'[b] = <<>> /\ \A x \in Address \ {b} : in'[x] = in[x]
  BY DEF InType
<1>2. <<>> \in Seq(Event) /\ Len(<<>>) = 0
  BY EmptySeq
<1>3. QED BY <1>1, <1>2 DEF InType, Kept, Closed
-----------------------------------------------------------------------------
\* The programs that run are the ones with a socket, and only users ask.
TypeInv ==
  /\ TypeOK
  /\ \A c \in Users : c \in up <=> cPc[c] \notin {"off", "ended"}
  /\ TheServer \in up <=> vPc \notin NotRunning
  /\ \A j \in 1 .. Len(in[TheServer]) :
       in[TheServer][j].kind = "data" => in[TheServer][j].from \in Users
  /\ vFrom # Nowhere => vHeard \in Blob

LEMMA Parts ==
  ASSUME ToolsAssumption, NetworkAssumption, TypeInv
  PROVE  /\ InType /\ TheServer \in Address /\ Users \subseteq Address
         /\ Nowhere \notin Address /\ TheServer \notin Users
         /\ Blob = 1 .. MaxAsked /\ MaxAsked \in Nat
BY DEF ToolsAssumption, NetworkAssumption, TypeInv, TypeOK, InType

LEMMA TypeInit ==
  ASSUME ToolsAssumption, Init
  PROVE  TypeInv
BY EmptySeq DEF ToolsAssumption, Init, NotRunning, TypeInv, TypeOK

\* What the steps do to the sockets.
LEMMA ServerMail ==
  ASSUME ToolsAssumption, NetworkAssumption, TypeInv
  PROVE  /\ \A place : ServerGone(place) => Closed(TheServer)
         /\ ServerHear => /\ Less(TheServer)
                          /\ Head(in[TheServer]).from \in Users
                          /\ Head(in[TheServer]).blob \in Blob
         /\ ServerReply => /\ vFrom \in Users /\ vHeard \in Blob
                           /\ \/ UNCHANGED in
                              \/ vFrom \in up /\ More(vFrom, Data(TheServer, vHeard))
                              \/ vFrom \notin up /\ More(TheServer, Reset)
<1>1. /\ InType /\ TheServer \in Address /\ Users \subseteq Address
      /\ Nowhere \notin Address /\ TheServer \notin Users
  BY Parts
<1>2. ASSUME NEW place, ServerGone(place) PROVE Closed(TheServer)
  BY <1>1, <1>2, NoneLeft DEF ServerGone, Gone
<1>3. ASSUME ServerHear
      PROVE  /\ Less(TheServer)
             /\ Head(in[TheServer]).from \in Users
             /\ Head(in[TheServer]).blob \in Blob
  <2>1. Less(TheServer)
    BY <1>1, <1>3, OneLess DEF ServerHear
  <2>2. QED BY <1>3, <2>1, EventFields DEF Less, ServerHear, TypeInv
<1>4. ASSUME ServerReply
      PROVE  /\ vFrom \in Users /\ vHeard \in Blob
             /\ \/ UNCHANGED in
                \/ vFrom \in up /\ More(vFrom, Data(TheServer, vHeard))
                \/ vFrom \notin up /\ More(TheServer, Reset)
  <2>1. vFrom \in Users /\ vHeard \in Blob
    BY <1>4 DEF ServerReply, TypeInv, TypeOK
  <2>2. Data(TheServer, vHeard) \in Event /\ Reset \in Event /\ vFrom \in Address
    BY <1>1, <2>1, EventFields
  <2>3. ASSUME in' = [in EXCEPT ![vFrom] = Append(@, Data(TheServer, vHeard))]
        PROVE  More(vFrom, Data(TheServer, vHeard))
    BY <2>2, <2>3, <1>1, OneMore
  <2>4. ASSUME in' = [in EXCEPT ![TheServer] = Append(@, Reset)]
        PROVE  More(TheServer, Reset)
    BY <2>2, <2>4, <1>1, OneMore
  <2>5. QED BY <1>4, <2>1, <2>3, <2>4 DEF ServerReply, Send, Lose
<1>5. QED BY <1>2, <1>3, <1>4

LEMMA ClientMail ==
  ASSUME ToolsAssumption, NetworkAssumption, TypeInv, NEW c \in Users
  PROVE  /\ ClientGone(c) => Closed(c)
         /\ ClientAnswered(c) => Less(c) /\ Head(in[c]).blob \in Blob
         /\ ClientAsk(c) => /\ asked[c] + 1 \in Blob
                            /\ \/ UNCHANGED in
                               \/ More(TheServer, Data(c, asked[c] + 1))
                               \/ More(c, Reset)
<1>1. /\ InType /\ TheServer \in Address /\ Users \subseteq Address
      /\ Nowhere \notin Address /\ TheServer \notin Users
      /\ Blob = 1 .. MaxAsked /\ MaxAsked \in Nat
  BY Parts
<1>2. ASSUME ClientGone(c) PROVE Closed(c)
  BY <1>1, <1>2, NoneLeft DEF ClientGone, Gone
<1>3. ASSUME ClientAnswered(c) PROVE Less(c) /\ Head(in[c]).blob \in Blob
  <2>1. Less(c)
    BY <1>1, <1>3, OneLess DEF ClientAnswered
  <2>2. QED BY <1>3, <2>1, EventFields DEF Less, ClientAnswered
<1>4. ASSUME ClientAsk(c)
      PROVE  /\ asked[c] + 1 \in Blob
             /\ \/ UNCHANGED in
                \/ More(TheServer, Data(c, asked[c] + 1))
                \/ More(c, Reset)
  <2>1. asked[c] + 1 \in Blob
    BY <1>1, <1>4 DEF ClientAsk, TypeInv, TypeOK
  <2>2. Data(c, asked[c] + 1) \in Event /\ Reset \in Event /\ c \in Address
    BY <1>1, <2>1, EventFields
  <2>3. ASSUME in' = [in EXCEPT ![TheServer] = Append(@, Data(c, asked[c] + 1))]
        PROVE  More(TheServer, Data(c, asked[c] + 1))
    BY <2>2, <2>3, <1>1, OneMore
  <2>4. ASSUME in' = [in EXCEPT ![c] = Append(@, Reset)]
        PROVE  More(c, Reset)
    BY <2>2, <2>4, <1>1, OneMore
  <2>5. QED BY <1>4, <2>1, <2>3, <2>4 DEF ClientAsk, Send, Lose
<1>5. QED BY <1>2, <1>3, <1>4

\* The steps of the server, and of one client.
ServerNext == ServerStart \/ ServerQuit \/ ServerStep \/ KeyHit

ClientNext(c) ==
  \/ ClientStart(c) \/ ClientQuit(c) \/ ClientAsk(c) \/ ClientAskFails(c) \/ ClientStep(c)

LEMMA ServerTypeStep ==
  ASSUME ToolsAssumption, NetworkAssumption, TypeInv, ServerNext
  PROVE  TypeInv'
<1>1. /\ InType /\ TheServer \in Address /\ Users \subseteq Address
      /\ Nowhere \notin Address /\ TheServer \notin Users
      /\ Blob = 1 .. MaxAsked /\ MaxAsked \in Nat
  BY Parts
<1>2. CASE ServerStart
  BY <1>1, <1>2 DEF ServerStart, NotRunning, TypeInv, TypeOK, clientVars
<1>3. ASSUME NEW place \in NotRunning, ServerGone(place)
      PROVE  TypeInv'
  <2>1. Closed(TheServer)
    BY <1>3, ServerMail
  <2>2. TypeOK'
    BY <1>1, <1>3, <2>1 DEF Closed, ServerGone, Gone, TypeInv, TypeOK, InType, clientVars
  <2>3. QED BY <1>1, <1>3, <2>1, <2>2 DEF Closed, ServerGone, Gone, TypeInv, TypeOK, clientVars
<1>4. CASE ServerQuit
  BY <1>3, <1>4 DEF ServerQuit, NotRunning
<1>5. CASE ServerHear
  <2>1. /\ Less(TheServer)
        /\ Head(in[TheServer]).from \in Users
        /\ Head(in[TheServer]).blob \in Blob
    BY <1>5, ServerMail
  <2>2. TypeOK'
    BY <1>1, <1>5, <2>1 DEF Less, ServerHear, RepliesTo, TypeInv, TypeOK, InType, clientVars
  <2>3. \A j \in 1 .. Len(in'[TheServer]) :
          in'[TheServer][j].kind = "data" => in'[TheServer][j].from \in Users
    BY <2>1 DEF Less, TypeInv
  <2>4. QED BY <1>1, <1>5, <2>1, <2>2, <2>3 DEF ServerHear, RepliesTo, NotRunning, TypeInv, TypeOK, clientVars
<1>6. CASE ServerFails
  BY <1>3, <1>6 DEF ServerFails, NotRunning
<1>7. CASE NothingHeard \/ NoKey \/ KeyHit
  BY <1>1, <1>7 DEF NothingHeard, NoKey, KeyHit, NotRunning, TypeInv, TypeOK, clientVars
<1>8. CASE ServerReply
  <2>1. /\ vFrom \in Users /\ vHeard \in Blob
        /\ UNCHANGED in \/ More(vFrom, Data(TheServer, vHeard)) \/ More(TheServer, Reset)
    BY <1>8, ServerMail
  <2>2. /\ up' = up /\ polls' = polls /\ vFrom' = vFrom /\ vHeard' = vHeard
        /\ cPc' = cPc /\ asked' = asked /\ got' = got
        /\ vPc = "reply" /\ vPc' = "listen" /\ dropped' \subseteq Users
    BY <1>8, <2>1 DEF ServerReply, clientVars, TypeInv, TypeOK
  <2>3. /\ InType'
        /\ \A j \in 1 .. Len(in'[TheServer]) :
             in'[TheServer][j].kind = "data" => in'[TheServer][j].from \in Users
    <3>1. CASE UNCHANGED in
      BY <3>1, <1>1 DEF InType, TypeInv
    <3>2. CASE More(vFrom, Data(TheServer, vHeard))
      BY <3>2, <1>1, <2>1 DEF More, Kept, TypeInv
    <3>3. CASE More(TheServer, Reset)
      BY <3>3, <1>1, EventFields DEF More, Kept, TypeInv
    <3>4. QED BY <2>1, <3>1, <3>2, <3>3
  <2>4. QED BY <1>1, <2>1, <2>2, <2>3 DEF NotRunning, TypeInv, TypeOK, InType
<1>9. CASE ReplyToNobody \/ ServerReplyFails
  BY <1>3, <1>9 DEF ReplyToNobody, ServerReplyFails, NotRunning
<1>10. QED BY <1>2, <1>4, <1>5, <1>6, <1>7, <1>8, <1>9 DEF ServerNext, ServerStep

LEMMA ClientTypeStep ==
  ASSUME ToolsAssumption, NetworkAssumption, TypeInv, NEW c \in Users, ClientNext(c)
  PROVE  TypeInv'
<1>1. /\ InType /\ TheServer \in Address /\ Users \subseteq Address
      /\ Nowhere \notin Address /\ TheServer \notin Users
      /\ Blob = 1 .. MaxAsked /\ MaxAsked \in Nat
  BY Parts
<1>2. CASE ClientStart(c)
  BY <1>1, <1>2 DEF ClientStart, ToPlace, TypeInv, TypeOK, serverVars
<1>3. ASSUME ClientGone(c) PROVE TypeInv'
  <2>1. Closed(c)
    BY <1>3, ClientMail
  <2>2. TypeOK'
    BY <1>1, <1>3, <2>1 DEF Closed, ClientGone, ToPlace, Gone, TypeInv, TypeOK, InType, serverVars
  <2>3. \A j \in 1 .. Len(in'[TheServer]) :
          in'[TheServer][j].kind = "data" => in'[TheServer][j].from \in Users
    BY <1>1, <2>1 DEF Closed, Kept, TypeInv
  <2>4. QED BY <1>1, <1>3, <2>2, <2>3 DEF ClientGone, ToPlace, Gone, TypeInv, TypeOK, serverVars
<1>4. CASE ClientQuit(c) \/ ClientAskFails(c)
  BY <1>3, <1>4 DEF ClientQuit, ClientAskFails
<1>5. CASE ClientAsk(c)
  <2>1. /\ asked[c] + 1 \in 0 .. MaxAsked
        /\ UNCHANGED in \/ More(TheServer, Data(c, asked[c] + 1)) \/ More(c, Reset)
    BY <1>1, <1>5, ClientMail
  <2>2. /\ up' = up /\ polls' = polls /\ vPc' = vPc /\ vFrom' = vFrom
        /\ vHeard' = vHeard /\ got' = got /\ dropped' \subseteq Users
        /\ cPc[c] = "ask" /\ cPc' = [cPc EXCEPT ![c] = "wait"]
        /\ asked' = [asked EXCEPT ![c] = @ + 1]
    BY <1>5 DEF ClientAsk, ToPlace, serverVars, TypeInv, TypeOK
  <2>3. /\ InType'
        /\ \A j \in 1 .. Len(in'[TheServer]) :
             in'[TheServer][j].kind = "data" => in'[TheServer][j].from \in Users
    <3>1. CASE UNCHANGED in
      BY <3>1, <1>1 DEF InType, TypeInv
    <3>2. CASE More(TheServer, Data(c, asked[c] + 1))
      BY <3>2, <1>1, EventFields DEF More, Kept, TypeInv
    <3>3. CASE More(c, Reset)
      BY <3>3, <1>1, EventFields DEF More, Kept, TypeInv
    <3>4. QED BY <2>1, <3>1, <3>2, <3>3
  <2>4. QED BY <1>1, <2>1, <2>2, <2>3 DEF TypeInv, TypeOK, InType
<1>6. CASE ClientAnswered(c)
  <2>1. Less(c) /\ Head(in[c]).blob \in Blob
    BY <1>6, ClientMail
  <2>2. TypeOK'
    BY <1>1, <1>6, <2>1 DEF Less, ClientAnswered, ToPlace, TypeInv, TypeOK, InType, serverVars
  <2>3. \A j \in 1 .. Len(in'[TheServer]) :
          in'[TheServer][j].kind = "data" => in'[TheServer][j].from \in Users
    BY <1>1, <2>1 DEF Less, Kept, TypeInv
  <2>4. QED BY <1>1, <1>6, <2>2, <2>3 DEF ClientAnswered, ToPlace, TypeInv, TypeOK, serverVars
<1>7. CASE ClientFails(c)
  BY <1>3, <1>7 DEF ClientFails
<1>8. CASE ClientTimesOut(c) \/ ClientSlept(c)
  BY <1>1, <1>8 DEF ClientTimesOut, ClientSlept, GoAgain, ToPlace, TypeInv, TypeOK, serverVars
<1>9. QED BY <1>2, <1>4, <1>5, <1>6, <1>7, <1>8 DEF ClientNext, ClientStep

LEMMA NextCases ==
  ASSUME [Next]_vars
  PROVE  ServerNext \/ (\E c \in Users : ClientNext(c)) \/ UNCHANGED vars
BY Zenon DEF Next, ServerNext, ClientNext

LEMMA TypeStep ==
  ASSUME ToolsAssumption, NetworkAssumption, TypeInv, [Next]_vars
  PROVE  TypeInv'
<1>1. CASE UNCHANGED vars
  BY <1>1 DEF vars, serverVars, clientVars, TypeInv, TypeOK
<1>2. QED BY <1>1, NextCases, ServerTypeStep, ClientTypeStep

LEMMA TypeAlways == Spec => []TypeInv
<1>1. Init => TypeInv
  BY ToolsAssumption, TypeInit
<1>2. TypeInv /\ [Next]_vars => TypeInv'
  BY ToolsAssumption, NetworkAssumption, TypeStep
<1>3. QED BY <1>1, <1>2, PTL DEF Spec

\* TypeOK: every socket holds events, every client and the server is where the
\* code can be, whatever is lost, quit or started again.
THEOREM TypeCorrect == Spec => []TypeOK
BY TypeAlways, PTL DEF TypeInv
-----------------------------------------------------------------------------
\* A client asks again only when it has its answer.
OneShort(c) == Len(got[c]) = asked[c] - 1

CountInv ==
  \A c \in Users :
    /\ cPc[c] = "off" => asked[c] = 0
    /\ cPc[c] \in {"off", "ask"} => Len(got[c]) = asked[c]
    /\ cPc[c] \in {"wait", "sleep"} => OneShort(c)

\* The server's steps leave the clients as they are.
LEMMA ServerAside ==
  ASSUME ServerNext
  PROVE  cPc' = cPc /\ asked' = asked /\ got' = got /\ polls' = polls
BY DEF ServerNext, ServerStart, ServerQuit, ServerStep, ServerHear, ServerFails, NothingHeard,
       KeyHit, NoKey, ServerReply, ReplyToNobody, ServerReplyFails, ServerGone, clientVars

LEMMA ClientAside ==
  ASSUME NEW c \in Users, ClientNext(c)
  PROVE  UNCHANGED serverVars /\ polls' = polls
BY DEF ClientNext, ClientStart, ClientQuit, ClientAsk, ClientAskFails, ClientStep, ClientAnswered,
       ClientFails, ClientTimesOut, ClientSlept, ClientGone

\* What a client's step does to the counts.
LEMMA ClientCounts ==
  ASSUME ToolsAssumption, NetworkAssumption, TypeInv, NEW c \in Users, ClientNext(c)
  PROVE  /\ \A d \in Users \ {c} : cPc'[d] = cPc[d] /\ asked'[d] = asked[d] /\ got'[d] = got[d]
         /\ ClientAsk(c) => /\ got' = got /\ asked'[c] = asked[c] + 1
                            /\ cPc[c] = "ask" /\ cPc'[c] = "wait"
         /\ ClientAnswered(c) => /\ asked' = asked
                                 /\ Len(got'[c]) = Len(got[c]) + 1
                                 /\ \A k \in 1 .. Len(got[c]) : got'[c][k] = got[c][k]
                                 /\ got'[c][Len(got[c]) + 1] = Head(in[c]).blob
                                 /\ cPc[c] = "wait" /\ cPc'[c] = "ask"
         /\ ~ClientAsk(c) /\ ~ClientAnswered(c) => asked' = asked /\ got' = got
<1>1. asked \in [Users -> 0 .. MaxAsked] /\ got \in [Users -> Seq(Blob)]
      /\ cPc \in [Users -> {"off", "ask", "wait", "sleep", "ended"}]
  BY DEF TypeInv, TypeOK
<1>2. CASE ClientAsk(c)
  <2>1. ~ClientAnswered(c)
    BY <1>2 DEF ClientAsk, ClientAnswered
  <2>2. QED BY <1>1, <1>2, <2>1 DEF ClientAsk, ToPlace
<1>3. CASE ClientAnswered(c)
  <2>1. ~ClientAsk(c)
    BY <1>3 DEF ClientAsk, ClientAnswered
  <2>2. Head(in[c]).blob \in Blob
    BY <1>3, ClientMail
  <2>3. got'[c] = Append(got[c], Head(in[c]).blob)
    BY <1>1, <1>3 DEF ClientAnswered
  <2>4. /\ Len(got'[c]) = Len(got[c]) + 1
        /\ \A k \in 1 .. Len(got[c]) : got'[c][k] = got[c][k]
        /\ got'[c][Len(got[c]) + 1] = Head(in[c]).blob
    BY <1>1, <2>2, <2>3, AppendProperties
  <2>5. QED BY <1>1, <1>3, <2>1, <2>4 DEF ClientAnswered, ToPlace
<1>4. CASE ~ClientAsk(c) /\ ~ClientAnswered(c)
  BY <1>1, <1>4 DEF ClientNext, ClientStep, ClientStart, ClientQuit, ClientAskFails, ClientFails, ClientGone,
                    ClientTimesOut, ClientSlept, ToPlace
<1>5. QED BY <1>2, <1>3, <1>4

LEMMA CountStep ==
  ASSUME ToolsAssumption, NetworkAssumption, TypeInv, CountInv, [Next]_vars
  PROVE  CountInv'
<1>1. CASE UNCHANGED vars
  BY <1>1 DEF vars, serverVars, clientVars, CountInv, OneShort
<1>2. CASE ServerNext
  BY <1>2, ServerAside DEF CountInv, OneShort
<1>3. ASSUME NEW c \in Users, ClientNext(c) PROVE CountInv'
  <2>1. \A d \in Users \ {c} : cPc'[d] = cPc[d] /\ asked'[d] = asked[d] /\ got'[d] = got[d]
    BY <1>3, ClientCounts
  <2>2. asked[c] \in Nat /\ Len(got[c]) \in Nat /\ cPc \in [Users -> {"off", "ask", "wait", "sleep", "ended"}]
    BY Parts, LenProperties DEF TypeInv, TypeOK
  <2>3. /\ cPc'[c] = "off" => asked'[c] = 0
        /\ cPc'[c] \in {"off", "ask"} => Len(got'[c]) = asked'[c]
        /\ cPc'[c] \in {"wait", "sleep"} => Len(got'[c]) = asked'[c] - 1
    <3>1. CASE ClientAsk(c)
      BY <1>3, <2>2, <3>1, ClientCounts DEF CountInv
    <3>2. CASE ClientAnswered(c)
      BY <1>3, <2>2, <3>2, ClientCounts DEF CountInv, OneShort
    <3>3. CASE ~ClientAsk(c) /\ ~ClientAnswered(c)
      <4>1. asked' = asked /\ got' = got
        BY <1>3, <3>3, ClientCounts
      <4>2. QED BY <1>3, <2>2, <3>3, <4>1 DEF CountInv, OneShort, ClientNext, ClientStep,
                  ClientStart, ClientQuit, ClientAskFails, ClientFails, ClientGone, ClientTimesOut, ClientSlept, ToPlace
    <3>4. QED BY <3>1, <3>2, <3>3
  <2>4. QED BY <2>1, <2>3 DEF CountInv, OneShort
<1>4. QED BY <1>1, <1>2, <1>3, NextCases
-----------------------------------------------------------------------------
\* Nothing is on its way that was not asked.
BoundInv ==
  /\ \A j \in 1 .. Len(in[TheServer]) : in[TheServer][j].kind = "data" =>
       in[TheServer][j].blob <= asked[in[TheServer][j].from]
  /\ \A c \in Users : \A j \in 1 .. Len(in[c]) :
       in[c][j].kind = "data" => in[c][j].blob <= asked[c]
  /\ vFrom # Nowhere => vHeard <= asked[vFrom]
  /\ \A c \in Users : \A k \in 1 .. Len(got[c]) : got[c][k] <= k

LEMMA BoundStep ==
  ASSUME ToolsAssumption, NetworkAssumption, TypeInv, CountInv, BoundInv, [Next]_vars
  PROVE  BoundInv'
<1>1. /\ InType /\ TheServer \in Address /\ Users \subseteq Address
      /\ Nowhere \notin Address /\ TheServer \notin Users
      /\ Blob = 1 .. MaxAsked /\ MaxAsked \in Nat
  BY Parts
<1>2. /\ \A c \in Users : asked[c] \in Nat /\ Len(got[c]) \in Nat
      /\ vFrom \in Users \cup {Nowhere}
  BY Parts, LenProperties DEF TypeInv, TypeOK
<1>3. CASE UNCHANGED vars
  BY <1>3 DEF vars, serverVars, clientVars, BoundInv
<1>4. CASE ServerNext
  <2>1. asked' = asked /\ got' = got
    BY <1>4, ServerAside
  <2>2. ASSUME NEW place, ServerGone(place) PROVE BoundInv'
    <3>1. Closed(TheServer) /\ vFrom' = vFrom /\ vHeard' = vHeard
      BY <2>2, ServerMail DEF ServerGone
    <3>2. QED BY <1>1, <2>1, <3>1 DEF Closed, Kept, BoundInv
  <2>3. CASE ServerHear
    <3>1. /\ Less(TheServer)
          /\ Head(in[TheServer]).from \in Users
          /\ Head(in[TheServer]).kind = "data"
          /\ vFrom' = Head(in[TheServer]).from /\ vHeard' = Head(in[TheServer]).blob
      BY <2>3, ServerMail DEF ServerHear, RepliesTo
    <3>2. vHeard' <= asked[vFrom']
      BY <3>1 DEF Less, BoundInv
    <3>3. QED
      <4>1. ASSUME NEW j \in 1 .. Len(in'[TheServer]), in'[TheServer][j].kind = "data"
            PROVE  in'[TheServer][j].blob <= asked'[in'[TheServer][j].from]
        BY <4>1, <2>1, <3>1 DEF Less, BoundInv
      <4>2. ASSUME NEW c \in Users, NEW j \in 1 .. Len(in'[c]), in'[c][j].kind = "data"
            PROVE  in'[c][j].blob <= asked'[c]
        BY <4>2, <1>1, <2>1, <3>1 DEF Less, Kept, BoundInv
      <4>3. QED BY <4>1, <4>2, <2>1, <3>2 DEF BoundInv
  <2>4. CASE ServerReply
    <3>1. /\ vFrom \in Users /\ vHeard \in Blob
          /\ UNCHANGED in \/ More(vFrom, Data(TheServer, vHeard)) \/ More(TheServer, Reset)
          /\ vFrom' = vFrom /\ vHeard' = vHeard
      BY <2>4, ServerMail DEF ServerReply
    <3>2. CASE UNCHANGED in
      BY <2>1, <3>1, <3>2 DEF BoundInv
    <3>3. CASE More(vFrom, Data(TheServer, vHeard))
      <4>1. ASSUME NEW j \in 1 .. Len(in'[TheServer]), in'[TheServer][j].kind = "data"
            PROVE  in'[TheServer][j].blob <= asked'[in'[TheServer][j].from]
        BY <4>1, <1>1, <2>1, <3>1, <3>3 DEF More, Kept, BoundInv
      <4>2. ASSUME NEW c \in Users, NEW j \in 1 .. Len(in'[c]), in'[c][j].kind = "data"
            PROVE  in'[c][j].blob <= asked'[c]
        <5>1. vHeard <= asked[vFrom]
          BY <1>1, <3>1 DEF BoundInv
        <5>2. CASE Kept(c, j)
          BY <4>2, <5>2, <2>1 DEF Kept, BoundInv
        <5>3. CASE c = vFrom /\ in'[c][j] = Data(TheServer, vHeard)
          BY <5>1, <5>3, <2>1, EventFields
        <5>4. QED BY <1>1, <3>3, <5>2, <5>3 DEF More
      <4>3. QED BY <4>1, <4>2, <2>1, <3>1 DEF BoundInv
    <3>4. CASE More(TheServer, Reset)
      BY <1>1, <2>1, <3>1, <3>4, EventFields DEF More, Kept, BoundInv
    <3>5. QED BY <3>1, <3>2, <3>3, <3>4
  <2>5. CASE ServerStart \/ NothingHeard \/ NoKey \/ KeyHit
    BY <2>1, <2>5 DEF ServerStart, NothingHeard, NoKey, KeyHit, BoundInv
  <2>6. QED BY <1>4, <2>2, <2>3, <2>4, <2>5
            DEF ServerNext, ServerStep, ServerQuit, ServerFails, ReplyToNobody, ServerReplyFails,
              NotRunning
<1>5. ASSUME NEW c \in Users, ClientNext(c) PROVE BoundInv'
  <2>1. vFrom' = vFrom /\ vHeard' = vHeard
    BY <1>5, ClientAside DEF serverVars
  <2>2. \A d \in Users : asked[d] <= asked'[d] /\ asked'[d] \in Nat
    <3>1. asked' = asked \/ asked'[c] = asked[c] + 1
      BY <1>5, ClientCounts
    <3>2. \A d \in Users \ {c} : asked'[d] = asked[d]
      BY <1>5, ClientCounts
    <3>3. QED BY <1>2, <3>1, <3>2
  <2>3. vFrom' # Nowhere => vHeard' <= asked'[vFrom']
    BY <1>1, <1>2, <2>1, <2>2 DEF BoundInv, TypeInv
  <2>4. ASSUME NEW x \in Address, NEW j \in 1 .. Len(in'[x]), in'[x][j].kind = "data"
        PROVE  \/ j \in 1 .. Len(in[x]) /\ in'[x][j] = in[x][j]
               \/ x = c /\ j + 1 \in 1 .. Len(in[c]) /\ in'[x][j] = in[c][j + 1]
               \/ /\ x = TheServer
                  /\ in'[x][j].from = c /\ in'[x][j].blob = asked'[c]
    <3>1. CASE ClientGone(c)
      BY <3>1, <2>4, ClientMail DEF Closed, Kept
    <3>2. CASE ClientAnswered(c)
      BY <3>2, <2>4, ClientMail DEF Less, Kept
    <3>3. CASE ClientAsk(c)
      <4>1. asked'[c] = asked[c] + 1
        BY <1>5, <3>3, ClientCounts
      <4>2. UNCHANGED in \/ More(TheServer, Data(c, asked[c] + 1)) \/ More(c, Reset)
        BY <3>3, ClientMail
      <4>3. QED BY <4>1, <4>2, <2>4, EventFields DEF More, Kept
    <3>4. CASE ClientStart(c) \/ ClientTimesOut(c) \/ ClientSlept(c)
      BY <3>4 DEF ClientStart, ClientTimesOut, ClientSlept, GoAgain
    <3>5. QED BY <1>5, <3>1, <3>2, <3>3, <3>4
              DEF ClientNext, ClientStep, ClientQuit, ClientAskFails, ClientFails
  <2>5. ASSUME NEW j \in 1 .. Len(in'[TheServer]), in'[TheServer][j].kind = "data"
        PROVE  in'[TheServer][j].blob <= asked'[in'[TheServer][j].from]
    <3>1. CASE j \in 1 .. Len(in[TheServer]) /\ in'[TheServer][j] = in[TheServer][j]
      <4>1. /\ in[TheServer][j].from \in Users /\ in[TheServer][j].blob \in Nat
            /\ in[TheServer][j].blob <= asked[in[TheServer][j].from]
        BY <1>1, <2>5, <3>1, EventFields DEF InType, TypeInv, BoundInv
      <4>2. QED BY <1>2, <2>2, <3>1, <4>1
    <3>2. CASE in'[TheServer][j].from = c /\ in'[TheServer][j].blob = asked'[c]
      BY <2>2, <3>2
    <3>3. QED BY <1>1, <2>4, <2>5, <3>1, <3>2
  <2>6. ASSUME NEW d \in Users, NEW j \in 1 .. Len(in'[d]), in'[d][j].kind = "data"
        PROVE  in'[d][j].blob <= asked'[d]
    <3>1. PICK h \in 1 .. Len(in[d]) : in'[d][j] = in[d][h]
      BY <1>1, <2>4, <2>6
    <3>2. in[d][h].blob \in Nat /\ in[d][h].blob <= asked[d]
      BY <1>1, <2>6, <3>1, EventFields DEF InType, BoundInv
    <3>3. QED BY <1>2, <2>2, <3>1, <3>2
  <2>7. ASSUME NEW d \in Users, NEW k \in 1 .. Len(got'[d]) PROVE got'[d][k] <= k
    <3>1. CASE got'[d] = got[d]
      BY <3>1 DEF BoundInv
    <3>2. CASE ClientAnswered(c) /\ d = c
      <4>1. Less(c) /\ Head(in[c]).kind = "data"
        BY <3>2, ClientMail DEF ClientAnswered
      <4>2. Head(in[c]).blob <= asked[c]
        BY <4>1 DEF Less, BoundInv
      <4>3. asked[c] = Len(got[c]) + 1
        BY <1>2, <1>5, <3>2, ClientCounts DEF CountInv, OneShort
      <4>4. k \in 1 .. Len(got[c]) \/ k = Len(got[c]) + 1
        BY <1>2, <1>5, <3>2, ClientCounts
      <4>5. QED BY <1>5, <3>2, <4>2, <4>3, <4>4, ClientCounts DEF BoundInv
    <3>3. QED BY <1>5, <3>1, <3>2, ClientCounts
  <2>8. QED BY <2>3, <2>5, <2>6, <2>7 DEF BoundInv
<1>6. QED BY <1>3, <1>4, <1>5, NextCases
-----------------------------------------------------------------------------
\* Whether event e is a question of client c.
IsAsk(e, c) == e.kind = "data" /\ e.from = c

\* Where the answer that a client still lacks can be, with the server that
\* waits: in its question, in the server's hand, or on its way; and nowhere
\* twice.
InHand(c) == vPc = "reply" /\ vFrom = c

NoAnswer(c) == \A j \in 1 .. Len(in[c]) : in[c][j].kind # "data"

QuestionTurn(c) ==
  \A j \in 1 .. Len(in[TheServer]) : IsAsk(in[TheServer][j], c) =>
    /\ OneShort(c) /\ in[TheServer][j].blob = asked[c]
    /\ ~InHand(c) /\ NoAnswer(c)
    /\ \A h \in 1 .. Len(in[TheServer]) : IsAsk(in[TheServer][h], c) => h = j

HandTurn(c) == InHand(c) => OneShort(c) /\ vHeard = asked[c] /\ NoAnswer(c)

AnswerTurn(c) ==
  \A j \in 1 .. Len(in[c]) : in[c][j].kind = "data" =>
    /\ OneShort(c) /\ in[c][j].blob = asked[c]
    /\ \A h \in 1 .. Len(in[c]) : in[c][h].kind = "data" => h = j

Turn(c) ==
  /\ QuestionTurn(c) /\ HandTurn(c) /\ AnswerTurn(c)
  /\ \A k \in 1 .. Len(got[c]) : got[c][k] = k

TurnInv ==
  ~polls =>
    /\ vPc # "keys" /\ (vPc = "reply" => vFrom # Nowhere)
    /\ \A c \in Users : Turn(c)

\* A step that brings a client no question or answer keeps its turn.
Same(c) ==
  /\ asked'[c] = asked[c] /\ got'[c] = got[c]
  /\ InHand(c)' => InHand(c) /\ vHeard' = vHeard
  /\ \A j \in 1 .. Len(in'[TheServer]) : IsAsk(in'[TheServer][j], c) => Kept(TheServer, j)
  /\ \A j \in 1 .. Len(in'[c]) : in'[c][j].kind = "data" => Kept(c, j)

LEMMA TurnKept ==
  ASSUME NEW c \in Users, Turn(c), Same(c)
  PROVE  Turn(c)'
<1>1. NoAnswer(c) => NoAnswer(c)'
  BY DEF NoAnswer, Same, Kept
<1>2. OneShort(c) => OneShort(c)'
  BY DEF OneShort, Same
<1>3. QuestionTurn(c)'
  BY <1>1, <1>2 DEF Turn, QuestionTurn, Same, Kept
<1>4. HandTurn(c)'
  BY <1>1, <1>2 DEF Turn, HandTurn, Same
<1>5. AnswerTurn(c)'
  BY <1>2 DEF Turn, AnswerTurn, Same, Kept
<1>6. QED BY <1>3, <1>4, <1>5 DEF Turn, Same

LEMMA TurnServerStep ==
  ASSUME ToolsAssumption, NetworkAssumption, TypeInv, TurnInv, ~polls, ServerNext
  PROVE  TurnInv'
<1>1. /\ InType /\ TheServer \in Address /\ Users \subseteq Address
      /\ Nowhere \notin Address /\ TheServer \notin Users
  BY Parts
<1>2. /\ vPc # "keys" /\ (vPc = "reply" => vFrom # Nowhere)
      /\ \A c \in Users : Turn(c)
  BY DEF TurnInv
<1>3. cPc' = cPc /\ asked' = asked /\ got' = got /\ polls' = polls
  BY ServerAside
<1>4. CASE ServerStart
  <2>1. vPc' = "listen" /\ in' = in
    BY <1>4 DEF ServerStart
  <2>2. \A c \in Users : Same(c)
    BY <1>1, <1>3, <2>1 DEF Same, InHand, Kept
  <2>3. QED BY <1>2, <2>1, <2>2, TurnKept DEF TurnInv
<1>5. ASSUME NEW place \in NotRunning, ServerGone(place)
      PROVE  TurnInv'
  <2>1. Closed(TheServer) /\ vPc' = place
    BY <1>5, ServerMail DEF ServerGone
  <2>2. \A c \in Users : Same(c)
    BY <1>1, <1>3, <1>5, <2>1 DEF Same, InHand, Closed, NotRunning
  <2>3. QED BY <1>2, <1>5, <2>1, <2>2, TurnKept DEF TurnInv, NotRunning
<1>6. CASE ServerHear
  <2>1. /\ Less(TheServer)
        /\ Head(in[TheServer]).from \in Users
        /\ Head(in[TheServer]).kind = "data"
        /\ vFrom' = Head(in[TheServer]).from /\ vHeard' = Head(in[TheServer]).blob
        /\ vPc = "listen" /\ vPc' = "reply"
    BY <1>6, ServerMail DEF ServerHear, RepliesTo
  <2>2. ASSUME NEW c \in Users PROVE Turn(c)'
    <3>1. Turn(c)
      BY <1>2
    <3>2. \A j \in 1 .. Len(in'[c]) : Kept(c, j)
      BY <1>1, <2>1 DEF Less
    <3>3. NoAnswer(c) => NoAnswer(c)'
      BY <3>2 DEF NoAnswer, Kept
    <3>4. OneShort(c) => OneShort(c)'
      BY <1>3 DEF OneShort
    <3>5. HandTurn(c)'
      <4>1. CASE vFrom' = c
        <5>1. 1 \in 1 .. Len(in[TheServer]) /\ IsAsk(in[TheServer][1], c)
              /\ vHeard' = in[TheServer][1].blob
          BY <2>1, <4>1 DEF Less, IsAsk
        <5>2. OneShort(c) /\ vHeard' = asked[c] /\ NoAnswer(c)
          BY <3>1, <5>1 DEF Turn, QuestionTurn
        <5>3. QED BY <1>3, <3>3, <3>4, <5>2 DEF HandTurn
      <4>2. CASE vFrom' # c
        BY <4>2 DEF HandTurn, InHand
      <4>3. QED BY <4>1, <4>2
    <3>6. QuestionTurn(c)'
      <4>1. SUFFICES ASSUME NEW j \in 1 .. Len(in'[TheServer]), IsAsk(in'[TheServer][j], c)
            PROVE  /\ OneShort(c)' /\ in'[TheServer][j].blob = asked'[c]
                   /\ ~InHand(c)' /\ NoAnswer(c)'
                   /\ \A h \in 1 .. Len(in'[TheServer]) : IsAsk(in'[TheServer][h], c) => h = j
        BY DEF QuestionTurn
      <4>2. /\ j + 1 \in 1 .. Len(in[TheServer]) /\ j + 1 # 1
            /\ in'[TheServer][j] = in[TheServer][j + 1]
        BY <2>1 DEF Less
      <4>3. /\ OneShort(c) /\ in[TheServer][j + 1].blob = asked[c] /\ NoAnswer(c)
            /\ \A h \in 1 .. Len(in[TheServer]) : IsAsk(in[TheServer][h], c) => h = j + 1
        BY <3>1, <4>1, <4>2 DEF Turn, QuestionTurn
      <4>4. vFrom' # c
        <5>1. 1 \in 1 .. Len(in[TheServer]) /\ ~IsAsk(in[TheServer][1], c)
          BY <2>1, <4>2, <4>3 DEF Less
        <5>2. QED BY <2>1, <5>1 DEF Less, IsAsk
      <4>5. ASSUME NEW h \in 1 .. Len(in'[TheServer]), IsAsk(in'[TheServer][h], c)
            PROVE  h = j
        <5>1. h + 1 \in 1 .. Len(in[TheServer]) /\ in'[TheServer][h] = in[TheServer][h + 1]
          BY <2>1 DEF Less
        <5>2. h + 1 = j + 1
          BY <4>3, <4>5, <5>1
        <5>3. QED BY <5>2
      <4>6. QED BY <1>3, <3>3, <3>4, <4>2, <4>3, <4>4, <4>5 DEF InHand
    <3>7. AnswerTurn(c)'
      BY <1>3, <3>1, <3>2, <3>4 DEF Turn, AnswerTurn, Kept
    <3>8. QED BY <1>3, <3>1, <3>5, <3>6, <3>7 DEF Turn
  <2>3. QED BY <1>1, <2>1, <2>2 DEF TurnInv
<1>7. CASE ServerReply
  <2>1. /\ vFrom \in Users /\ vHeard \in Blob
        /\ UNCHANGED in \/ More(vFrom, Data(TheServer, vHeard)) \/ More(TheServer, Reset)
        /\ vPc = "reply" /\ vPc' = "listen"
    BY <1>7, ServerMail DEF ServerReply
  <2>2. CASE UNCHANGED in \/ More(TheServer, Reset)
    <3>1. \A c \in Users : Same(c)
      BY <1>1, <1>3, <2>1, <2>2, EventFields DEF Same, InHand, IsAsk, More, Kept
    <3>2. QED BY <1>2, <2>1, <3>1, TurnKept DEF TurnInv
  <2>3. CASE More(vFrom, Data(TheServer, vHeard))
    <3>1. ASSUME NEW c \in Users \ {vFrom} PROVE Turn(c)'
      <4>1. Same(c)
        BY <1>1, <1>3, <2>1, <2>3 DEF Same, InHand, More
      <4>2. QED BY <1>2, <4>1, TurnKept
    <3>2. Turn(vFrom)'
      <4>1. Turn(vFrom) /\ OneShort(vFrom) /\ vHeard = asked[vFrom] /\ NoAnswer(vFrom)
        BY <1>2, <2>1 DEF Turn, HandTurn, InHand
      <4>2. QuestionTurn(vFrom)'
        <5>1. \A j \in 1 .. Len(in[TheServer]) : ~IsAsk(in[TheServer][j], vFrom)
          BY <2>1, <4>1 DEF Turn, QuestionTurn, InHand
        <5>2. \A j \in 1 .. Len(in'[TheServer]) : Kept(TheServer, j)
          BY <1>1, <2>1, <2>3 DEF More
        <5>3. vFrom' = vFrom
          BY <1>7 DEF ServerReply
        <5>4. QED BY <5>1, <5>2, <5>3 DEF QuestionTurn, Kept
      <4>3. HandTurn(vFrom)'
        BY <2>1 DEF HandTurn, InHand
      <4>4. AnswerTurn(vFrom)'
        <5>1. vFrom' = vFrom
          BY <1>7 DEF ServerReply
        <5>2. \A j \in 1 .. Len(in'[vFrom]) : in'[vFrom][j].kind = "data" =>
                j = Len(in[vFrom]) + 1 /\ in'[vFrom][j].blob = vHeard
          BY <1>1, <2>1, <2>3, <4>1, EventFields DEF More, Kept, NoAnswer
        <5>3. QED BY <1>3, <4>1, <5>1, <5>2 DEF AnswerTurn, OneShort
      <4>5. vFrom' = vFrom
        BY <1>7 DEF ServerReply
      <4>6. QED BY <1>3, <4>1, <4>2, <4>3, <4>4, <4>5 DEF Turn
    <3>3. vFrom' = vFrom
      BY <1>7 DEF ServerReply
    <3>4. \A c \in Users : Turn(c)'
      BY <3>1, <3>2, <3>3
    <3>5. QED BY <2>1, <3>4 DEF TurnInv
  <2>4. QED BY <2>1, <2>2, <2>3
<1>8. CASE NothingHeard \/ NoKey \/ KeyHit
  BY <1>2, <1>8 DEF NothingHeard, NoKey, KeyHit
<1>9. QED BY <1>4, <1>5, <1>6, <1>7, <1>8
          DEF ServerNext, ServerStep, ServerQuit, ServerFails, ReplyToNobody, ServerReplyFails,
              NotRunning

LEMMA TurnClientStep ==
  ASSUME ToolsAssumption, NetworkAssumption, TypeInv, CountInv, TurnInv, ~polls,
         NEW c \in Users, ClientNext(c)
  PROVE  TurnInv'
<1>1. /\ InType /\ TheServer \in Address /\ Users \subseteq Address
      /\ Nowhere \notin Address /\ TheServer \notin Users
  BY Parts
<1>2. /\ vPc # "keys" /\ (vPc = "reply" => vFrom # Nowhere)
      /\ \A d \in Users : Turn(d)
  BY DEF TurnInv
<1>3. vPc' = vPc /\ vFrom' = vFrom /\ vHeard' = vHeard
  BY ClientAside DEF serverVars
<1>4. \A d \in Users \ {c} : asked'[d] = asked[d] /\ got'[d] = got[d]
  BY ClientCounts
<1>5. asked[c] \in Nat /\ Len(got[c]) \in Nat
  BY Parts, LenProperties DEF TypeInv, TypeOK
<1>6. ASSUME \A d \in Users : Turn(d)' PROVE TurnInv'
  BY <1>2, <1>3, <1>6 DEF TurnInv
<1>7. ASSUME ClientGone(c) PROVE TurnInv'
  <2>1. Closed(c) /\ asked' = asked /\ got' = got
    BY <1>7, ClientMail DEF ClientGone
  <2>2. \A d \in Users : Same(d)
    BY <1>1, <1>3, <2>1 DEF Same, InHand, Closed
  <2>3. QED BY <1>2, <1>6, <2>2, TurnKept
<1>8. CASE ClientStart(c) \/ ClientTimesOut(c) \/ ClientSlept(c)
  <2>1. in' = in /\ asked' = asked /\ got' = got
    BY <1>8 DEF ClientStart, ClientTimesOut, ClientSlept, GoAgain
  <2>2. \A d \in Users : Same(d)
    BY <1>3, <2>1 DEF Same, InHand, Kept
  <2>3. QED BY <1>2, <1>6, <2>2, TurnKept
<1>9. CASE ClientAsk(c)
  <2>1. /\ asked'[c] = asked[c] + 1 /\ got' = got
        /\ UNCHANGED in \/ More(TheServer, Data(c, asked[c] + 1)) \/ More(c, Reset)
    BY <1>9, ClientMail, ClientCounts
  <2>2. ~OneShort(c) /\ OneShort(c)'
    BY <1>5, <1>9, <2>1 DEF ClientAsk, CountInv, OneShort
  <2>3. /\ \A j \in 1 .. Len(in[TheServer]) : ~IsAsk(in[TheServer][j], c)
        /\ ~InHand(c) /\ NoAnswer(c)
    BY <1>2, <2>2 DEF Turn, QuestionTurn, HandTurn, AnswerTurn, NoAnswer
  <2>4. ~InHand(c)' /\ NoAnswer(c)'
    <3>1. ~InHand(c)'
      BY <1>3, <2>3 DEF InHand
    <3>2. NoAnswer(c)'
      BY <1>1, <2>1, <2>3, EventFields DEF NoAnswer, More, Kept
    <3>3. QED BY <3>1, <3>2
  <2>5. ASSUME NEW j \in 1 .. Len(in'[TheServer]), IsAsk(in'[TheServer][j], c)
        PROVE  j = Len(in[TheServer]) + 1 /\ in'[TheServer][j].blob = asked'[c]
    BY <1>1, <2>1, <2>3, <2>5, EventFields DEF More, Kept, IsAsk
  <2>6. Turn(c)'
    <3>1. QuestionTurn(c)'
      BY <2>2, <2>4, <2>5 DEF QuestionTurn
    <3>2. HandTurn(c)' /\ AnswerTurn(c)'
      BY <2>4 DEF HandTurn, AnswerTurn, NoAnswer
    <3>3. QED BY <1>2, <2>1, <3>1, <3>2 DEF Turn
  <2>7. ASSUME NEW d \in Users \ {c} PROVE Turn(d)'
    <3>1. Same(d)
      <4>1. /\ asked'[d] = asked[d] /\ got'[d] = got[d]
            /\ InHand(d)' => InHand(d) /\ vHeard' = vHeard
        BY <1>3, <1>4 DEF InHand
      <4>2. \A j \in 1 .. Len(in'[TheServer]) : IsAsk(in'[TheServer][j], d) => Kept(TheServer, j)
        <5>1. ASSUME NEW j \in 1 .. Len(in'[TheServer]), IsAsk(in'[TheServer][j], d)
              PROVE  Kept(TheServer, j)
          <6>1. CASE UNCHANGED in \/ More(c, Reset)
            BY <1>1, <5>1, <6>1 DEF More, Kept
          <6>2. CASE More(TheServer, Data(c, asked[c] + 1))
            <7>1. in'[TheServer][j] # Data(c, asked[c] + 1)
              BY <5>1, EventFields DEF IsAsk
            <7>2. QED BY <1>1, <6>2, <7>1 DEF More
          <6>3. QED BY <2>1, <6>1, <6>2
        <5>2. QED BY <5>1
      <4>3. \A j \in 1 .. Len(in'[d]) : in'[d][j].kind = "data" => Kept(d, j)
        BY <1>1, <2>1 DEF More, Kept
      <4>4. QED BY <4>1, <4>2, <4>3 DEF Same
    <3>2. QED BY <1>2, <3>1, TurnKept
  <2>8. QED BY <1>6, <2>6, <2>7
<1>10. CASE ClientAnswered(c)
  <2>1. /\ Less(c) /\ Head(in[c]).kind = "data"
        /\ asked' = asked /\ Len(got'[c]) = Len(got[c]) + 1
        /\ \A k \in 1 .. Len(got[c]) : got'[c][k] = got[c][k]
        /\ got'[c][Len(got[c]) + 1] = Head(in[c]).blob
    BY <1>10, ClientMail, ClientCounts DEF ClientAnswered
  <2>2. 1 \in 1 .. Len(in[c]) /\ in[c][1] = Head(in[c])
    BY <2>1 DEF Less
  <2>3. /\ OneShort(c) /\ Head(in[c]).blob = asked[c]
        /\ \A h \in 1 .. Len(in[c]) : in[c][h].kind = "data" => h = 1
    BY <1>2, <2>1, <2>2 DEF Turn, AnswerTurn
  <2>4. /\ \A j \in 1 .. Len(in[TheServer]) : ~IsAsk(in[TheServer][j], c)
        /\ ~InHand(c)
    BY <1>2, <2>1, <2>2 DEF Turn, QuestionTurn, HandTurn, NoAnswer
  <2>5. Turn(c)'
    <3>1. QuestionTurn(c)'
      BY <1>1, <2>1, <2>4 DEF QuestionTurn, Less, Kept
    <3>2. HandTurn(c)'
      BY <1>3, <2>4 DEF HandTurn, InHand
    <3>3. AnswerTurn(c)'
      BY <2>1, <2>3 DEF AnswerTurn, Less
    <3>4. ASSUME NEW k \in 1 .. Len(got'[c]) PROVE got'[c][k] = k
      <4>1. k \in 1 .. Len(got[c]) \/ k = Len(got[c]) + 1
        BY <1>5, <2>1
      <4>2. asked[c] = Len(got[c]) + 1
        BY <1>5, <2>3 DEF OneShort
      <4>3. QED BY <1>2, <2>1, <2>3, <4>1, <4>2 DEF Turn
    <3>5. QED BY <3>1, <3>2, <3>3, <3>4 DEF Turn
  <2>6. ASSUME NEW d \in Users \ {c} PROVE Turn(d)'
    <3>1. Same(d)
      BY <1>1, <1>3, <1>4, <2>1 DEF Same, InHand, Less
    <3>2. QED BY <1>2, <3>1, TurnKept
  <2>7. QED BY <1>6, <2>5, <2>6
<1>11. QED BY <1>7, <1>8, <1>9, <1>10 DEF ClientNext, ClientStep, ClientQuit, ClientAskFails, ClientFails

LEMMA TurnStep ==
  ASSUME ToolsAssumption, NetworkAssumption, TypeInv, CountInv, TurnInv, [Next]_vars
  PROVE  TurnInv'
<1>1. CASE UNCHANGED vars
  BY <1>1 DEF vars, serverVars, clientVars, TurnInv, Turn, QuestionTurn, HandTurn, AnswerTurn,
              OneShort, InHand, NoAnswer
<1>2. CASE polls
  BY <1>1, <1>2, NextCases, ServerAside, ClientAside DEF TurnInv
<1>3. QED BY <1>1, <1>2, NextCases, TurnServerStep, TurnClientStep

LEMMA TurnAlways == Spec => [](CountInv /\ BoundInv /\ TurnInv)
<1>1. Init => CountInv /\ BoundInv /\ TurnInv
  <2>1. SUFFICES ASSUME Init PROVE CountInv /\ BoundInv /\ TurnInv
    OBVIOUS
  <2>2. /\ \A x \in Address : Len(in[x]) = 0
        /\ \A c \in Users : Len(got[c]) = 0 /\ asked[c] = 0 /\ cPc[c] = "off"
        /\ TheServer \in Address /\ Users \subseteq Address
        /\ vFrom = Nowhere /\ vPc = "off"
    BY <2>1, ToolsAssumption DEF ToolsAssumption, Init
  <2>3. CountInv /\ BoundInv
    BY <2>2 DEF CountInv, BoundInv
  <2>4. TurnInv
    BY <2>2 DEF TurnInv, Turn, QuestionTurn, HandTurn, AnswerTurn, InHand
  <2>5. QED BY <2>3, <2>4
<1>2. TypeInv /\ (CountInv /\ BoundInv /\ TurnInv) /\ [Next]_vars => (CountInv /\ BoundInv /\ TurnInv)'
  BY ToolsAssumption, NetworkAssumption, CountStep, BoundStep, TurnStep
<1>3. QED BY <1>1, <1>2, TypeAlways, PTL DEF Spec

\* AnswersMatch: with the server that waits a client never takes an answer to
\* another question for the one it waits for, though it takes whatever comes
\* (client.cpp:88): there is no other on its way.  With serverXX it may take one to
\* an earlier question, never one to a question it has not asked yet.
THEOREM AnswersRight == Spec => []AnswersMatch
<1>1. BoundInv /\ TurnInv => AnswersMatch
  BY DEF BoundInv, TurnInv, Turn, AnswersMatch
<1>2. QED BY <1>1, TurnAlways, PTL
-----------------------------------------------------------------------------
\* A client that is gone; with the server that waits, before its answer.
Unanswered(c) == cPc[c] = "ended" /\ (~polls => Len(got[c]) < asked[c])

\* An error that still waits in the server's socket has its reason too.
ReasonInv ==
  /\ \A j \in 1 .. Len(in[TheServer]) :
       in[TheServer][j].kind = "reset" => \E c \in Users : Unanswered(c)
  /\ FailsForAReason

\* Where the error can come from: the server answers a client that is gone.
LEMMA ErrorHasReason ==
  ASSUME ToolsAssumption, NetworkAssumption, TypeInv, CountInv, BoundInv, TurnInv,
         ServerReply, vFrom \notin up
  PROVE  \E c \in Users : Unanswered(c)
<1>1. vFrom \in Users /\ vHeard \in Blob /\ vPc = "reply"
  BY ServerMail DEF ServerReply
<1>2. asked[vFrom] \in Nat /\ Len(got[vFrom]) \in Nat /\ vFrom # Nowhere /\ vHeard >= 1
  BY <1>1, Parts, LenProperties DEF TypeInv, TypeOK
<1>3. asked[vFrom] >= 1
  BY <1>1, <1>2, Parts DEF BoundInv
<1>4. cPc[vFrom] = "ended"
  BY <1>1, <1>3 DEF TypeInv, CountInv
<1>5. ~polls => Len(got[vFrom]) < asked[vFrom]
  BY <1>1, <1>2 DEF TurnInv, Turn, HandTurn, InHand, OneShort
<1>6. QED BY <1>1, <1>4, <1>5 DEF Unanswered

LEMMA ReasonStep ==
  ASSUME ToolsAssumption, NetworkAssumption, TypeInv, CountInv, BoundInv, TurnInv,
         ReasonInv, [Next]_vars
  PROVE  ReasonInv'
<1>1. /\ InType /\ TheServer \in Address /\ Users \subseteq Address
      /\ Nowhere \notin Address /\ TheServer \notin Users
  BY Parts
<1>2. CASE UNCHANGED vars
  BY <1>2 DEF vars, serverVars, clientVars, ReasonInv, Unanswered, FailsForAReason
<1>3. CASE ServerNext
  <2>1. cPc' = cPc /\ asked' = asked /\ got' = got /\ polls' = polls
    BY <1>3, ServerAside
  <2>2. \A c \in Users : Unanswered(c)' <=> Unanswered(c)
    BY <2>1 DEF Unanswered
  <2>3. ASSUME NEW place \in NotRunning, ServerGone(place),
               place = "recvFailed" => \E c \in Users : Unanswered(c),
               place = "noAddress" => polls
        PROVE  ReasonInv'
    <3>1. Closed(TheServer) /\ vPc' = place /\ vFrom' = vFrom
      BY <2>3, ServerMail DEF ServerGone
    <3>2. QED BY <1>1, <2>1, <2>2, <2>3, <3>1 DEF Closed, ReasonInv, FailsForAReason, Unanswered
  <2>4. CASE ServerQuit
    BY <2>3, <2>4 DEF ServerQuit, NotRunning
  <2>5. CASE ServerFails
    <3>1. 1 \in 1 .. Len(in[TheServer]) /\ in[TheServer][1].kind = "reset"
      <4>1. in[TheServer] \in Seq(Event) /\ in[TheServer] # <<>> /\ Head(in[TheServer]) = Reset
        BY <1>1, <2>5 DEF InType, ServerFails
      <4>2. Head(in[TheServer]) = in[TheServer][1] /\ Len(in[TheServer]) \in Nat \ {0}
        BY <4>1, LenProperties, EmptySeq
      <4>3. QED BY <4>1, <4>2, EventFields
    <3>2. QED BY <2>3, <2>5, <3>1 DEF ServerFails, NotRunning, ReasonInv
  <2>6. CASE ReplyToNobody \/ ServerReplyFails
    BY <2>3, <2>6 DEF ReplyToNobody, ServerReplyFails, NotRunning, TurnInv
  <2>7. CASE ServerHear
    <3>1. Less(TheServer) /\ vPc' \notin NotRunning
      BY <2>7, ServerMail DEF ServerHear, NotRunning
    <3>2. QED BY <2>2, <3>1 DEF Less, NotRunning, ReasonInv, FailsForAReason
  <2>8. CASE ServerReply
    <3>1. /\ vFrom \in Users /\ vPc' \notin NotRunning
          /\ \/ UNCHANGED in \/ More(vFrom, Data(TheServer, vHeard))
             \/ vFrom \notin up /\ More(TheServer, Reset)
      BY <2>8, ServerMail DEF ServerReply, NotRunning
    <3>2. CASE UNCHANGED in \/ More(vFrom, Data(TheServer, vHeard))
      BY <1>1, <2>2, <3>1, <3>2 DEF More, Kept, NotRunning, ReasonInv, FailsForAReason
    <3>3. CASE vFrom \notin up
      BY <2>2, <2>8, <3>1, <3>3, ErrorHasReason DEF NotRunning, ReasonInv, FailsForAReason
    <3>4. QED BY <3>1, <3>2, <3>3
  <2>9. CASE ServerStart \/ NothingHeard \/ NoKey \/ KeyHit
    BY <2>2, <2>9 DEF ServerStart, NothingHeard, NoKey, KeyHit, ReasonInv, FailsForAReason
  <2>10. QED BY <1>3, <2>4, <2>5, <2>6, <2>7, <2>8, <2>9 DEF ServerNext, ServerStep
<1>4. ASSUME NEW c \in Users, ClientNext(c) PROVE ReasonInv'
  <2>1. vPc' = vPc /\ vFrom' = vFrom /\ polls' = polls
    BY <1>4, ClientAside DEF serverVars
  <2>2. \A d \in Users : Unanswered(d) => Unanswered(d)'
    <3>1. CASE cPc[c] = "ended"
      BY <1>4, <3>1 DEF ClientNext, ClientStart, ClientQuit, ClientAsk, ClientAskFails, ClientStep, ClientAnswered,
                        ClientFails, ClientTimesOut, ClientSlept
    <3>2. CASE cPc[c] # "ended"
      BY <1>4, <2>1, <3>2, ClientCounts DEF Unanswered
    <3>3. QED BY <3>1, <3>2
  <2>3. ASSUME NEW j \in 1 .. Len(in'[TheServer]), in'[TheServer][j].kind = "reset"
        PROVE  Kept(TheServer, j)
    <3>1. CASE ClientGone(c)
      BY <1>1, <3>1, ClientMail DEF Closed
    <3>2. CASE ClientAnswered(c)
      BY <1>1, <3>2, ClientMail DEF Less
    <3>3. CASE ClientAsk(c)
      <4>1. UNCHANGED in \/ More(TheServer, Data(c, asked[c] + 1)) \/ More(c, Reset)
        BY <3>3, ClientMail
      <4>2. QED BY <1>1, <2>3, <4>1, EventFields DEF More, Kept
    <3>4. CASE ClientStart(c) \/ ClientTimesOut(c) \/ ClientSlept(c)
      BY <3>4 DEF ClientStart, ClientTimesOut, ClientSlept, GoAgain, Kept
    <3>5. QED BY <1>4, <3>1, <3>2, <3>3, <3>4
              DEF ClientNext, ClientStep, ClientQuit, ClientAskFails, ClientFails
  <2>4. \A j \in 1 .. Len(in'[TheServer]) :
          in'[TheServer][j].kind = "reset" => \E d \in Users : Unanswered(d)'
    BY <2>2, <2>3 DEF Kept, ReasonInv
  <2>5. FailsForAReason'
    <3>1. vPc = "recvFailed" => \E d \in Users : Unanswered(d)
      BY DEF ReasonInv, FailsForAReason, Unanswered
    <3>2. QED BY <2>1, <2>2, <3>1 DEF ReasonInv, FailsForAReason, Unanswered
  <2>6. QED BY <2>4, <2>5 DEF ReasonInv
<1>5. QED BY <1>2, <1>3, <1>4, NextCases

\* FailsForAReason: the server ends with an error of recvfrom only because a client
\* is gone before it had its answer (polling: any client), and with the address of
\* nobody only when it polls, for any number of clients and whatever fails.
THEOREM FailsOnlyThen == Spec => []FailsForAReason
<1>1. Init => ReasonInv
  BY ToolsAssumption DEF ToolsAssumption, Init, ReasonInv, FailsForAReason
<1>2. TypeInv /\ (CountInv /\ BoundInv /\ TurnInv) /\ ReasonInv /\ [Next]_vars => ReasonInv'
  BY ToolsAssumption, NetworkAssumption, ReasonStep
<1>3. ReasonInv => FailsForAReason
  BY DEF ReasonInv
<1>4. QED BY <1>1, <1>2, <1>3, TypeAlways, TurnAlways, PTL DEF Spec
-----------------------------------------------------------------------------
\* What was in the sockets stays there, but for what is taken.
Stays(x) == \A j \in 1 .. Len(in[x]) : j \in 1 .. Len(in'[x]) /\ in'[x][j] = in[x][j]

Came(b, e) == \E j \in 1 .. Len(in'[b]) : in'[b][j] = e

LEMMA SendKeeps ==
  ASSUME InType, NEW b \in Address, NEW e \in Event,
         in' = [in EXCEPT ![b] = Append(@, e)]
  PROVE  /\ \A x \in Address : Stays(x)
         /\ \A x \in Address \ {b} : in'[x] = in[x]
         /\ Came(b, e) /\ in'[b] # <<>>
<1>1. in[b] \in Seq(Event) /\ Len(in[b]) \in Nat
  BY LenProperties DEF InType
<1>2. /\ Len(Append(in[b], e)) = Len(in[b]) + 1
      /\ \A j \in 1 .. Len(in[b]) : Append(in[b], e)[j] = in[b][j]
      /\ Append(in[b], e)[Len(in[b]) + 1] = e
  BY <1>1, AppendProperties
<1>3. in'[b] = Append(in[b], e) /\ \A x \in Address \ {b} : in'[x] = in[x]
  BY DEF InType
<1>4. Stays(b)
  <2>1. \A j \in 1 .. Len(in[b]) : j \in 1 .. Len(in[b]) + 1
    BY <1>1
  <2>2. QED BY <1>2, <1>3, <2>1 DEF Stays
<1>5. \A x \in Address : Stays(x)
  BY <1>3, <1>4 DEF Stays
<1>6. Came(b, e)
  <2>1. Len(in[b]) + 1 \in 1 .. Len(in[b]) + 1
    BY <1>1
  <2>2. QED BY <1>2, <1>3, <2>1 DEF Came
<1>7. in'[b] # <<>>
  <2>1. Len(in'[b]) # 0
    BY <1>1, <1>2, <1>3
  <2>2. Len(<<>>) = 0
    OBVIOUS
  <2>3. QED BY <2>1, <2>2
<1>8. QED BY <1>3, <1>5, <1>6, <1>7

LEMMA TakeKeeps ==
  ASSUME InType, NEW b \in Address, in[b] # <<>>, in' = [in EXCEPT ![b] = Tail(@)]
  PROVE  /\ \A x \in Address \ {b} : in'[x] = in[x]
         /\ \A j \in 1 .. Len(in[b]) : j = 1 \/
              \E h \in 1 .. Len(in'[b]) : in'[b][h] = in[b][j]
<1>1. in[b] \in Seq(Event) /\ Len(in[b]) \in Nat \ {0}
  BY LenProperties, EmptySeq DEF InType
<1>2. /\ Len(Tail(in[b])) = Len(in[b]) - 1
      /\ \A j \in 1 .. Len(Tail(in[b])) : Tail(in[b])[j] = in[b][j + 1]
  BY <1>1, HeadTailProperties
<1>3. in'[b] = Tail(in[b]) /\ \A x \in Address \ {b} : in'[x] = in[x]
  BY DEF InType
<1>4. ASSUME NEW j \in 1 .. Len(in[b]), j # 1
      PROVE  \E h \in 1 .. Len(in'[b]) : in'[b][h] = in[b][j]
  <2>1. j - 1 \in 1 .. Len(in[b]) - 1 /\ (j - 1) + 1 = j
    BY <1>1, <1>4
  <2>2. j - 1 \in 1 .. Len(Tail(in[b])) /\ Tail(in[b])[j - 1] = in[b][j]
    BY <1>2, <2>1
  <2>3. QED BY <1>3, <2>2
<1>5. QED BY <1>3, <1>4

\* What Owed(c) says, part by part.
Asked(c) == \E j \in 1 .. Len(in[TheServer]) : IsAsk(in[TheServer][j], c)

Held(c) == vFrom = c /\ vPc \in (IF polls THEN {"listen", "keys", "reply"} ELSE {"reply"})

Safe(c) == in[c] # <<>> \/ Asked(c) \/ Held(c) \/ c \in dropped

Minded(c) == cPc[c] \in {"wait", "sleep"} => Safe(c)

LEMMA MindedIs ==
  ASSUME ToolsAssumption, NetworkAssumption, TypeInv
  PROVE  NobodyForgotten <=> \A c \in Users : Minded(c)
<1>1. in[TheServer] \in Seq(Event)
  BY Parts DEF InType
<1>2. DOMAIN in[TheServer] = 1 .. Len(in[TheServer])
  BY <1>1, LenProperties
<1>3. QED BY <1>2 DEF NobodyForgotten, Owed, Minded, Safe, Asked, Held, IsAsk

LEMMA MindedServerStep ==
  ASSUME ToolsAssumption, NetworkAssumption, TypeInv, ServerNext,
         NEW c \in Users, Minded(c)
  PROVE  Minded(c)'
<1>1. /\ InType /\ TheServer \in Address /\ c \in Address /\ c # TheServer
      /\ Users \subseteq Address
  BY Parts
<1>2. cPc' = cPc /\ polls' = polls
  BY ServerAside
<1> SUFFICES ASSUME cPc[c] \in {"wait", "sleep"}, Safe(c) PROVE Safe(c)'
  BY <1>2 DEF Minded
<1>3. CASE ServerStart
  BY <1>3 DEF ServerStart, Safe, Asked, Held, NotRunning
<1>4. ASSUME NEW place \in NotRunning, ServerGone(place) PROVE Safe(c)'
  <2>1. in'[c] = in[c]
    BY <1>1, <1>4 DEF ServerGone, Gone, InType
  <2>2. in[c] = <<>> => c \in dropped'
    BY <1>4 DEF ServerGone, Waits
  <2>3. QED BY <2>1, <2>2 DEF Safe
<1>5. CASE ServerHear
  <2> DEFINE e == Head(in[TheServer])
  <2>1. /\ vPc = "listen" /\ in[TheServer] # <<>> /\ e.kind = "data" /\ vFrom' = e.from
        /\ in' = [in EXCEPT ![TheServer] = Tail(@)]
        /\ vPc' = (IF polls THEN "keys" ELSE "reply")
        /\ dropped' = IF polls /\ vFrom \in Users \ {e.from} /\ Waits(vFrom)
                      THEN dropped \cup {vFrom} ELSE dropped
    BY <1>5 DEF ServerHear, RepliesTo
  <2>2. /\ in'[c] = in[c]
        /\ \A j \in 1 .. Len(in[TheServer]) : j = 1 \/
             \E h \in 1 .. Len(in'[TheServer]) : in'[TheServer][h] = in[TheServer][j]
    BY <1>1, <2>1, TakeKeeps
  <2>3. e = in[TheServer][1]
    BY <1>1, <2>1, OneLess DEF Less
  <2> HIDE DEF e
  <2>4. ASSUME e.from = c PROVE Held(c)'
    BY <1>2, <2>1, <2>4 DEF Held
  <2>5. ASSUME Asked(c) PROVE Asked(c)' \/ Held(c)'
    <3>1. PICK j \in 1 .. Len(in[TheServer]) : IsAsk(in[TheServer][j], c)
      BY <2>5 DEF Asked
    <3>2. CASE j = 1
      BY <2>3, <2>4, <3>1, <3>2 DEF IsAsk
    <3>3. CASE j # 1
      BY <2>2, <3>1, <3>3 DEF Asked
    <3>4. QED BY <3>2, <3>3
  <2>6. ASSUME Held(c), in[c] = <<>>, e.from # c PROVE c \in dropped'
    BY <2>1, <2>6 DEF Held, Waits
  <2>7. c \in dropped => c \in dropped'
    BY <2>1
  <2>8. QED BY <2>2, <2>4, <2>5, <2>6, <2>7 DEF Safe
<1>6. CASE NothingHeard \/ NoKey \/ KeyHit
  BY <1>6 DEF NothingHeard, NoKey, KeyHit, Safe, Asked, Held
<1>7. CASE ServerReply
  <2>1. /\ vFrom \in Users /\ vHeard \in Blob /\ vPc = "reply" /\ vFrom' = vFrom
        /\ Data(TheServer, vHeard) \in Event /\ Reset \in Event
    BY <1>1, <1>7, ServerMail, EventFields DEF ServerReply
  <2>2. vFrom \in Address
    BY <1>1, <2>1
  <2>3. ASSUME UNCHANGED in PROVE Asked(c) => Asked(c)'
    BY <2>3 DEF Asked
  <2>4. ASSUME \A x \in Address : Stays(x) PROVE Asked(c) => Asked(c)'
    BY <1>1, <2>4 DEF Asked, Stays
  <2>5. c \in dropped => c \in dropped'
    BY <1>7 DEF ServerReply
  <2>6. CASE vFrom \in up /\ in' = [in EXCEPT ![vFrom] = Append(@, Data(TheServer, vHeard))]
    <3>1. /\ \A x \in Address : Stays(x)
          /\ \A x \in Address \ {vFrom} : in'[x] = in[x]
          /\ in'[vFrom] # <<>>
      BY <1>1, <2>1, <2>2, <2>6, SendKeeps
    <3>2. QED BY <1>1, <2>4, <2>5, <3>1 DEF Safe, Held
  <2>7. CASE vFrom \notin up /\ in' = [in EXCEPT ![TheServer] = Append(@, Reset)]
    <3>1. /\ \A x \in Address : Stays(x)
          /\ \A x \in Address \ {TheServer} : in'[x] = in[x]
      BY <1>1, <2>1, <2>7, SendKeeps
    <3>2. vFrom # c
      BY <2>7 DEF TypeInv
    <3>3. QED BY <1>1, <2>4, <2>5, <3>1, <3>2 DEF Safe, Held
  <2>8. CASE Full(vFrom) /\ UNCHANGED in
    <3>1. vFrom = c => in[c] # <<>>
      <4>1. Len(<<>>) = 0
        OBVIOUS
      <4>2. QED BY <2>8, <4>1, ToolsAssumption DEF Full, ToolsAssumption
    <3>2. QED BY <2>3, <2>5, <2>8, <3>1 DEF Safe, Held
  <2>9. CASE UNCHANGED in /\ dropped' = dropped \cup {vFrom}
    BY <2>3, <2>5, <2>9 DEF Safe, Held
  <2>10. QED BY <1>7, <2>6, <2>7, <2>8, <2>9 DEF ServerReply, Send, Lose
<1>8. QED BY <1>3, <1>4, <1>5, <1>6, <1>7
          DEF ServerNext, ServerStep, ServerQuit, ServerFails, ReplyToNobody, ServerReplyFails,
              NotRunning

LEMMA MindedClientStep ==
  ASSUME ToolsAssumption, NetworkAssumption, TypeInv, NEW d \in Users, ClientNext(d),
         NEW c \in Users, Minded(c)
  PROVE  Minded(c)'
<1>1. /\ InType /\ TheServer \in Address /\ c \in Address /\ d \in Address
      /\ c # TheServer /\ d # TheServer
  BY Parts
<1>2. vPc' = vPc /\ vFrom' = vFrom /\ polls' = polls
  BY ClientAside DEF serverVars
<1>3. Held(c) => Held(c)'
  BY <1>2 DEF Held
<1>4. cPc \in [Users -> {"off", "ask", "wait", "sleep", "ended"}]
  BY DEF TypeInv, TypeOK
<1>5. ASSUME NEW place \in {"ask", "ended"}, ToPlace(d, place), dropped' = dropped,
             \A x \in Address \ {d} : in'[x] = in[x]
      PROVE  Minded(c)'
  <2>1. CASE c = d
    BY <1>4, <1>5, <2>1 DEF ToPlace, Minded
  <2>2. CASE c # d
    BY <1>1, <1>3, <1>4, <1>5, <2>2 DEF ToPlace, Minded, Safe, Asked
  <2>3. QED BY <2>1, <2>2
<1>6. CASE ClientStart(d)
  BY <1>5, <1>6 DEF ClientStart
<1>7. ASSUME ClientGone(d) PROVE Minded(c)'
  <2>1. \A x \in Address \ {d} : in'[x] = in[x]
    BY <1>1, <1>7 DEF ClientGone, Gone, InType
  <2>2. QED BY <1>5, <1>7, <2>1 DEF ClientGone
<1>8. CASE ClientAnswered(d)
  <2>1. \A x \in Address \ {d} : in'[x] = in[x]
    BY <1>1, <1>8 DEF ClientAnswered, InType
  <2>2. QED BY <1>5, <1>8, <2>1 DEF ClientAnswered
<1>9. CASE ClientTimesOut(d) \/ ClientSlept(d)
  <2>1. in' = in /\ dropped' = dropped
    BY <1>9 DEF ClientTimesOut, ClientSlept, GoAgain
  <2>2. cPc'[c] \in {"wait", "sleep"} => cPc[c] \in {"wait", "sleep"}
    BY <1>4, <1>9 DEF ClientTimesOut, ClientSlept, ToPlace
  <2>3. QED BY <1>3, <2>1, <2>2 DEF Minded, Safe, Asked
<1>10. CASE ClientAsk(d)
  <2>1. /\ asked[d] + 1 \in Blob /\ cPc' = [cPc EXCEPT ![d] = "wait"]
        /\ Data(d, asked[d] + 1) \in Event /\ Reset \in Event
    BY <1>1, <1>10, ClientMail, EventFields DEF ClientAsk, ToPlace
  <2>2. CASE in' = [in EXCEPT ![TheServer] = Append(@, Data(d, asked[d] + 1))]
             /\ dropped' = dropped \ {d}
    <3>1. /\ \A x \in Address : Stays(x)
          /\ \A x \in Address \ {TheServer} : in'[x] = in[x]
          /\ Came(TheServer, Data(d, asked[d] + 1))
      BY <1>1, <2>1, <2>2, SendKeeps
    <3>2. CASE c = d
      <4>1. Asked(c)'
        BY <3>1, <3>2, EventFields DEF Came, Asked, IsAsk
      <4>2. QED BY <4>1 DEF Minded, Safe
    <3>3. CASE c # d
      <4>1. Asked(c) => Asked(c)'
        BY <1>1, <3>1 DEF Asked, Stays
      <4>2. QED BY <1>1, <1>3, <1>4, <2>1, <2>2, <3>1, <3>3, <4>1 DEF Minded, Safe
    <3>4. QED BY <3>2, <3>3
  <2>3. CASE in' = [in EXCEPT ![d] = Append(@, Reset)] /\ dropped' = dropped \ {d}
    <3>1. in'[d] # <<>> /\ \A x \in Address \ {d} : in'[x] = in[x]
      BY <1>1, <2>1, <2>3, SendKeeps
    <3>2. CASE c = d
      BY <3>1, <3>2 DEF Minded, Safe
    <3>3. CASE c # d
      BY <1>1, <1>3, <1>4, <2>1, <2>3, <3>1, <3>3 DEF Minded, Safe, Asked
    <3>4. QED BY <3>2, <3>3
  <2>4. CASE UNCHANGED in /\ dropped' = dropped \cup {d}
    BY <1>3, <1>4, <2>1, <2>4 DEF Minded, Safe, Asked
  <2>5. QED BY <1>10, <2>2, <2>3, <2>4 DEF ClientAsk, Send, Lose
<1>11. QED BY <1>6, <1>7, <1>8, <1>9, <1>10
           DEF ClientNext, ClientQuit, ClientAskFails, ClientStep, ClientFails

\* NobodyForgotten: whatever will end a client's wait is on its way at every
\* moment, for any number of clients and either server.
THEOREM ForgetsNobody == Spec => []NobodyForgotten
<1>1. Init => NobodyForgotten
  BY DEF Init, NobodyForgotten
<1>2. TypeInv /\ TypeInv' /\ NobodyForgotten /\ [Next]_vars => NobodyForgotten'
  <2> SUFFICES ASSUME TypeInv, TypeInv', NobodyForgotten, [Next]_vars PROVE NobodyForgotten'
    OBVIOUS
  <2>1. \A c \in Users : Minded(c)
    BY ToolsAssumption, NetworkAssumption, MindedIs
  <2>2. ASSUME NEW c \in Users PROVE Minded(c)'
    <3>1. Minded(c)
      BY <2>1
    <3>2. CASE UNCHANGED vars
      BY <3>1, <3>2 DEF vars, serverVars, clientVars, Minded, Safe, Asked, Held
    <3>3. QED BY <3>1, <3>2, ToolsAssumption, NetworkAssumption, NextCases,
                 MindedServerStep, MindedClientStep
  <2>3. in'[TheServer] \in Seq(Event)
    BY ToolsAssumption DEF ToolsAssumption, TypeInv, TypeOK
  <2>4. DOMAIN in'[TheServer] = 1 .. Len(in'[TheServer])
    BY <2>3, LenProperties
  <2>5. QED BY <2>2, <2>4 DEF NobodyForgotten, Owed, Minded, Safe, Asked, Held, IsAsk
<1>3. QED BY <1>1, <1>2, TypeAlways, PTL DEF Spec
=============================================================================
