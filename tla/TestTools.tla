----------------------------- MODULE TestTools -----------------------------
(***************************************************************************)
(* The two programs to try a UDP port by hand: client/client.cpp asks and  *)
(* waits for the answer, server/server.cpp waits for a question and asks   *)
(* its operator for the answer.  clientXX.cpp is the same client on the    *)
(* port WSJT-X uses; serverXX.cpp, its server, does not wait: it polls its *)
(* socket and its keyboard in turn.                                        *)
(*                                                                         *)
(* The programs run on one machine.  A question is its number; an answer   *)
(* is the number of the question it was typed for.  A client that is run   *)
(* again gets another port, so that each run is a client of its own.       *)
(***************************************************************************)
EXTENDS Network

CONSTANTS
  Users,      \* the runs of the client program
  TheServer,  \* the server's address
  MayLose,    \* bound: may a datagram be lost
  MaxAsked,   \* bound: the questions of a client
  MaxMail     \* the answers that wait in a client's socket before more are lost

ASSUME ToolsAssumption ==
  /\ Address = Users \cup {TheServer} /\ TheServer \notin Users
  /\ MayLose \in BOOLEAN /\ MaxAsked \in Nat \ {0} /\ MaxMail \in Nat \ {0}
  /\ Blob = 1 .. MaxAsked

VARIABLES
  polls,    \* the server is serverXX
  in,       \* the sockets
  vPc,      \* where the server is, or how it ended
  vFrom,    \* its `client`
  vHeard,   \* the question it printed last
  cPc,      \* where each client is
  asked,    \* history: how many questions each client has asked
  got,      \* history: the answers it printed
  dropped   \* history: the clients that nobody owes an answer any more

serverVars == <<vPc, vFrom, vHeard>>
clientVars == <<cPc, asked, got>>
vars == <<up, polls, in, serverVars, clientVars, dropped>>

Waits(c) == cPc[c] \in {"wait", "sleep"} /\ in[c] = <<>>

Init ==
  /\ up = {}
  /\ polls \in BOOLEAN
  /\ in = [a \in Address |-> <<>>]
  /\ vPc = "off" /\ vFrom = Nowhere /\ vHeard = 0
  /\ cPc = [c \in Users |-> "off"]
  /\ asked = [c \in Users |-> 0]
  /\ got = [c \in Users |-> <<>>]
  /\ dropped = {}

\* A datagram to a closed port comes back as an error of the sender's next
\* recvfrom; one to a full socket is lost.
Send(a, b, n) ==
  \/ b \in up /\ in' = [in EXCEPT ![b] = Append(@, Data(a, n))]
  \/ b \notin up /\ in' = [in EXCEPT ![a] = Append(@, Reset)]

Full(b) == b \in Users /\ Len(in[b]) >= MaxMail

Lose == MayLose /\ UNCHANGED in

\* A program ends: its socket is closed with all that waits in it.
Gone(a) == up' = up \ {a} /\ in' = [in EXCEPT ![a] = <<>>]

\* Where the server is when it does not run: never started or quit, or ended by
\* itself after an error of one of its two calls; "noAddress" is sendto with the
\* address of nobody.
NotRunning == {"off", "recvFailed", "sendFailed", "noAddress"}

ToPlace(c, place) == cPc' = [cPc EXCEPT ![c] = place]
-----------------------------------------------------------------------------
\* A bind that fails ends the program at once.
ServerStart ==
  /\ vPc \in NotRunning
  /\ vPc' = "listen"
  /\ vFrom' = Nowhere /\ vHeard' = 0
  /\ up' = up \cup {TheServer}
  /\ UNCHANGED <<polls, in, clientVars, dropped>>

\* The server ends, and with it whatever it still owed.
ServerGone(place) ==
  /\ vPc' = place
  /\ Gone(TheServer)
  /\ dropped' = dropped \cup {c \in Users : Waits(c)}
  /\ UNCHANGED <<polls, vFrom, vHeard, clientVars>>

ServerQuit ==
  /\ vPc \notin NotRunning
  /\ ServerGone("off")

\* Mutant: recvfrom stores the sender in `server`.
RepliesToItself(a) == vFrom' = TheServer

\* Mutant: the sender is stored only once.
RepliesToFirst(a) == vFrom' = IF vFrom = Nowhere THEN a ELSE vFrom

RepliesTo(a) == vFrom' = a

\* A question.  serverXX goes on to the keyboard, and what it owed to an
\* earlier sender is forgotten.
ServerHear ==
  /\ vPc = "listen"
  /\ in[TheServer] # <<>> /\ Head(in[TheServer]).kind = "data"
  /\ in' = [in EXCEPT ![TheServer] = Tail(@)]
  /\ RepliesTo(Head(in[TheServer]).from)
  /\ vHeard' = Head(in[TheServer]).blob
  /\ vPc' = IF polls THEN "keys" ELSE "reply"
  /\ dropped' = IF polls /\ vFrom \in Users \ {Head(in[TheServer]).from} /\ Waits(vFrom)
                THEN dropped \cup {vFrom} ELSE dropped
  /\ UNCHANGED <<up, polls, clientVars>>

\* Any error of recvfrom ends the server.
ServerFails ==
  /\ vPc = "listen"
  /\ in[TheServer] # <<>> /\ Head(in[TheServer]) = Reset
  /\ ServerGone("recvFailed")

\* serverXX only.
NothingHeard ==
  /\ polls /\ vPc = "listen"
  /\ in[TheServer] = <<>>
  /\ vPc' = "keys"
  /\ UNCHANGED <<up, polls, in, vFrom, vHeard, clientVars, dropped>>

KeyHit ==
  /\ vPc = "keys"
  /\ vPc' = "reply"
  /\ UNCHANGED <<up, polls, in, vFrom, vHeard, clientVars, dropped>>

NoKey ==
  /\ vPc = "keys"
  /\ vPc' = "listen"
  /\ UNCHANGED <<up, polls, in, vFrom, vHeard, clientVars, dropped>>

\* The operator has typed.  serverXX has no address before it heard somebody.
ServerReply ==
  /\ vPc = "reply"
  /\ vFrom # Nowhere
  /\ vPc' = "listen"
  /\ \/ ~Full(vFrom) /\ Send(TheServer, vFrom, vHeard) /\ UNCHANGED dropped
     \/ Full(vFrom) /\ UNCHANGED <<in, dropped>>
     \/ Lose /\ dropped' = dropped \cup {vFrom}
  /\ UNCHANGED <<up, polls, vFrom, vHeard, clientVars>>

ReplyToNobody ==
  /\ vPc = "reply"
  /\ vFrom = Nowhere
  /\ ServerGone("noAddress")

\* Any error of sendto ends the server too.
ServerReplyFails ==
  /\ "send" \in Faults
  /\ vPc = "reply"
  /\ vFrom # Nowhere
  /\ ServerGone("sendFailed")
-----------------------------------------------------------------------------
ClientStart(c) ==
  /\ cPc[c] = "off"
  /\ ToPlace(c, "ask")
  /\ up' = up \cup {c}
  /\ UNCHANGED <<polls, in, serverVars, asked, got, dropped>>

ClientGone(c) ==
  /\ ToPlace(c, "ended")
  /\ Gone(c)
  /\ UNCHANGED <<polls, serverVars, asked, got, dropped>>

ClientQuit(c) ==
  /\ cPc[c] \notin {"off", "ended"}
  /\ ClientGone(c)

\* The user has typed.
ClientAsk(c) ==
  /\ cPc[c] = "ask"
  /\ asked[c] < MaxAsked
  /\ asked' = [asked EXCEPT ![c] = @ + 1]
  /\ ToPlace(c, "wait")
  /\ \/ Send(c, TheServer, asked[c] + 1) /\ dropped' = dropped \ {c}
     \/ Lose /\ dropped' = dropped \cup {c}
  /\ UNCHANGED <<up, polls, serverVars, got>>

\* Any error of sendto ends the client.
ClientAskFails(c) ==
  /\ "send" \in Faults
  /\ cPc[c] = "ask"
  /\ ClientGone(c)

ClientAnswered(c) ==
  /\ cPc[c] = "wait"
  /\ in[c] # <<>> /\ Head(in[c]).kind = "data"
  /\ in' = [in EXCEPT ![c] = Tail(@)]
  /\ got' = [got EXCEPT ![c] = Append(@, Head(in[c]).blob)]
  /\ ToPlace(c, "ask")
  /\ UNCHANGED <<up, polls, serverVars, asked, dropped>>

\* Any error but a timeout ends the client.
ClientFails(c) ==
  /\ cPc[c] = "wait"
  /\ in[c] # <<>> /\ Head(in[c]) = Reset
  /\ ClientGone(c)

\* Mutant: the question is sent again.
AskAgain(c) == Send(c, TheServer, asked[c])

GoAgain(c) == UNCHANGED in

\* SO_RCVTIMEO is over after a second: Sleep(500), and recvfrom again.
ClientTimesOut(c) ==
  /\ cPc[c] = "wait"
  /\ in[c] = <<>>
  /\ ToPlace(c, "sleep")
  /\ GoAgain(c)
  /\ UNCHANGED <<up, polls, serverVars, asked, got, dropped>>

ClientSlept(c) ==
  /\ cPc[c] = "sleep"
  /\ ToPlace(c, "wait")
  /\ UNCHANGED <<up, polls, in, serverVars, asked, got, dropped>>
-----------------------------------------------------------------------------
ServerStep ==
  \/ ServerHear \/ ServerFails \/ NothingHeard \/ NoKey
  \/ ServerReply \/ ReplyToNobody \/ ServerReplyFails

ClientStep(c) ==
  ClientAnswered(c) \/ ClientFails(c) \/ ClientTimesOut(c) \/ ClientSlept(c)

Next ==
  \/ ServerStart \/ ServerQuit \/ ServerStep \/ KeyHit
  \/ \E c \in Users : \/ ClientStart(c) \/ ClientQuit(c)
                     \/ ClientAsk(c) \/ ClientAskFails(c) \/ ClientStep(c)

Spec == Init /\ [][Next]_vars

\* Programs that run go on, and the operator answers.  Nobody has to start
\* anything or to ask.
Fairness ==
  /\ WF_vars(ServerStep)
  /\ SF_vars(KeyHit)
  /\ \A c \in Users : WF_vars(ClientStep(c))

FairSpec == Spec /\ Fairness
-----------------------------------------------------------------------------
TypeOK ==
  /\ up \subseteq Address /\ polls \in BOOLEAN
  /\ in \in [Address -> Seq(Event)]
  /\ vPc \in NotRunning \cup {"listen", "keys", "reply"}
  /\ vFrom \in Users \cup {Nowhere} /\ vHeard \in Blob \cup {0}
  /\ cPc \in [Users -> {"off", "ask", "wait", "sleep", "ended"}]
  /\ asked \in [Users -> 0 .. MaxAsked] /\ got \in [Users -> Seq(Blob)]
  /\ dropped \subseteq Users

\* What a client prints as the answer to a question is the answer typed for it
\* (client.cpp:88 takes whatever comes), though datagrams are lost, the wait
\* times out and the server is started again.  With serverXX it may be an
\* answer to an earlier question, never to one not asked yet.
AnswersMatch ==
  \A c \in Users : \A k \in 1 .. Len(got[c]) :
    IF polls THEN got[c][k] <= k ELSE got[c][k] = k

\* The error that ends the server from its recvfrom (server.cpp:58) comes back
\* from a client that is gone, quit or ended by an error, before it had its
\* answer; serverXX may end so when any client it heard is gone.  Whether or not
\* sendto itself fails (server.cpp:71), only serverXX ends because its operator
\* typed before it heard anybody.
FailsForAReason ==
  /\ vPc = "recvFailed" =>
       \E c \in Users : cPc[c] = "ended" /\ (polls \/ Len(got[c]) < asked[c])
  /\ vPc = "noAddress" => polls

\* Something will end c's wait: an answer or an error in its socket, its question
\* in the server's, or the server's operator, who has its question.
Owed(c) ==
  \/ in[c] # <<>>
  \/ \E j \in DOMAIN in[TheServer] :
       in[TheServer][j].kind = "data" /\ in[TheServer][j].from = c
  \/ vFrom = c /\ vPc \in (IF polls THEN {"listen", "keys", "reply"} ELSE {"reply"})

\* While a client waits, whatever will end its wait is on its way, at every
\* moment between its sendto and the answer's (client.cpp:70-93,
\* server.cpp:58-71, serverXX.cpp:73-88): no step of the two programs loses it
\* but a lost datagram, the end of the server, and serverXX hearing somebody else.
NobodyForgotten ==
  \A c \in Users : cPc[c] \in {"wait", "sleep"} => Owed(c) \/ c \in dropped

\* A client waits for ever (client.cpp:90-93) only when its question or answer
\* was lost, or the server ended or (serverXX) heard somebody else first.
WaitsOnlyIfDropped ==
  \A c \in Users :
    (cPc[c] \in {"wait", "sleep"})
      ~> (cPc[c] \notin {"wait", "sleep"} \/ c \in dropped)
=============================================================================
