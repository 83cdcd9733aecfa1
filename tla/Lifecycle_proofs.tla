-------------------------- MODULE Lifecycle_proofs --------------------------
(***************************************************************************)
(* Proofs about making and deleting the relay, for any number of clients,  *)
(* whatever may fail and whatever the user does.                           *)
(***************************************************************************)
EXTENDS Lifecycle, SequenceTheorems, TLAPS

\* The vector while it is filled and emptied.
LEMMA AppendClient ==
  ASSUME NEW S, NEW s \in Seq(S), NEW e \in S
  PROVE  /\ Append(s, e) \in Seq(S)
         /\ Len(Append(s, e)) = Len(s) + 1
         /\ \A i \in 1 .. Len(s) : Append(s, e)[i] = s[i]
         /\ Append(s, e)[Len(s) + 1] = e
BY AppendProperties

LEMMA FrontOfClients ==
  ASSUME NEW S, NEW s \in Seq(S)
  PROVE  /\ Front(s) \in Seq(S)
         /\ Len(Front(s)) = IF s = <<>> THEN 0 ELSE Len(s) - 1
         /\ \A i \in 1 .. Len(Front(s)) : Front(s)[i] = s[i]
<1>1. CASE s = <<>>
  BY <1>1, SubSeqProperties DEF Front
<1>2. CASE s # <<>>
  <2>1. Len(s) \in Nat /\ Len(s) > 0
    BY <1>2, EmptySeq, LenProperties
  <2>2. \A i \in 1 .. Len(s) - 1 : s[i] \in S
    BY <2>1, ElementOfSeq
  <2> DEFINE n == Len(s) - 1
  <2>3. n \in Int /\ 1 \in Int /\ \A i \in 1 .. n : s[i] \in S
    BY <2>1, <2>2
  <2> HIDE DEF n
  <2>4. /\ SubSeq(s, 1, n) \in Seq(S)
        /\ Len(SubSeq(s, 1, n)) = IF 1 <= n THEN n - 1 + 1 ELSE 0
        /\ \A i \in 1 .. n - 1 + 1 : SubSeq(s, 1, n)[i] = s[1 + i - 1]
    BY <2>3, SubSeqProperties
  <2>5. n \in Nat
    BY <2>1 DEF n
  <2>6. n - 1 + 1 = n /\ \A i \in 1 .. n : 1 + i - 1 = i
    BY <2>5
  <2>7. /\ Len(SubSeq(s, 1, n)) = n
        /\ \A i \in 1 .. n : SubSeq(s, 1, n)[i] = s[i]
    BY <2>4, <2>5, <2>6
  <2>8. QED BY <1>2, <2>4, <2>7 DEF Front, n
<1>3. QED BY <1>1, <1>2

LEMMA LastOfClients ==
  ASSUME NEW S, NEW s \in Seq(S), s # <<>>
  PROVE  Len(s) \in 1 .. Len(s) /\ Last(s) \in S /\ Last(s) = s[Len(s)]
<1>1. Len(s) \in Nat /\ Len(s) > 0
  BY EmptySeq, LenProperties
<1>2. QED BY <1>1, ElementOfSeq DEF Last
-----------------------------------------------------------------------------
\* While the worker makes its objects, there is room for the next client; in
\* its loops it is at a client of the range.
Room == dPc = "make" => dAt <= N /\ (clients = <<>> \/ Len(clients) < dAt)

Within ==
  /\ dPc \in {"fanout", "second", "reply", "tellReply"} => dAt >= 1
  /\ dPc \in {"reply", "tellReply"} => dAt <= Len(dRange)

DispInv == DispTypeOK /\ Room /\ Within

TypeInv == TypeOK /\ Room /\ Within

LEMMA TypeInit == ASSUME LifecycleAssumption, Init PROVE TypeInv
BY EmptySeq DEF LifecycleAssumption, Init, TypeInv, TypeOK, GuiTypeOK, DispTypeOK,
   WorkTypeOK, PastTypeOK, Room, Within, Objects

\* What a step leaves alone keeps its type.
LEMMA TypeFrame ==
  ASSUME TypeInv
  PROVE  /\ UNCHANGED guiVars => GuiTypeOK'
         /\ UNCHANGED dispVars => DispInv'
         /\ UNCHANGED <<life, workVars>> => WorkTypeOK'
         /\ UNCHANGED pastVars => PastTypeOK'
<1>1. UNCHANGED guiVars => GuiTypeOK'
  BY DEF TypeInv, TypeOK, GuiTypeOK, guiVars, windowVars
<1>2. UNCHANGED dispVars => DispInv'
  BY DEF TypeInv, TypeOK, DispInv, DispTypeOK, Room, Within, dispVars, placeVars
<1>3. UNCHANGED <<life, workVars>> => WorkTypeOK'
  BY DEF TypeInv, TypeOK, WorkTypeOK, workVars, errVars
<1>4. UNCHANGED pastVars => PastTypeOK'
  BY DEF TypeInv, TypeOK, PastTypeOK, pastVars
<1>5. QED BY <1>1, <1>2, <1>3, <1>4

LEMMA TypeParts ==
  GuiTypeOK' /\ DispInv' /\ WorkTypeOK' /\ PastTypeOK' => TypeInv'
BY DEF TypeInv, TypeOK, DispInv

LEMMA NothingMadeType ==
  ASSUME LifecycleAssumption, NEW place \in {"none", "make"}, NothingMade(place)
  PROVE  DispInv' /\ WorkTypeOK'
<1>1. <<>> \in Seq(Objects) /\ Len(<<>>) = 0
  BY EmptySeq
<1>2. /\ dStop' = FALSE /\ dPc' = place /\ dAt' = 0 /\ N \in Nat
      /\ dRange' = <<>> /\ clients' = <<>>
  BY DEF NothingMade, LifecycleAssumption
<1>3. /\ clients' \in Seq(Objects) /\ Len(clients') <= N
      /\ dRange' \in Seq(Objects) /\ Len(dRange') <= N
  <2>1. Len(clients') = 0 /\ Len(dRange') = 0
    BY <1>1, <1>2
  <2>2. QED BY <1>1, <1>2, <2>1
<1>4. dAt' \in 0 .. N + 1
  BY <1>2
<1>5. dPc' \in {"none", "make"} /\ dStop' \in BOOLEAN
  BY <1>2
<1>6. DispTypeOK'
  BY <1>3, <1>4, <1>5 DEF DispTypeOK
<1>7. Room' /\ Within'
  BY <1>2 DEF Room, Within
<1>8. WorkTypeOK'
  BY DEF NothingMade, WorkTypeOK
<1>9. QED BY <1>8, <1>6, <1>7 DEF DispInv

LEMMA CrashType ==
  ASSUME TypeInv, NEW why \in {"null", "race", "freed", "join", "traffic"}, Crash(why)
  PROVE  TypeInv'
<1>1. UNCHANGED guiVars /\ UNCHANGED dispVars /\ UNCHANGED <<life, workVars>>
  BY DEF Crash
<1>2. PastTypeOK'
  BY DEF Crash, TypeInv, TypeOK, PastTypeOK
<1>3. QED BY <1>1, <1>2, TypeFrame, TypeParts
-----------------------------------------------------------------------------
\* The windows' thread.
LEMMA GuiTypeStep ==
  ASSUME TypeInv, LifecycleAssumption, Gui
  PROVE  TypeInv'
<1> USE TypeFrame, TypeParts
<1> DEFINE Crashes == \/ TickBeforeServer \/ TickWhileMaking \/ EditWhileMaking
                      \/ JoinNoThread \/ DeleteWhileMaking \/ DeleteTwice
<1>0. N \in Nat /\ 0 \in Objects
  BY DEF LifecycleAssumption, Objects
<1>1. CASE FirstTick
  <2>1. GuiTypeOK'
    BY <1>1 DEF FirstTick, TypeInv, TypeOK, GuiTypeOK
  <2>2. QED BY <1>1, <2>1, NothingMadeType DEF FirstTick, Fresh
<1>2. CASE Quit
  <2>1. GuiTypeOK' /\ PastTypeOK'
    BY <1>2 DEF Quit, TypeInv, TypeOK, GuiTypeOK, PastTypeOK
  <2>2. QED BY <1>2, <2>1, NothingMadeType DEF Quit
<1>3. CASE Restart
  <2>1. GuiTypeOK' /\ PastTypeOK'
    BY <1>3 DEF Restart, windowVars, TypeInv, TypeOK, GuiTypeOK, PastTypeOK
  <2>2. QED BY <1>3, <2>1, NothingMadeType DEF Restart, Fresh
<1>4. CASE Save
  <2>1. GuiTypeOK' /\ PastTypeOK'
    BY <1>4 DEF Save, TypeInv, TypeOK, GuiTypeOK, DispTypeOK, PastTypeOK
  <2>2. CASE made
    <3>1. DispInv'
      BY <1>4, <2>2 DEF Save, placeVars, TypeInv, TypeOK, DispInv, DispTypeOK, Room, Within
    <3>2. QED BY <1>4, <2>1, <2>2, <3>1 DEF Save
  <2>3. CASE ~made
    BY <1>4, <2>1, <2>3, NothingMadeType DEF Save, Fresh
  <2>4. QED BY <2>2, <2>3
<1>5. CASE Crashes
  BY <1>5, CrashType DEF TickBeforeServer, TickWhileMaking, EditWhileMaking,
     JoinNoThread, DeleteWhileMaking, DeleteTwice
<1>6. CASE OpenDialog \/ CloseDialog \/ ToggleTraffic
  <2>1. GuiTypeOK'
    BY <1>6 DEF OpenDialog, CloseDialog, ToggleTraffic, TypeInv, TypeOK, GuiTypeOK
  <2>2. QED BY <1>6, <2>1 DEF OpenDialog, CloseDialog, ToggleTraffic
<1>7. ASSUME NEW w \in Objects, JoinNext(w), UNCHANGED windowVars,
             UNCHANGED <<life, wAt, errVars, overruled>>
      PROVE  GuiTypeOK' /\ WorkTypeOK'
  BY <1>7 DEF JoinNext, TellToStop, windowVars, errVars, TypeInv, TypeOK, GuiTypeOK, WorkTypeOK
<1>8. ASSUME UNCHANGED windowVars, UNCHANGED <<gAt, life, wStop, wAt, errVars, overruled>>,
             gPc' \in {"clients", "joinDispatcher"}
      PROVE  GuiTypeOK' /\ WorkTypeOK'
  BY <1>8 DEF windowVars, errVars, TypeInv, TypeOK, GuiTypeOK, WorkTypeOK
<1>9. CASE DeleteServer
  BY <1>0, <1>7, <1>8, <1>9 DEF DeleteServer
<1>10. CASE DeleteClient
  <2>1. clients # <<>> => Last(clients) \in Objects
    BY LastOfClients DEF TypeInv, TypeOK, DispTypeOK
  <2>2. QED BY <1>7, <1>8, <1>10, <2>1 DEF DeleteClient, NoClients
<1>11. CASE Join
  <2>1. GuiTypeOK' /\ WorkTypeOK'
    BY <1>11 DEF Join, windowVars, workVars, errVars, TypeInv, TypeOK, GuiTypeOK, WorkTypeOK
  <2>2. QED BY <1>11, <2>1 DEF Join
<1>12. CASE PopClient
  <2>1. /\ clients \in Seq(Objects) /\ Len(clients) \in Nat
        /\ Front(clients) \in Seq(Objects)
        /\ Len(Front(clients)) = IF clients = <<>> THEN 0 ELSE Len(clients) - 1
    BY FrontOfClients, LenProperties DEF TypeInv, TypeOK, DispTypeOK
  <2>2. (clients = <<>> => Front(clients) = <<>>) /\ Len(Front(clients)) <= N
    BY <1>0, <2>1, EmptySeq DEF TypeInv, TypeOK, DispTypeOK
  <2>3. DispInv'
    BY <1>12, <2>1, <2>2 DEF PopClient, placeVars, TypeInv, TypeOK, DispInv, DispTypeOK, Room, Within
  <2>4. GuiTypeOK'
    BY <1>12 DEF PopClient, windowVars, TypeInv, TypeOK, GuiTypeOK
  <2>5. QED BY <1>12, <2>3, <2>4 DEF PopClient
<1>13. QED
  BY <1>1, <1>2, <1>3, <1>4, <1>5, <1>6, <1>9, <1>10, <1>11, <1>12 DEF Gui, Deleting

\* The dispatcher's worker.
LEMMA DispatcherTypeStep ==
  ASSUME TypeInv, LifecycleAssumption, DispatcherStep
  PROVE  TypeInv'
<1> USE TypeFrame, TypeParts
<1>0. N \in Nat /\ Objects = 0 .. N
  BY DEF LifecycleAssumption, Objects
<1>1. /\ DispTypeOK /\ Room /\ Within
      /\ Len(clients) \in Nat /\ Len(dRange) \in Nat /\ dAt \in Int
  BY LenProperties DEF TypeInv, TypeOK, DispTypeOK
<1>2. CASE Make
  <2>1. dAt \in Objects
    BY <1>0, <1>1, <1>2 DEF Make, New, Room, DispTypeOK
  <2>2. WorkTypeOK'
    BY <1>2, <2>1 DEF Make, New, errVars, TypeInv, TypeOK, WorkTypeOK
  <2>3. /\ clients' \in Seq(Objects) /\ Len(clients') <= N
        /\ clients' = <<>> \/ Len(clients') <= dAt
    <3>1. CASE dAt = 0
      BY <1>0, <1>1, <1>2, <3>1 DEF Make, New, Room, DispTypeOK
    <3>2. CASE dAt # 0
      <4>1. Len(clients) < dAt
        BY <1>0, <1>1, <1>2, <2>1, <3>2, EmptySeq DEF Make, New, Room
      <4>2. Append(clients, dAt) \in Seq(Objects) /\ Len(Append(clients, dAt)) = Len(clients) + 1
        BY <1>1, <2>1, AppendClient DEF DispTypeOK
      <4>3. QED BY <1>0, <1>1, <1>2, <2>1, <3>2, <4>1, <4>2 DEF Make, New
    <3>3. QED BY <3>1, <3>2
  <2>4. Len(clients') \in Nat
    BY <2>3, LenProperties
  <2>5. DispInv'
    <3>1. CASE MoreClients
      BY <1>0, <1>1, <1>2, <2>1, <2>3, <2>4, <3>1 DEF Make, New, MoreClients, DispInv, DispTypeOK, Room, Within
    <3>2. CASE ~MoreClients
      BY <1>0, <1>1, <1>2, <2>1, <2>3, <2>4, <3>2 DEF Make, New, MoreClients, DispInv, DispTypeOK, Room, Within
    <3>3. QED BY <3>1, <3>2
  <2>6. QED BY <1>2, <2>2, <2>5 DEF Make, New
<1>3. ASSUME NEW w, UseFreed(w) PROVE TypeInv'
  BY <1>3, CrashType DEF UseFreed
<1>4. ASSUME DispInv', UNCHANGED <<guiVars, life, workVars, pastVars>> PROVE TypeInv'
  BY <1>4
<1>5. ASSUME NEW place \in {"fanout", "second"}, LoopAt(place), UNCHANGED <<dStop, clients>>
      PROVE  DispInv'
  BY <1>0, <1>1, <1>5 DEF LoopAt, DispInv, DispTypeOK, Room, Within
<1>6. ASSUME NEW place \in {"top", "tellPacket", "tellReply"}, GoOn(place),
             place = "tellReply" => dPc = "reply", UNCHANGED <<dStop, clients>>
      PROVE  DispInv'
  BY <1>0, <1>1, <1>6 DEF GoOn, DispInv, DispTypeOK, Room, Within
<1>15. ASSUME dPc \in {"fanout", "second"}, dAt <= Len(dRange), dAt' = dAt + 1,
              UNCHANGED <<dPc, dRange, dStop, clients>>
       PROVE  DispInv'
  BY <1>0, <1>1, <1>15 DEF DispInv, DispTypeOK, Room, Within
<1>7. CASE Top
  <2>1. DispInv'
    BY <1>0, <1>1, <1>7 DEF Top, DispInv, DispTypeOK, Room, Within
  <2>2. QED BY <1>4, <1>7, <2>1 DEF Top
<1>8. CASE UseServer
  BY <1>3, <1>4, <1>5, <1>8 DEF UseServer
<1>9. CASE FanOut
  <2>1. ASSUME dAt <= Len(dRange), dAt' = dAt + 1, UNCHANGED <<dPc, dRange, dStop, clients>>
        PROVE  DispInv'
    BY <1>15, <1>9, <2>1 DEF FanOut
  <2>2. QED BY <1>3, <1>4, <1>6, <1>9, <2>1 DEF FanOut
<1>10. CASE TellPacket
  BY <1>4, <1>5, <1>10 DEF TellPacket
<1>11. CASE UseClient
  <2>1. ASSUME dAt <= Len(dRange), dAt' = dAt + 1, UNCHANGED <<dPc, dRange, dStop, clients>>
        PROVE  DispInv'
    BY <1>15, <1>11, <2>1 DEF UseClient
  <2>2. ASSUME dAt <= Len(dRange), GoOn("reply"), UNCHANGED <<dStop, clients>>
        PROVE  DispInv'
    <3>1. dPc = "second"
      BY <1>11 DEF UseClient
    <3>2. QED BY <1>0, <1>1, <2>2, <3>1 DEF GoOn, DispInv, DispTypeOK, Room, Within
  <2>3. QED BY <1>3, <1>4, <1>6, <1>11, <2>1, <2>2 DEF UseClient
<1>12. CASE PutReply
  BY <1>3, <1>4, <1>6, <1>12 DEF PutReply
<1>13. CASE TellReply
  <2>1. DispInv'
    BY <1>0, <1>1, <1>13 DEF TellReply, DispInv, DispTypeOK, Room, Within
  <2>2. QED BY <1>4, <1>13, <2>1 DEF TellReply
<1>14. QED
  BY <1>2, <1>7, <1>8, <1>9, <1>10, <1>11, <1>12, <1>13 DEF DispatcherStep

\* The workers of the server and the clients.
LEMMA WorkerTypeStep ==
  ASSUME TypeInv, NEW w \in Objects, Worker(w)
  PROVE  TypeInv'
<1> USE TypeFrame, TypeParts
<1>1. CASE Start(w) \/ End(w) \/ Fail(w) \/ Tell(w) \/ \E yes \in BOOLEAN : Answer(w, yes)
  <2>1. WorkTypeOK'
    BY <1>1 DEF Start, End, Fail, Tell, Answer, errVars, TypeInv, TypeOK, WorkTypeOK
  <2>2. UNCHANGED guiVars /\ UNCHANGED dispVars /\ UNCHANGED pastVars
    BY <1>1 DEF Start, End, Fail, Tell, Answer
  <2>3. QED BY <2>1, <2>2
<1>2. CASE Open(w)
  <2>1. GuiTypeOK' /\ WorkTypeOK'
    BY <1>2 DEF Open, TypeInv, TypeOK, GuiTypeOK, WorkTypeOK
  <2>2. QED BY <1>2, <2>1 DEF Open
<1>3. CASE Close(w)
  <2>1. GuiTypeOK' /\ overruled' \subseteq Objects
    BY <1>3 DEF Close, Enables, TypeInv, TypeOK, GuiTypeOK, WorkTypeOK
  <2>2. WorkTypeOK'
    BY <1>3, <2>1 DEF Close, TypeInv, TypeOK, WorkTypeOK
  <2>3. QED BY <1>3, <2>1, <2>2 DEF Close
<1>4. QED BY <1>1, <1>2, <1>3 DEF Worker, WorkerStep

LEMMA TypeStep == ASSUME TypeInv, LifecycleAssumption, [Next]_vars PROVE TypeInv'
<1>1. CASE UNCHANGED vars
  <2>1. /\ UNCHANGED guiVars /\ UNCHANGED dispVars /\ UNCHANGED pastVars
        /\ UNCHANGED <<life, workVars>>
    BY <1>1 DEF vars
  <2>2. QED BY <2>1, TypeFrame, TypeParts
<1>2. CASE Next
  BY <1>2, GuiTypeStep, DispatcherTypeStep, WorkerTypeStep, CrashType DEF Next, Overrun
<1>3. QED BY <1>1, <1>2

\* Every variable keeps its type: in particular the vector never holds more
\* clients than are configured.
THEOREM TypeCorrect == Spec => []TypeOK
<1>1. Spec => []TypeInv
  BY LifecycleAssumption, TypeInit, TypeStep, PTL DEF Spec
<1>2. TypeInv => TypeOK
  BY DEF TypeInv
<1>3. QED BY <1>1, <1>2, PTL
-----------------------------------------------------------------------------
\* A worker that the destructor waits for was told to stop, and still is unless
\* an answer to its message box took that back.
THEOREM ToldToStop == Spec => []StaysTold
<1> USE DEF StaysTold
<1>1. Init => StaysTold
  BY DEF Init
<1>2. TypeInv /\ StaysTold /\ [Next]_vars => StaysTold'
  <2> SUFFICES ASSUME TypeInv, StaysTold, [Next]_vars, gPc' = "join", ~wStop'[gAt']
               PROVE  gAt' \in overruled'
    OBVIOUS
  <2>1. CASE UNCHANGED <<gPc, gAt, wStop, overruled>>
    BY <2>1
  <2>2. ASSUME NEW w \in Objects, JoinNext(w) PROVE FALSE
    BY <2>2 DEF JoinNext, TellToStop, TypeInv, TypeOK, WorkTypeOK
  <2>3. CASE Gui
    <3>1. CASE \/ TickBeforeServer \/ TickWhileMaking \/ EditWhileMaking
               \/ JoinNoThread \/ DeleteWhileMaking \/ DeleteTwice
      BY <2>1, <3>1 DEF TickBeforeServer, TickWhileMaking, EditWhileMaking,
         JoinNoThread, DeleteWhileMaking, DeleteTwice, Crash, guiVars, workVars
    <3>2. CASE \/ OpenDialog \/ CloseDialog \/ ToggleTraffic \/ FirstTick \/ Quit
               \/ Save \/ Restart \/ Join \/ PopClient
      BY <3>2 DEF OpenDialog, CloseDialog, ToggleTraffic, FirstTick, Quit, Save,
         Restart, Join, PopClient, Fresh, NothingMade
    <3>3. CASE DeleteServer
      BY <2>2, <3>3, LifecycleAssumption DEF DeleteServer, LifecycleAssumption, Objects
    <3>5. CASE DeleteClient
      <4>1. clients # <<>> => Last(clients) \in Objects
        BY LastOfClients DEF TypeInv, TypeOK, DispTypeOK
      <4>2. CASE clients = <<>>
        BY <3>5, <4>2 DEF DeleteClient, NoClients
      <4>3. CASE clients # <<>>
        <5>1. ~JoinNext(Last(clients))
          BY <2>2, <4>1, <4>3
        <5>2. QED BY <3>5, <4>3, <5>1 DEF DeleteClient, NoClients
      <4>4. QED BY <4>2, <4>3
    <3>4. QED BY <2>3, <3>1, <3>2, <3>3, <3>5 DEF Gui, Deleting
  <2>4. CASE DispatcherStep
    BY <2>1, <2>4 DEF DispatcherStep, Make, New, Top, UseServer, FanOut, TellPacket, UseClient,
       PutReply, TellReply, UseFreed, Crash, guiVars, workVars
  <2>5. ASSUME NEW w \in Objects, Worker(w) PROVE gAt' \in overruled'
    <3>1. CASE Close(w)
      <4>1. gPc' = gPc /\ gAt' = gAt /\ overruled \subseteq overruled'
        BY <3>1 DEF Close
      <4>2. CASE ~wStop[gAt]
        BY <4>1, <4>2
      <4>3. CASE wStop[gAt]
        <5>1. gAt = w /\ wErr[w] = "saidNo" /\ wStop' # wStop
          BY <3>1, <4>1, <4>3 DEF Close, TypeInv, TypeOK, GuiTypeOK, WorkTypeOK
        <5>2. QED BY <3>1, <4>1, <4>3, <5>1 DEF Close
      <4>4. QED BY <4>2, <4>3
    <3>2. CASE ~Close(w)
      BY <2>1, <2>5, <3>2 DEF Worker, WorkerStep, Start, End, Fail, Tell, Open, Answer, guiVars, workVars
    <3>3. QED BY <3>1, <3>2
  <2>6. CASE UNCHANGED vars
    BY <2>1, <2>6 DEF vars, guiVars, workVars
  <2>7. CASE Overrun
    BY <2>1, <2>7 DEF Overrun, Crash, guiVars, workVars
  <2>8. QED BY <2>3, <2>4, <2>5, <2>6, <2>7 DEF Next
<1>3. Spec => []TypeInv
  BY LifecycleAssumption, TypeInit, TypeStep, PTL DEF Spec
<1>4. QED BY <1>1, <1>2, <1>3, PTL DEF Spec
-----------------------------------------------------------------------------
\* There is a dispatcher unless its worker never was; its server is made first
\* and nothing is freed before the destructor runs.
RelayUp ==
  /\ made <=> dPc # "none"
  /\ gPc # "idle" => made
  /\ dPc \notin {"none", "make"} => life[0] # "none"
  /\ dPc = "make" /\ dAt # 0 => life[0] # "none"
  /\ gPc = "idle" => \A w \in Objects : life[w] # "deleted"

UpInv == RelayUp /\ UpIsSafe

LEMMA CrashWhileUp ==
  ASSUME TypeInv, RelayUp, NEW why, Crash(why), why # "no" => dPc = "make" \/ gPc # "idle"
  PROVE  UpInv'
BY DEF Crash, RelayUp, UpIsSafe, UpInv, TypeInv, TypeOK, GuiTypeOK, DispTypeOK, guiVars,
   windowVars, dispVars, placeVars

LEMMA UpStep ==
  ASSUME TypeInv, LifecycleAssumption, UpInv, Next
  PROVE  UpInv'
<1> USE DEF UpInv, RelayUp, UpIsSafe
<1>0. 0 \in Objects /\ N \in Nat /\ crashed = "no"
  BY DEF LifecycleAssumption, Objects, Next
<1>1. CASE FirstTick \/ Quit \/ Restart
  BY <1>0, <1>1 DEF FirstTick, Quit, Restart, Fresh, NothingMade, windowVars, pastVars
<1>2. CASE Save
  BY <1>0, <1>2 DEF Save, Fresh, NothingMade, placeVars
<1>3. CASE TickBeforeServer \/ TickWhileMaking \/ EditWhileMaking
  BY <1>3, CrashWhileUp DEF TickBeforeServer, TickWhileMaking, EditWhileMaking
<1>4. CASE JoinNoThread \/ DeleteWhileMaking \/ DeleteTwice
  BY <1>4, CrashWhileUp DEF JoinNoThread, DeleteWhileMaking, DeleteTwice
<1>5. CASE OpenDialog \/ CloseDialog \/ ToggleTraffic
  BY <1>0, <1>5 DEF OpenDialog, CloseDialog, ToggleTraffic, dispVars, placeVars, pastVars
<1>6. CASE DeleteServer \/ DeleteClient \/ PopClient
  BY <1>0, <1>6 DEF DeleteServer, DeleteClient, PopClient, JoinNext, windowVars, dispVars,
     placeVars, pastVars
<1>7. CASE Join
  BY <1>0, <1>7 DEF Join, windowVars, dispVars, placeVars, pastVars, TypeInv, TypeOK,
     GuiTypeOK, WorkTypeOK
<1>8. CASE Make
  <2>1. dAt \in Objects
    BY <1>0, <1>8 DEF Make, New, TypeInv, TypeOK, DispTypeOK, Room, Objects
  <2>2. /\ life'[0] # "none"
        /\ \A w \in Objects : life[w] # "deleted" => life'[w] # "deleted"
    BY <1>0, <1>8, <2>1 DEF Make, New, TypeInv, TypeOK, WorkTypeOK
  <2>3. QED BY <1>0, <1>8, <2>2 DEF Make, New, guiVars, windowVars, pastVars
<1>9. ASSUME NEW w \in Objects, UseFreed(w) PROVE UpInv'
  BY <1>9, CrashWhileUp DEF UseFreed
<1>10. ASSUME dPc \notin {"none", "make"}, dPc' \notin {"none", "make"},
              UNCHANGED <<guiVars, life, pastVars>>
       PROVE  UpInv'
  BY <1>0, <1>10 DEF guiVars, windowVars, pastVars
<1>11. ASSUME dAt \in 1 .. Len(dRange) PROVE dRange[dAt] \in Objects
  BY <1>11, ElementOfSeq DEF TypeInv, TypeOK, DispTypeOK
<1>12. CASE Top \/ TellPacket \/ TellReply
  BY <1>10, <1>12 DEF Top, TellPacket, TellReply, LoopAt
<1>13. CASE UseServer \/ PutReply
  BY <1>0, <1>9, <1>10, <1>13 DEF UseServer, PutReply, LoopAt, GoOn
<1>14. CASE FanOut
  <2>1. dAt <= Len(dRange) => dRange[dAt] \in Objects
    BY <1>11, <1>14, LenProperties DEF FanOut, TypeInv, TypeOK, DispTypeOK, Within
  <2>2. QED BY <1>9, <1>10, <1>14, <2>1 DEF FanOut, GoOn
<1>15. CASE UseClient
  <2>1. dAt <= Len(dRange) => dRange[dAt] \in Objects
    BY <1>11, <1>15, LenProperties DEF UseClient, TypeInv, TypeOK, DispTypeOK, Within
  <2>2. QED BY <1>9, <1>10, <1>15, <2>1 DEF UseClient, GoOn
<1>16. ASSUME NEW w \in Objects, Worker(w) PROVE UpInv'
  BY <1>0, <1>16 DEF Worker, WorkerStep, Start, End, Fail, Tell, Open, Answer, Close, guiVars,
     windowVars, dispVars, placeVars, pastVars
<1>17. CASE Overrun
  BY <1>17 DEF Overrun, Crash, Reporting, guiVars, windowVars, dispVars, placeVars, workVars, errVars
<1>18. QED
  BY <1>1, <1>2, <1>3, <1>4, <1>5, <1>6, <1>7, <1>8, <1>12, <1>13, <1>14, <1>15, <1>16, <1>17
  DEF Next, Gui, Deleting, DispatcherStep

\* Once up, until the destructor runs, only the race in the traffic text ends
\* the process.
THEOREM SafeOnceUp == Spec => []UpIsSafe
<1>1. LifecycleAssumption /\ Init => UpInv
  BY DEF LifecycleAssumption, Init, UpInv, RelayUp, UpIsSafe, Objects
<1>2. TypeInv /\ LifecycleAssumption /\ UpInv /\ [Next]_vars => UpInv'
  <2>1. CASE UNCHANGED vars
    BY <2>1 DEF vars, guiVars, windowVars, dispVars, placeVars, workVars, errVars, pastVars,
       UpInv, RelayUp, UpIsSafe, Reporting
  <2>2. QED BY <2>1, UpStep
<1>3. Spec => []TypeInv
  BY LifecycleAssumption, TypeInit, TypeStep, PTL DEF Spec
<1>4. UpInv => UpIsSafe
  BY DEF UpInv
<1>5. QED BY LifecycleAssumption, <1>1, <1>2, <1>3, <1>4, PTL DEF Spec
-----------------------------------------------------------------------------
\* A box that will enable hMain again is open; none is while the destructor
\* runs, nor where no worker is.
BoxInv ==
  /\ DisabledByOne
  /\ gPc # "idle" => enabled
  /\ made <=> dPc # "none"
  /\ gPc # "idle" => made
  /\ \A w \in Objects : reenables[w] => wErr[w] \in {"open", "saidYes", "saidNo"}
  /\ \A w \in Objects : wAt[w] = "none" => wErr[w] = "no"
  /\ dPc = "make" => \A w \in Objects : w >= dAt => wAt[w] = "none"
  /\ ~made => \A w \in Objects : wAt[w] = "none"

LEMMA BoxWorkerStep ==
  ASSUME TypeInv, BoxInv, NEW w \in Objects, Worker(w)
  PROVE  BoxInv'
<1> USE DEF BoxInv, DisabledByOne, Claims
<1>0. /\ reenables \in [Objects -> BOOLEAN] /\ enabled \in BOOLEAN /\ dialog \in BOOLEAN
      /\ wAt \in [Objects -> {"none", "start", "run", "ended"}]
      /\ wErr \in [Objects -> {"no", "tell", "ask", "open", "saidYes", "saidNo"}]
  BY DEF TypeInv, TypeOK, GuiTypeOK, WorkTypeOK
<1>1. CASE Start(w) \/ End(w)
  BY <1>0, <1>1 DEF Start, End, guiVars, windowVars, dispVars, placeVars, errVars
<1>2. CASE Fail(w) \/ Tell(w) \/ \E yes \in BOOLEAN : Answer(w, yes)
  BY <1>0, <1>2 DEF Fail, Tell, Answer, guiVars, windowVars, dispVars, placeVars
<1>3. CASE Open(w)
  BY <1>0, <1>3 DEF Open, dispVars, placeVars
<1>4. CASE Close(w)
  BY <1>0, <1>4 DEF Close, Enables, dispVars, placeVars
<1>5. QED BY <1>1, <1>2, <1>3, <1>4 DEF Worker, WorkerStep

LEMMA BoxOtherStep ==
  ASSUME TypeInv, LifecycleAssumption, BoxInv, Gui \/ DispatcherStep \/ Overrun
  PROVE  BoxInv'
<1> USE DEF BoxInv, DisabledByOne, Claims
<1>1. CASE FirstTick \/ Restart \/ Quit \/ Save
  BY <1>1 DEF FirstTick, Restart, Quit, Save, Fresh, NothingMade, windowVars, placeVars,
     workVars, errVars
<1>2. CASE OpenDialog \/ CloseDialog \/ ToggleTraffic
  BY <1>2 DEF OpenDialog, CloseDialog, ToggleTraffic, dispVars, placeVars, workVars, errVars
<1>3. ASSUME NEW why, Crash(why) PROVE BoxInv'
  BY <1>3 DEF Crash, guiVars, windowVars, dispVars, placeVars, workVars, errVars
<1>4. CASE \/ TickBeforeServer \/ TickWhileMaking \/ EditWhileMaking \/ JoinNoThread
           \/ DeleteWhileMaking \/ DeleteTwice \/ Overrun
  BY <1>3, <1>4 DEF TickBeforeServer, TickWhileMaking, EditWhileMaking, JoinNoThread,
     DeleteWhileMaking, DeleteTwice, Overrun
<1>5. CASE DeleteServer \/ DeleteClient \/ PopClient \/ Join
  BY <1>5 DEF DeleteServer, DeleteClient, PopClient, Join, JoinNext, windowVars, dispVars,
     placeVars, workVars, errVars
<1>6. CASE Make
  <2>1. /\ wAt'[dAt] \in {"none", "start"} /\ dAt \in Int
        /\ \A v \in Objects : v # dAt => wAt'[v] = wAt[v]
        /\ wErr' = wErr /\ reenables' = reenables
    <3>1. dAt \in Objects
      BY <1>6 DEF Make, New, TypeInv, TypeOK, DispTypeOK, Room, Objects, LifecycleAssumption
    <3>2. QED BY <1>6, <3>1 DEF Make, New, errVars, TypeInv, TypeOK, WorkTypeOK, Objects
  <2>2. /\ dPc = "make" /\ dPc' \in {"make", "top"} /\ (dPc' = "make" => dAt' = dAt + 1)
        /\ UNCHANGED <<gPc, made, enabled, dialog>>
    BY <1>6 DEF Make, New, guiVars, windowVars
  <2>3. \A v \in Objects : v \in Int
    BY DEF Objects
  <2>4. made /\ made' /\ dPc' # "none"
    BY <2>2
  <2>5. DisabledByOne'
    BY <2>1, <2>2
  <2>6. \A v \in Objects : wAt'[v] = "none" => wErr'[v] = "no"
    BY <2>1, <2>2, <2>3
  <2>7. dPc' = "make" => \A v \in Objects : v >= dAt' => wAt'[v] = "none"
    BY <2>1, <2>2, <2>3
  <2>8. QED BY <2>1, <2>2, <2>4, <2>5, <2>6, <2>7
<1>7. ASSUME dPc \notin {"none", "make"}, dPc' \notin {"none", "make"},
             UNCHANGED <<guiVars, workVars>>
      PROVE  BoxInv'
  BY <1>7 DEF guiVars, windowVars, workVars, errVars
<1>8. CASE Top \/ UseServer \/ FanOut \/ TellPacket \/ UseClient \/ PutReply \/ TellReply
  BY <1>3, <1>7, <1>8 DEF Top, UseServer, FanOut, TellPacket, UseClient, PutReply, TellReply,
     UseFreed, LoopAt, GoOn
<1>9. QED
  BY <1>1, <1>2, <1>4, <1>5, <1>6, <1>8 DEF Gui, Deleting, DispatcherStep

\* The main window does not stay disabled: whenever it is, exactly one box or
\* dialog will enable it, for any number of workers with boxes.
THEOREM WindowComesBack == Spec => []DisabledByOne
<1>1. LifecycleAssumption /\ Init => BoxInv
  BY DEF Init, BoxInv, DisabledByOne, Claims
<1>2. TypeInv /\ LifecycleAssumption /\ BoxInv /\ [Next]_vars => BoxInv'
  <2>1. CASE UNCHANGED vars
    BY <2>1 DEF vars, guiVars, windowVars, dispVars, placeVars, workVars, errVars, BoxInv,
       DisabledByOne, Claims
  <2>2. CASE Next
    BY <2>2, BoxWorkerStep, BoxOtherStep DEF Next
  <2>3. QED BY <2>1, <2>2
<1>3. Spec => []TypeInv
  BY LifecycleAssumption, TypeInit, TypeStep, PTL DEF Spec
<1>4. BoxInv => DisabledByOne
  BY DEF BoxInv
<1>5. QED BY LifecycleAssumption, <1>1, <1>2, <1>3, <1>4, PTL DEF Spec
-----------------------------------------------------------------------------
\* As long as no Save came while the worker made its objects, the vector holds
\* the clients in their order, all that are not deleted yet are in it, and the
\* destructor goes from its end to its start.
InOrder ==
  ~early =>
    /\ gPc # "idle" => dPc # "make"
    /\ \A i \in 1 .. Len(clients) : clients[i] = i
    /\ \A w \in 1 .. N : life[w] = "alive" => w <= Len(clients)
    /\ life[0] = "alive" => gPc \in {"idle", "server"} \/ (gPc = "join" /\ gAt = 0)
    /\ dPc = "make" => dAt = Len(clients) + 1 \/ (dAt = 0 /\ clients = <<>>)
    /\ gPc \in {"join", "pop"} /\ gAt # 0 => gAt = Len(clients)
    /\ gPc = "pop" => gAt # 0 /\ life[gAt] = "deleted"
    /\ gPc = "joinDispatcher" => clients = <<>>

LeftInv == InOrder /\ LeftOnlyIfEarly

LEMMA NothingMadeLeft ==
  ASSUME LifecycleAssumption, NEW place, NothingMade(place), gPc' = "idle", LeftOnlyIfEarly'
  PROVE  LeftInv'
<1>1. Len(<<>>) = 0 /\ 0 \in Objects /\ \A w \in 1 .. N : w \in Objects
  BY EmptySeq DEF LifecycleAssumption, Objects
<1>2. clients' = <<>> /\ dAt' = 0 /\ \A w \in Objects : life'[w] = "none"
  BY DEF NothingMade
<1>3. InOrder'
  BY <1>1, <1>2 DEF InOrder
<1>4. QED BY <1>3 DEF LeftInv

LEMMA LeftGuiStep ==
  ASSUME TypeInv, LifecycleAssumption, LeftInv, Gui
  PROVE  LeftInv'
<1> USE DEF LeftInv, LeftOnlyIfEarly
<1>0. /\ N \in Nat /\ 0 \in Objects /\ \A w \in Objects : w = 0 \/ w \in 1 .. N
      /\ clients \in Seq(Objects) /\ Len(clients) \in Nat /\ gAt \in Objects
      /\ life \in [Objects -> {"none", "alive", "deleted"}] /\ early \in BOOLEAN
      /\ (clients = <<>> => Len(clients) = 0)
  BY EmptySeq, LenProperties
  DEF LifecycleAssumption, Objects, TypeInv, TypeOK, GuiTypeOK, DispTypeOK, WorkTypeOK, PastTypeOK
<1>1. CASE FirstTick
  BY <1>1, NothingMadeLeft DEF FirstTick, Fresh, pastVars
<1>2. CASE Quit
  BY <1>2, NothingMadeLeft DEF Quit
<1>3. CASE Restart
  <2>1. ~early => orphans' = {}
    BY <1>0, <1>3 DEF Restart, InOrder
  <2>2. early' = early /\ gPc' = "idle" /\ NothingMade("make")
    BY <1>3 DEF Restart, Fresh
  <2>3. QED BY <1>0, <2>1, <2>2, NothingMadeLeft
<1>4. CASE Save
  <2>1. CASE made
    BY <1>0, <1>4, <2>1 DEF Save, placeVars, InOrder
  <2>2. CASE ~made
    BY <1>4, <2>2, NothingMadeLeft DEF Save, Fresh
  <2>3. QED BY <2>1, <2>2
<1>5. CASE \/ TickBeforeServer \/ TickWhileMaking \/ EditWhileMaking \/ JoinNoThread
           \/ DeleteWhileMaking \/ DeleteTwice
  BY <1>5 DEF TickBeforeServer, TickWhileMaking, EditWhileMaking, JoinNoThread,
     DeleteWhileMaking, DeleteTwice, Crash, guiVars, dispVars, placeVars, InOrder
<1>6. CASE OpenDialog \/ CloseDialog \/ ToggleTraffic
  BY <1>6 DEF OpenDialog, CloseDialog, ToggleTraffic, dispVars, placeVars, pastVars, InOrder
<1>7. CASE DeleteServer
  BY <1>0, <1>7 DEF DeleteServer, JoinNext, dispVars, placeVars, pastVars, InOrder
<1>8. CASE DeleteClient
  <2>1. clients # <<>> => Len(clients) \in 1 .. Len(clients) /\ Last(clients) = clients[Len(clients)]
    BY <1>0, LastOfClients
  <2>2. CASE clients = <<>>
    BY <1>0, <1>8, <2>2 DEF DeleteClient, NoClients, dispVars, placeVars, pastVars, InOrder
  <2>3. CASE clients # <<>>
    BY <1>0, <1>8, <2>1, <2>3 DEF DeleteClient, NoClients, JoinNext, dispVars, placeVars,
       pastVars, InOrder
  <2>4. QED BY <2>2, <2>3
<1>9. CASE Join
  <2>1. /\ life' = [life EXCEPT ![gAt] = "deleted"]
        /\ gPc = "join" /\ gPc' = IF gAt = 0 THEN "clients" ELSE "pop"
        /\ UNCHANGED <<gAt, dPc, dAt, clients, early, orphans>>
    BY <1>9 DEF Join, dispVars, placeVars, pastVars
  <2>2. QED BY <1>0, <2>1 DEF InOrder, Objects
<1>10. CASE PopClient
  <2>1. /\ clients' = Front(clients) /\ gPc = "pop" /\ gPc' = "clients"
        /\ UNCHANGED <<gAt, dPc, dAt, life, early, orphans>>
    BY <1>10 DEF PopClient, placeVars, pastVars
  <2>2. /\ Len(Front(clients)) = IF clients = <<>> THEN 0 ELSE Len(clients) - 1
        /\ \A i \in 1 .. Len(Front(clients)) : Front(clients)[i] = clients[i]
    BY <1>0, FrontOfClients
  <2>3. QED BY <1>0, <2>1, <2>2 DEF InOrder
<1>11. QED
  BY <1>1, <1>2, <1>3, <1>4, <1>5, <1>6, <1>7, <1>8, <1>9, <1>10 DEF Gui, Deleting

LEMMA LeftOtherStep ==
  ASSUME TypeInv, LifecycleAssumption, LeftInv,
         DispatcherStep \/ Overrun \/ \E w \in Objects : Worker(w)
  PROVE  LeftInv'
<1> USE DEF LeftInv, LeftOnlyIfEarly
<1>1. CASE Make
  <2>1. /\ N \in Nat /\ dAt \in Objects /\ Objects = 0 .. N
        /\ clients \in Seq(Objects) /\ Len(clients) \in Nat
        /\ life \in [Objects -> {"none", "alive", "deleted"}]
        /\ (clients = <<>> => Len(clients) = 0)
    BY <1>1, EmptySeq, LenProperties
    DEF Make, New, LifecycleAssumption, Objects, TypeInv, TypeOK, DispTypeOK, WorkTypeOK, Room
  <2>2. /\ dPc = "make" /\ life' = [life EXCEPT ![dAt] = "alive"]
        /\ clients' = IF dAt = 0 THEN clients ELSE Append(clients, dAt)
        /\ (dPc' = "make" => dAt' = dAt + 1) /\ dPc' \in {"make", "top"}
        /\ UNCHANGED <<gPc, gAt, early, orphans>>
    BY <1>1 DEF Make, New, guiVars, pastVars
  <2>3. CASE early
    BY <2>2, <2>3 DEF InOrder
  <2>4. CASE ~early /\ dAt = 0
    BY <2>1, <2>2, <2>4 DEF InOrder
  <2>5. CASE ~early /\ dAt # 0
    <3>1. /\ Len(clients') = Len(clients) + 1 /\ clients'[Len(clients) + 1] = dAt
          /\ \A i \in 1 .. Len(clients) : clients'[i] = clients[i]
      BY <2>1, <2>2, <2>5, AppendClient
    <3>2. dAt = Len(clients) + 1 /\ gPc = "idle"
      BY <2>1, <2>2, <2>5 DEF InOrder, TypeInv, TypeOK, GuiTypeOK
    <3>3. QED BY <2>1, <2>2, <2>5, <3>1, <3>2 DEF InOrder
  <2>6. QED BY <2>3, <2>4, <2>5
<1>2. ASSUME dPc # "make", dPc' # "make", UNCHANGED <<gPc, gAt, clients, life, early, orphans>>
      PROVE  LeftInv'
  BY <1>2 DEF InOrder
<1>3. ASSUME UNCHANGED <<gPc, gAt, dPc, dAt, clients, life, early, orphans>> PROVE LeftInv'
  BY <1>3 DEF InOrder
<1>4. CASE DispatcherStep /\ ~Make
  BY <1>2, <1>3, <1>4 DEF DispatcherStep, Top, UseServer, FanOut, TellPacket, UseClient,
     PutReply, TellReply, UseFreed, Crash, LoopAt, GoOn, guiVars, dispVars, placeVars, pastVars
<1>5. ASSUME NEW w \in Objects, Worker(w) PROVE LeftInv'
  BY <1>3, <1>5 DEF Worker, WorkerStep, Start, End, Fail, Tell, Open, Answer, Close, guiVars,
     dispVars, placeVars, pastVars
<1>6. CASE Overrun
  BY <1>3, <1>6 DEF Overrun, Crash, guiVars, dispVars, placeVars
<1>7. QED BY <1>1, <1>4, <1>5, <1>6

\* Every object is deleted with its dispatcher, unless a Save came before the
\* worker had made them all: for any number of clients.
THEOREM NothingLeftBehind == Spec => []LeftOnlyIfEarly
<1>1. LifecycleAssumption /\ Init => LeftInv
  <2> SUFFICES ASSUME LifecycleAssumption, Init PROVE LeftInv
    OBVIOUS
  <2>1. Len(<<>>) = 0 /\ 0 \in Objects /\ \A w \in 1 .. N : w \in Objects
    BY EmptySeq DEF LifecycleAssumption, Objects
  <2>2. QED BY <2>1 DEF Init, LeftInv, InOrder, LeftOnlyIfEarly
<1>2. TypeInv /\ LifecycleAssumption /\ LeftInv /\ [Next]_vars => LeftInv'
  <2>1. CASE UNCHANGED vars
    BY <2>1 DEF vars, guiVars, dispVars, placeVars, pastVars, LeftInv, InOrder, LeftOnlyIfEarly
  <2>2. CASE Next
    BY <2>2, LeftGuiStep, LeftOtherStep DEF Next
  <2>3. QED BY <2>1, <2>2
<1>3. Spec => []TypeInv
  BY LifecycleAssumption, TypeInit, TypeStep, PTL DEF Spec
<1>4. LeftInv => LeftOnlyIfEarly
  BY DEF LeftInv
<1>5. QED BY LifecycleAssumption, <1>1, <1>2, <1>3, <1>4, PTL DEF Spec
=============================================================================
