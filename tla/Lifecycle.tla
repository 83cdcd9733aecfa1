----------------------------- MODULE Lifecycle -----------------------------
(***************************************************************************)
(* Making, watching and deleting the relay: the thread of the windows      *)
(* (UDPdispatcher.cpp), the constructor and destructor of _dispatcher, and *)
(* what the workers do that can keep the destructor waiting.  Packets are  *)
(* left out: here a queue matters only as memory that may be freed.        *)
(*                                                                         *)
(* Object 0 is the server, objects 1 .. N are the clients; each has a      *)
(* worker.  One dispatcher is followed from `new` to `delete`, then the    *)
(* next one from the start; what the old one left behind is in `orphans`.  *)
(*                                                                         *)
(* A thread that sends a message to a window of another thread waits until *)
(* that thread pumps messages; the windows' thread does so when "idle",    *)
(* and not while it joins a worker.                                        *)
(***************************************************************************)
EXTENDS Integers, Sequences, SequencesExt

CONSTANTS
  N,          \* the clients configured
  Failing,    \* bound: the objects whose calls of Winsock may fail
  MayWatch    \* bound: may the user open dialogs and the traffic window

ASSUME LifecycleAssumption ==
  N \in Nat /\ Failing \subseteq 0 .. N /\ MayWatch \in BOOLEAN

VARIABLES
  gPc,        \* where the windows' thread is
  gAt,        \* the object whose destructor it is in
  made,       \* `dispatcher` is not null
  enabled,    \* hMain takes input
  dialog,     \* EditClient is open, modal to hMain
  traffic,    \* the traffic window is open and not frozen
  portZero,   \* config.server.port is 0
  dStop,      \* _dispatcher::stop
  dPc, dAt,   \* where its worker is
  dRange,     \* the clients its loop runs over
  clients,    \* _dispatcher::clients
  life,       \* of each object: "none", "alive" or "deleted"
  wStop,      \* stop, of each object
  wAt,        \* where each worker is
  wErr,       \* how far each is in error(), or "no"
  reenables,  \* its message box found hMain enabled and will enable it again
  crashed,    \* how the process ended, or "no"
  orphans,    \* the objects deleted dispatchers left alive
  early,      \* history: a dispatcher was deleted while it made its objects
  overruled   \* history: the workers told to stop, and then told not to

windowVars == <<made, enabled, dialog, traffic, portZero>>
guiVars == <<gPc, gAt, windowVars>>
placeVars == <<dPc, dAt, dRange>>
dispVars == <<dStop, placeVars, clients>>
errVars == <<wErr, reenables>>
workVars == <<wStop, wAt, errVars, overruled>>
pastVars == <<crashed, orphans, early>>
vars == <<guiVars, dispVars, life, workVars, pastVars>>

Objects == 0 .. N

\* No object is made; the dispatcher's worker is at place.
NothingMade(place) ==
  /\ dStop' = FALSE
  /\ dPc' = place /\ dAt' = 0 /\ dRange' = <<>>
  /\ clients' = <<>>
  /\ life' = [w \in Objects |-> "none"]
  /\ wStop' = [w \in Objects |-> FALSE]
  /\ wAt' = [w \in Objects |-> "none"]
  /\ wErr' = [w \in Objects |-> "no"]
  /\ reenables' = [w \in Objects |-> FALSE]
  /\ overruled' = {}

\* A dispatcher just constructed: its thread runs, nothing else is made.
Fresh == NothingMade("make")

Init ==
  /\ gPc = "idle" /\ gAt = 0
  /\ made = FALSE
  /\ enabled = TRUE /\ dialog = FALSE /\ traffic = FALSE
  /\ portZero \in BOOLEAN
  /\ dStop = FALSE
  /\ dPc = "none" /\ dAt = 0 /\ dRange = <<>>
  /\ clients = <<>>
  /\ life = [w \in Objects |-> "none"]
  /\ wStop = [w \in Objects |-> FALSE]
  /\ wAt = [w \in Objects |-> "none"]
  /\ wErr = [w \in Objects |-> "no"]
  /\ reenables = [w \in Objects |-> FALSE]
  /\ crashed = "no" /\ orphans = {} /\ early = FALSE /\ overruled = {}

Crash(why) ==
  /\ crashed' = why
  /\ UNCHANGED <<guiVars, dispVars, life, workVars, orphans, early>>
-----------------------------------------------------------------------------
\* WM_TIMER, first tick: start the system.
FirstTick ==
  /\ gPc = "idle" /\ ~made
  /\ made' = TRUE
  /\ Fresh
  /\ UNCHANGED <<gPc, gAt, enabled, dialog, traffic, portZero, pastVars>>

\* WM_TIMER, later ticks: getCounts reads through `server`, null until the
\* worker has made it, and runs over `clients`, which the worker may be
\* filling.  Otherwise it changes nothing.
TickBeforeServer ==
  /\ gPc = "idle" /\ made
  /\ life[0] = "none"
  /\ Crash("null")

TickWhileMaking ==
  /\ gPc = "idle" /\ made
  /\ life[0] # "none" /\ dPc = "make"
  /\ Crash("race")

\* IDC_ADD and IDC_EDIT: a modal dialog disables hMain, and enables it at its
\* end, also when a message box was opened over hMain meanwhile.
OpenDialog ==
  /\ gPc = "idle" /\ MayWatch
  /\ enabled
  /\ dialog' = TRUE /\ enabled' = FALSE
  /\ UNCHANGED <<gPc, gAt, made, traffic, portZero, dispVars, life, workVars, pastVars>>

CloseDialog ==
  /\ gPc = "idle"
  /\ dialog
  /\ dialog' = FALSE /\ enabled' = TRUE
  /\ UNCHANGED <<gPc, gAt, made, traffic, portZero, dispVars, life, workVars, pastVars>>

\* IDC_REMOVE and the end of a dialog change config.clients, which the worker
\* may be reading to make its clients.
EditWhileMaking ==
  /\ gPc = "idle" /\ (enabled \/ dialog)
  /\ life[0] # "none" /\ dPc = "make"
  /\ Crash("race")

\* The user opens, freezes or closes the traffic window; opening takes the
\* main window.
ToggleTraffic ==
  /\ gPc = "idle" /\ MayWatch
  /\ traffic \/ enabled
  /\ traffic' = ~traffic
  /\ UNCHANGED <<gPc, gAt, made, enabled, dialog, portZero, dispVars, life,
                 workVars, pastVars>>

\* WM_DESTROY: the process ends with its threads, and the port is free again.
Quit ==
  /\ gPc = "idle" /\ enabled
  /\ made' = FALSE
  /\ traffic' = FALSE
  /\ NothingMade("none")
  /\ orphans' = {} /\ early' = FALSE
  /\ UNCHANGED <<gPc, gAt, enabled, dialog, portZero, crashed>>

\* IDC_SAVE.  The destructor's first statement is stop = true; its wait for
\* joinable() ends at once.  With nothing to delete, `new` follows.
Save ==
  /\ gPc = "idle" /\ enabled
  /\ \/ /\ made
        /\ gPc' = "server"
        /\ dStop' = TRUE
        /\ UNCHANGED <<made, placeVars, clients, life, workVars>>
     \/ /\ ~made
        /\ made' = TRUE
        /\ Fresh
        /\ UNCHANGED gPc
  /\ early' = (early \/ dPc = "make")
  /\ UNCHANGED <<gAt, enabled, dialog, traffic, portZero, crashed, orphans>>

\* Mutant: the worker is not told.
TellNotToStop(w) == UNCHANGED wStop

\* ~_server, ~_client: stop = true, and the wait begins.
TellToStop(w) == wStop' = [wStop EXCEPT ![w] = TRUE]

JoinNext(w) == gPc' = "join" /\ gAt' = w /\ TellToStop(w)

\* delete server: nothing if it is null yet.
DeleteServer ==
  /\ gPc = "server"
  /\ \/ life[0] = "none" /\ gPc' = "clients" /\ UNCHANGED <<gAt, wStop>>
     \/ life[0] # "none" /\ JoinNext(0)
  /\ UNCHANGED <<windowVars, dispVars, life, wAt, errVars, overruled, pastVars>>

\* Mutant: the last client is forgotten.
NoClientsButOne == Len(clients) <= 1

NoClients == clients = <<>>

\* delete clients.back(), until there is none.
DeleteClient ==
  /\ gPc = "clients"
  /\ \/ NoClients /\ gPc' = "joinDispatcher" /\ UNCHANGED <<gAt, wStop>>
     \/ ~NoClients /\ JoinNext(Last(clients))
  /\ UNCHANGED <<windowVars, dispVars, life, wAt, errVars, overruled, pastVars>>

Ended(w) == wAt[w] = "ended"

\* sthread->join(), cthread->join(), and the object is freed.
Join ==
  /\ gPc = "join"
  /\ Ended(gAt)
  /\ life' = [life EXCEPT ![gAt] = "deleted"]
  /\ gPc' = IF gAt = 0 THEN "clients" ELSE "pop"
  /\ UNCHANGED <<gAt, windowVars, dispVars, workVars, pastVars>>

\* A server with port 0 made no thread: the pointer it joins is null.
JoinNoThread ==
  /\ gPc = "join"
  /\ wAt[gAt] = "none"
  /\ Crash("join")

\* If the worker makes another client meanwhile, that is the one dropped.
PopClient ==
  /\ gPc = "pop"
  /\ clients' = Front(clients)
  /\ gPc' = "clients"
  /\ UNCHANGED <<gAt, windowVars, dStop, placeVars, life, workVars, pastVars>>

\* The vector is filled while it is emptied; then what was freed is freed again.
DeleteWhileMaking ==
  /\ gPc \in {"clients", "pop"}
  /\ dPc = "make"
  /\ Crash("race")

DeleteTwice ==
  /\ gPc = "join"
  /\ life[gAt] = "deleted"
  /\ Crash("freed")

\* dthread->join() and the end of `delete dispatcher`; the rest of IDC_SAVE
\* makes the next one.  A message box left open keeps hMain as it is.
Restart ==
  /\ gPc = "joinDispatcher"
  /\ dPc = "ended"
  /\ gPc' = "idle"
  /\ orphans' = orphans \cup {w \in Objects : life[w] = "alive"}
  /\ Fresh
  /\ UNCHANGED <<gAt, windowVars, crashed, early>>
-----------------------------------------------------------------------------
\* Mutant: one client too many is made.
MoreClientsPastEnd == dAt <= N

MoreClients == dAt < N

\* Mutant: no server is made for port 0.
NewUnlessNoPort(w) ==
  life' = IF w = 0 /\ portZero THEN life ELSE [life EXCEPT ![w] = "alive"]

New(w) == life' = [life EXCEPT ![w] = "alive"]

\* _dispatcher::worker: makes the server, then the clients in turn.
Make ==
  /\ dPc = "make"
  /\ New(dAt)
  /\ wAt' = [wAt EXCEPT ![dAt] = IF dAt = 0 /\ portZero THEN "none" ELSE "start"]
  /\ clients' = IF dAt = 0 THEN clients ELSE Append(clients, dAt)
  /\ \/ MoreClients /\ dAt' = dAt + 1 /\ UNCHANGED dPc
     \/ ~MoreClients /\ dAt' = 0 /\ dPc' = "top"
  /\ UNCHANGED <<guiVars, dStop, dRange, wStop, errVars, overruled, pastVars>>

Top ==
  /\ dPc = "top"
  /\ dPc' = IF dStop THEN "ended" ELSE "server"
  /\ UNCHANGED <<guiVars, dStop, dAt, dRange, clients, life, workVars, pastVars>>

\* The worker goes on to place, at the start of a loop over the clients or not.
LoopAt(place) == dPc' = place /\ dAt' = 1 /\ dRange' = clients

GoOn(place) == dPc' = place /\ UNCHANGED <<dAt, dRange>>

\* What the worker does next after using object w.  Freed memory may end the
\* process, or read as a queue with nothing in it.
UseFreed(w) == life[w] = "deleted" /\ Crash("freed")

UseServer ==
  /\ dPc = "server"
  /\ \/ UseFreed(0)
     \/ /\ LoopAt("second") \/ (life[0] = "alive" /\ LoopAt("fanout"))
        /\ UNCHANGED <<guiVars, dStop, clients, life, workVars, pastVars>>

FanOut ==
  /\ dPc = "fanout"
  /\ \/ dAt <= Len(dRange) /\ UseFreed(dRange[dAt])
     \/ /\ \/ dAt <= Len(dRange) /\ dAt' = dAt + 1 /\ UNCHANGED <<dPc, dRange>>
           \/ dAt > Len(dRange) /\ GoOn("tellPacket")
        /\ UNCHANGED <<guiVars, dStop, clients, life, workVars, pastVars>>

\* AddTraffic: SetDlgItemText waits for the windows' thread if it is used.
Heard == ~traffic \/ gPc = "idle"

TellPacket ==
  /\ dPc = "tellPacket"
  /\ Heard
  /\ LoopAt("second")
  /\ UNCHANGED <<guiVars, dStop, clients, life, workVars, pastVars>>

\* The second loop: a client with a reply sends the worker by the server.
UseClient ==
  /\ dPc = "second"
  /\ \/ dAt <= Len(dRange) /\ UseFreed(dRange[dAt])
     \/ /\ \/ dAt <= Len(dRange) /\ dAt' = dAt + 1 /\ UNCHANGED <<dPc, dRange>>
           \/ dAt <= Len(dRange) /\ life[dRange[dAt]] = "alive" /\ GoOn("reply")
           \/ dAt > Len(dRange) /\ GoOn("top")
        /\ UNCHANGED <<guiVars, dStop, clients, life, workVars, pastVars>>

PutReply ==
  /\ dPc = "reply"
  /\ \/ UseFreed(0)
     \/ /\ GoOn("tellReply")
        /\ UNCHANGED <<guiVars, dStop, clients, life, workVars, pastVars>>

TellReply ==
  /\ dPc = "tellReply"
  /\ Heard
  /\ dPc' = "second" /\ dAt' = dAt + 1
  /\ UNCHANGED <<guiVars, dStop, dRange, clients, life, workVars, pastVars>>
-----------------------------------------------------------------------------
\* AddTraffic has no lock: memmove or strcat_s may end the process when another
\* thread is in szTraffic too, or was before and left it at odds with nTraffic.
\* Traffic.tla shows that this is the only way; here it is not kept who was.
\* IDC_SAVE reports too, at its end.
Reporting ==
  \/ \E w \in Objects : wErr[w] = "tell"
  \/ dPc \in {"tellPacket", "tellReply"}
  \/ gPc = "joinDispatcher"

Overrun ==
  /\ traffic
  /\ Reporting
  /\ Crash("traffic")
-----------------------------------------------------------------------------
\* Worker w of the server or a client.  "start" is up to the loop.
Start(w) ==
  /\ wAt[w] = "start" /\ wErr[w] = "no"
  /\ wAt' = [wAt EXCEPT ![w] = "run"]
  /\ UNCHANGED <<guiVars, dispVars, life, wStop, errVars, overruled, pastVars>>

End(w) ==
  /\ wAt[w] = "run" /\ wErr[w] = "no"
  /\ wStop[w]
  /\ wAt' = [wAt EXCEPT ![w] = "ended"]
  /\ UNCHANGED <<guiVars, dispVars, life, wStop, errVars, overruled, pastVars>>

\* A call fails and error() is called.
Fail(w) ==
  /\ w \in Failing
  /\ wErr[w] = "no"
  /\ wAt[w] = "start" \/ (wAt[w] = "run" /\ ~wStop[w])
  /\ wErr' = [wErr EXCEPT ![w] = "tell"]
  /\ UNCHANGED <<guiVars, dispVars, life, wStop, wAt, reenables, overruled, pastVars>>

Tell(w) ==
  /\ wErr[w] = "tell"
  /\ Heard
  /\ wErr' = [wErr EXCEPT ![w] = "ask"]
  /\ UNCHANGED <<guiVars, dispVars, life, wStop, wAt, reenables, overruled, pastVars>>

\* MessageBox(hMain, ...): it disables hMain, a window of another thread, and
\* will enable it again if it was enabled.
Open(w) ==
  /\ wErr[w] = "ask"
  /\ gPc = "idle"
  /\ wErr' = [wErr EXCEPT ![w] = "open"]
  /\ reenables' = [reenables EXCEPT ![w] = enabled]
  /\ enabled' = FALSE
  /\ UNCHANGED <<gPc, gAt, made, dialog, traffic, portZero, dispVars, life,
                 wStop, wAt, overruled, pastVars>>

Answer(w, yes) ==
  /\ wErr[w] = "open"
  /\ wErr' = [wErr EXCEPT ![w] = IF yes THEN "saidYes" ELSE "saidNo"]
  /\ UNCHANGED <<guiVars, dispVars, life, wStop, wAt, reenables, overruled, pastVars>>

\* Mutant: a box answered "no" leaves the window as it is.
EnablesOnYes(w) == reenables[w] /\ wErr[w] = "saidYes"

Enables(w) == reenables[w]

\* The box closes and error() returns: `stop = error(...)`, also where the
\* server's bind failed at the start; but where a socket could not be made,
\* "return" or try again.
Close(w) ==
  /\ wErr[w] \in {"saidYes", "saidNo"}
  /\ Enables(w) => gPc = "idle"
  /\ enabled' = (enabled \/ Enables(w))
  /\ reenables' = [reenables EXCEPT ![w] = FALSE]
  /\ wErr' = [wErr EXCEPT ![w] = "no"]
  /\ \/ /\ wAt[w] = "start"
        /\ wAt' = [wAt EXCEPT ![w] = IF wErr[w] = "saidYes" THEN "ended" ELSE @]
        /\ UNCHANGED <<wStop, overruled>>
     \/ /\ wAt[w] = "run" \/ (wAt[w] = "start" /\ w = 0)
        /\ wAt' = [wAt EXCEPT ![w] = "run"]
        /\ wStop' = [wStop EXCEPT ![w] = (wErr[w] = "saidYes")]
        /\ overruled' = IF wStop[w] /\ wErr[w] = "saidNo" THEN overruled \cup {w}
                                                          ELSE overruled
  /\ UNCHANGED <<gPc, gAt, made, dialog, traffic, portZero, dispVars, life, pastVars>>
-----------------------------------------------------------------------------
\* The destructor and the end of IDC_SAVE.
Deleting ==
  \/ DeleteServer \/ DeleteClient \/ Join \/ JoinNoThread \/ PopClient \/ Restart
  \/ DeleteWhileMaking \/ DeleteTwice

Gui ==
  \/ FirstTick \/ TickBeforeServer \/ TickWhileMaking \/ EditWhileMaking
  \/ OpenDialog \/ CloseDialog \/ ToggleTraffic \/ Quit \/ Save \/ Deleting

DispatcherStep ==
  \/ Make \/ Top \/ UseServer \/ FanOut \/ TellPacket
  \/ UseClient \/ PutReply \/ TellReply

WorkerStep(w) == Start(w) \/ End(w) \/ Tell(w) \/ Open(w) \/ Close(w)

Worker(w) == WorkerStep(w) \/ Fail(w) \/ \E yes \in BOOLEAN : Answer(w, yes)

Next ==
  /\ crashed = "no"
  /\ Gui \/ DispatcherStep \/ Overrun \/ \E w \in Objects : Worker(w)

Spec == Init /\ [][Next]_vars

\* Every thread runs when it can.  Nothing makes the user save or answer, or a
\* call fail.
Fairness ==
  /\ WF_vars(crashed = "no" /\ Deleting)
  /\ WF_vars(crashed = "no" /\ DispatcherStep)
  /\ \A w \in Objects : WF_vars(crashed = "no" /\ WorkerStep(w))

FairSpec == Spec /\ Fairness
-----------------------------------------------------------------------------
GuiTypeOK ==
  /\ gPc \in {"idle", "server", "clients", "join", "pop", "joinDispatcher"}
  /\ gAt \in Objects
  /\ made \in BOOLEAN /\ enabled \in BOOLEAN /\ dialog \in BOOLEAN
  /\ traffic \in BOOLEAN /\ portZero \in BOOLEAN

DispTypeOK ==
  /\ dStop \in BOOLEAN
  /\ dPc \in {"none", "make", "top", "server", "fanout", "tellPacket", "second",
              "reply", "tellReply", "ended"}
  /\ dAt \in 0 .. N + 1
  /\ dRange \in Seq(Objects) /\ Len(dRange) <= N
  /\ clients \in Seq(Objects) /\ Len(clients) <= N

WorkTypeOK ==
  /\ life \in [Objects -> {"none", "alive", "deleted"}]
  /\ wStop \in [Objects -> BOOLEAN] /\ reenables \in [Objects -> BOOLEAN]
  /\ wAt \in [Objects -> {"none", "start", "run", "ended"}]
  /\ wErr \in [Objects -> {"no", "tell", "ask", "open", "saidYes", "saidNo"}]
  /\ overruled \subseteq Objects

PastTypeOK ==
  /\ crashed \in {"no", "null", "race", "freed", "join", "traffic"}
  /\ orphans \subseteq Objects /\ early \in BOOLEAN

TypeOK == GuiTypeOK /\ DispTypeOK /\ WorkTypeOK /\ PastTypeOK

\* hMain does not stay disabled: whenever it is, exactly one message box or
\* dialog is going to enable it, whichever order boxes of several workers and
\* the dialog open and close in; and none is when it is enabled.
Claims(w) == reenables[w] /\ wErr[w] \in {"open", "saidYes", "saidNo"}

DisabledByOne ==
  IF enabled THEN ~dialog /\ \A w \in Objects : ~Claims(w)
  ELSE IF dialog THEN \A w \in Objects : ~Claims(w)
  ELSE \E w \in Objects : Claims(w) /\ \A v \in Objects \ {w} : ~Claims(v)

\* Once the dispatcher's worker has made its objects, and until the destructor
\* runs, neither a null pointer, nor freed memory, nor a thread that was never
\* made ends the process: only the race in the traffic text can, with its
\* window open and a thread of the relay in AddTraffic.
UpIsSafe ==
  crashed # "no" =>
    dPc = "make" \/ gPc # "idle" \/ (crashed = "traffic" /\ traffic /\ Reporting)

\* Every object is deleted with its dispatcher ("delete closes the client down",
\* dispatcher.cpp:18) unless the destructor ran while the worker still made
\* them: then those it made afterwards stay for good, the port bound.
LeftOnlyIfEarly == orphans # {} => early

\* A worker that the destructor waits for was told to stop, and still is unless
\* the answer to its message box came later and took that back (client.cpp:90).
StaysTold == gPc = "join" /\ ~wStop[gAt] => gAt \in overruled

\* IDC_SAVE comes back ("wait for worker to end", server.cpp:15), unless the
\* process ends.
SaveFinishes == (gPc # "idle") ~> (gPc = "idle" \/ crashed # "no")

\* Only this keeps IDC_SAVE from coming back: a worker in error(), which waits
\* for the windows' thread or the user; an answer that took a stop back; the
\* dispatcher's worker waiting for the traffic window.
Kept ==
  \/ \E w \in Objects : wErr[w] # "no"
  \/ gPc = "join" /\ gAt \in overruled
  \/ traffic /\ dPc \in {"tellPacket", "tellReply"}

SaveWaitsForAReason == (gPc # "idle") ~> (gPc = "idle" \/ crashed # "no" \/ Kept)
-----------------------------------------------------------------------------
\* README.md:30: the program is "fully multi-threaded with thread safe queues":
\* the dispatcher's worker does not reach into a queue that was freed.
NoUseAfterDelete == crashed # "freed"
=============================================================================
