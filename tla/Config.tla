------------------------------- MODULE Config -------------------------------
(***************************************************************************)
(* The list of clients (config.cpp): in memory as the user edits it, in    *)
(* the INI file entry by entry, and what is left of it when the program    *)
(* ends between two of the writes that save it.                            *)
(*                                                                         *)
(* The file has an entry C1, C2, ... per client in section clientURL and   *)
(* one in clientPort.  Reading stops at the first URL that is missing or   *)
(* empty: the two look the same to readINI, and are one value here.  The   *)
(* server's port is left out: the program writes back what it read.        *)
(***************************************************************************)
EXTENDS Integers, Sequences

CONSTANTS
  Url,          \* the URLs a client can have, apart from the empty one
  Empty,        \* the empty URL
  Typed,        \* bound: the numbers the user types for a port
  MaxClients    \* bound: clients in the list

ASSUME ConfigAssumption ==
  Empty \notin Url /\ Typed \subseteq Nat /\ MaxClients \in Nat

\* A port is an unsigned short.
Shorts == 65536

Port == 0 .. Shorts - 1

\* In the file a port is its digits.  Reading overflows nothing: a number that
\* was written has at most five.
utoa[n \in Port] == IF n >= 10 THEN Append(utoa[n \div 10], n % 10) ELSE <<n>>

atou(digits) ==
  LET n[k \in 0 .. Len(digits)] == IF k = 0 THEN 0 ELSE 10 * n[k - 1] + digits[k]
  IN n[Len(digits)]

VARIABLES
  clients,   \* config.clients
  fUrl,      \* section clientURL of the file
  fPort,     \* section clientPort; a missing entry reads as <<>>
  pc,        \* "off", "idle", or where writeConfiguration is
  n,         \* its n
  last,      \* history, in a save: the list on file when it began
  hid,       \* history, in a save: entries were hidden in the file then
  cut,       \* history: a save was interrupted
  blank      \* history: a client with an empty URL was saved

vars == <<clients, fUrl, fPort, pc, n, last, hid, cut, blank>>

Slots == 1 .. MaxClients + 1

Client == [url : Url \cup {Empty}, port : Port]

\* What readConfiguration makes of the file: its entries up to the first gap.
Listed == {i \in Slots : \A j \in 1 .. i : fUrl[j] # Empty}

OnFile == [i \in Listed |-> [url |-> fUrl[i], port |-> atou(fPort[i])]]

\* Entries that are in the file and that readConfiguration does not find.
Hidden == \E i \in Slots \ Listed : fUrl[i] # Empty

Init ==
  /\ clients = <<>>
  /\ fUrl = [i \in Slots |-> Empty]
  /\ fPort = [i \in Slots |-> <<>>]
  /\ pc = "off" /\ n = 0
  /\ last = <<>>
  /\ hid = FALSE /\ cut = FALSE /\ blank = FALSE
-----------------------------------------------------------------------------
Start ==
  /\ pc = "off"
  /\ clients' = OnFile
  /\ pc' = "idle"
  /\ UNCHANGED <<fUrl, fPort, n, last, hid, cut, blank>>

\* The program ends, by the user or not: nothing is saved on the way out.
End ==
  /\ pc # "off"
  /\ pc' = "off"
  /\ n' = 0
  /\ clients' = <<>>
  /\ cut' = (cut \/ pc # "idle")
  /\ last' = <<>> /\ hid' = FALSE
  /\ UNCHANGED <<fUrl, fPort, blank>>

\* What the dialog EditClient hands back: any URL, the empty one included, and
\* the low 16 bits of the number.
Entered == [url : Url \cup {Empty}, port : {t % Shorts : t \in Typed}]

\* IDC_ADD, IDC_EDIT and IDC_REMOVE.
Add(c) ==
  /\ pc = "idle"
  /\ Len(clients) < MaxClients
  /\ clients' = Append(clients, c)
  /\ UNCHANGED <<fUrl, fPort, pc, n, last, hid, cut, blank>>

Edit(i, c) ==
  /\ pc = "idle"
  /\ clients' = [clients EXCEPT ![i] = c]
  /\ UNCHANGED <<fUrl, fPort, pc, n, last, hid, cut, blank>>

Remove(i) ==
  /\ pc = "idle"
  /\ clients' = SubSeq(clients, 1, i - 1) \o SubSeq(clients, i + 1, Len(clients))
  /\ UNCHANGED <<fUrl, fPort, pc, n, last, hid, cut, blank>>
-----------------------------------------------------------------------------
\* writeConfiguration: each write to the file is a step.
Goto(k) ==
  /\ n' = k
  /\ pc' = IF k <= Len(clients) THEN "url" ELSE "extra"

\* Mutant: the old entries are all removed before the new ones are written.
SaveClearsFirst ==
  /\ pc = "idle"
  /\ Goto(1)
  /\ last' = OnFile /\ hid' = Hidden
  /\ fUrl' = [i \in Slots |-> Empty]
  /\ UNCHANGED <<clients, fPort, cut, blank>>

Save ==
  /\ pc = "idle"
  /\ Goto(1)
  /\ last' = OnFile /\ hid' = Hidden
  /\ blank' = (blank \/ \E i \in DOMAIN clients : clients[i].url = Empty)
  /\ UNCHANGED <<clients, fUrl, fPort, cut>>

WriteUrl ==
  /\ pc = "url"
  /\ fUrl' = [fUrl EXCEPT ![n] = clients[n].url]
  /\ pc' = "port"
  /\ UNCHANGED <<clients, fPort, n, last, hid, cut, blank>>

\* Mutant: the URL is written a second time.
WritePortWrong ==
  /\ pc = "port"
  /\ fPort' = [fPort EXCEPT ![n] = clients[n].url]
  /\ Goto(n + 1)
  /\ UNCHANGED <<clients, fUrl, last, hid, cut, blank>>

WritePort ==
  /\ pc = "port"
  /\ fPort' = [fPort EXCEPT ![n] = utoa[clients[n].port]]
  /\ Goto(n + 1)
  /\ UNCHANGED <<clients, fUrl, last, hid, cut, blank>>

\* Mutant: n is counted up twice in a round.
RemoveEveryOther ==
  /\ pc = "extra"
  /\ n \in Slots /\ fUrl[n] # Empty
  /\ fUrl' = [fUrl EXCEPT ![n] = Empty]
  /\ n' = IF n + 1 \in Slots THEN n + 2 ELSE n + 1
  /\ UNCHANGED <<clients, fPort, pc, last, hid, cut, blank>>

\* "remove any extras": the URL goes; the port stays, because the call names
\* a section "slientrPort".
RemoveExtra ==
  /\ pc = "extra"
  /\ n \in Slots /\ fUrl[n] # Empty
  /\ fUrl' = [fUrl EXCEPT ![n] = Empty]
  /\ n' = n + 1
  /\ UNCHANGED <<clients, fPort, pc, last, hid, cut, blank>>

\* Mutant: no extras are looked for.
SavedAtOnce ==
  /\ pc = "extra"
  /\ pc' = "idle" /\ n' = 0
  /\ last' = <<>> /\ hid' = FALSE
  /\ UNCHANGED <<clients, fUrl, fPort, cut, blank>>

Saved ==
  /\ pc = "extra"
  /\ n \in Slots => fUrl[n] = Empty
  /\ pc' = "idle" /\ n' = 0
  /\ last' = <<>> /\ hid' = FALSE
  /\ UNCHANGED <<clients, fUrl, fPort, cut, blank>>

Next ==
  \/ Start \/ End
  \/ \E c \in Entered : Add(c) \/ \E i \in DOMAIN clients : Edit(i, c)
  \/ \E i \in DOMAIN clients : Remove(i)
  \/ Save \/ WriteUrl \/ WritePort \/ RemoveExtra \/ Saved

Spec == Init /\ [][Next]_vars
-----------------------------------------------------------------------------
TypeOK ==
  /\ clients \in Seq(Client) /\ Len(clients) <= MaxClients
  /\ fUrl \in [Slots -> Url \cup {Empty}] /\ fPort \in [Slots -> Seq(0 .. 9)]
  /\ pc \in {"off", "idle", "url", "port", "extra"}
  /\ n \in 0 .. MaxClients + 2
  /\ last \in Seq([url : Url, port : Port])
  /\ {hid, cut, blank} \subseteq BOOLEAN

\* A save that ends leaves on file what the user saved, up to the first client
\* with an empty URL, whatever earlier saves and crashes left there: no client
\* of an earlier list comes back (config.cpp:83-107).
SavedIsRead ==
  [][Saved => \A i \in Slots :
       IF \E j \in 1 .. i : j > Len(clients) \/ clients[j].url = Empty
         THEN i \notin Listed
         ELSE i \in Listed /\ OnFile[i] = clients[i]]_vars

\* A crash in the middle of a save costs nobody his place in the list and
\* leaves at most one client torn, with the new URL and another's port: those
\* before it are the new ones, those after it the old ones.  Not so if the file
\* hid entries of still older lists, which a save can bring to light.
CrashTearsOne ==
  pc \in {"url", "port", "extra"} /\ ~hid =>
    /\ \A i \in Listed :
         \/ i < n /\ i \in DOMAIN clients /\ OnFile[i] = clients[i]
         \/ i >= n /\ i \in DOMAIN last /\ OnFile[i] = last[i]
         \/ i = n /\ pc = "port" /\ fUrl[i] = clients[i].url
    /\ ~blank => (IF pc = "extra" THEN DOMAIN clients ELSE DOMAIN last) \subseteq Listed

\* Entries are hidden in the file only after a save was interrupted or a
\* client without URL was saved.
HiddenForAReason == pc \in {"off", "idle"} /\ Hidden => cut \/ blank
=============================================================================
