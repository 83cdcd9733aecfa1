# UDPdispatcher in TLA+

UDPdispatcher is a Windows program that stands between WSJT-X and the programs
that want its UDP messages. It listens on one port, copies every datagram to a
list of clients, and sends what the clients answer back to whoever it heard
from last. This directory models it in TLA+, together with the programs beside
it (`reader`, the test client and server), model-checks the modules with TLC
and proves every safety property that holds with TLAPS. Paths below are relative
to the repository's `src/`; file names without a directory are in `UDPdispatcher/`.

## The system

| Part | State | Operations | Runs in |
|---|---|---|---|
| `SafeQueue` (safequeue.h) | a `std::queue`, a mutex, a condition variable | `enqueue`, `dequeue` (waits), `empty` (no lock) | its callers |
| `_server` (server.cpp) | the bound socket, `client_addr`, queues `received`, `toSend`, `stop` | worker: receive and queue, else take and send to `client_addr` | a thread |
| `_client` (client.cpp), one per entry of the list | a socket, `server_addr`, queues `toSend`, `received`, `bActive`, `stop` | worker: take and send, receive and queue; on a reset: close, sleep 5 s, open again | a thread each |
| `_dispatcher` (dispatcher.cpp) | `server`, `clients`, `stop` | constructor, worker (make the objects, then copy packets to all clients and replies to the server), `getCounts`, destructor | a thread |
| windows (UDPdispatcher.cpp) | `dispatcher`, `hMain`, `hTraffic`, `config` | timer, Save, Add, Edit, Remove, the traffic window, closing the program | the main thread |
| `error` (util.cpp) | - | report to the traffic text, ask "stop system?" | the failing worker |
| traffic text (UDPdispatcher.cpp:53-136) | `szTraffic`, `nTraffic`, `hTraffic`, `bFreeze` | `AddTraffic`, `clearTraffic`, open, close, freeze | any thread |
| `blob` (blob.cpp) | a datagram's bytes and length | copy, `unpack` to a line of text | its callers |
| configuration (config.cpp) | `config`, the INI file | read at the start, write at Save | the main thread |
| `reader/` | one datagram, one message | receive, decode, print, or dump | a program of its own |
| `NetworkMessage.hpp` | - | the messages WSJT-X sends | documentation for `reader` |
| `client/`, `server/` | a socket each, `server/` the last sender | ask and wait for the answer; hear and let the operator answer; each in two versions | test programs |

How they interact: the server's worker puts blobs into `received`; the
dispatcher's worker polls it and copies each blob into every client's `toSend`;
the client's worker sends it to its host and puts answers into its `received`;
the dispatcher's worker polls these and puts them into the server's `toSend`.
Everybody polls `empty()` before `dequeue()`, so that a worker can look at
`stop`. The windows' thread makes and deletes the dispatcher; its destructor
deletes the server and the clients, whose destructors set `stop` and join. Any
thread may send text to the traffic window, which makes it wait for the
windows' thread, and any worker may open a message box over the main window.

What is hard here, and what makes each part right:

- *SafeQueue*: `empty()` reads without the lock; a worker that sleeps in
  `dequeue()` never sees `stop`. Right if it is a first-in first-out queue, no
  wakeup is lost, and asking first is enough for a queue's only consumer.
- *The relay*: three stages of queues, polled by threads of different speed;
  hosts that go away and come back; sends that fail; boxes that stop one
  worker; datagrams from strangers. Right if every client gets every packet
  once, in order and in the end; if replies return in each client's order; if
  an outage is noticed; if an error costs nothing but what it is about.
- *Start, Save and the boxes*: the destructor runs while the workers do
  anything at all; boxes and dialogs open and close in any order. Right if
  nothing is used after it was freed, nothing is left behind, Save comes back,
  and the main window takes input again. Not all of this is so (see "Where
  code and documents disagree").
- *The traffic text*: no lock. Right if the text stays inside its buffer and
  the window shows it.
- *Configuration*: saved entry by entry, by a program that may end in between;
  ports cut to 16 bits and written as digits.
- *reader*: what is in a datagram is decoded, and every string freed, also when
  the datagram is cut short.
- *The test programs*: datagrams lost, waits that time out, programs quit and
  started again. Right if no answer is taken for the answer to another
  question, and a program ends or waits for ever only for a reason.

`PROJECT.json` lists each such hazard at its line with the properties that
cover it.

## Modules

| Module | Models | State and actions in the code |
|---|---|---|
| `SafeQueue` | safequeue.h, every lock operation | `m` is the mutex's owner, `pc` where each thread is; `Push`, `Notify`, `Unlock` are the statements of `enqueue`; `AskEmpty` is the unlocked `empty()`, whose answer is free while another thread is inside the queue; `Wait`, `SpuriousWake`, `Pop` are `dequeue` |
| `FifoQueue` | what a queue promises | abstract: pushed, and popped a prefix of it |
| `Network` | Winsock, external | a socket is the sequence of what `recvfrom` will report: data, `WSAEMSGSIZE`, `WSAECONNRESET` |
| `Server` | server.cpp | `sPc` is the worker's place, `sReplyTo` is `client_addr`; one action per branch of the loop |
| `Client` | client.cpp | the same, per client; `cDest` is `server_addr`, `cActive` is `bActive`, `cPort` says the socket has a port |
| `Dispatcher` | dispatcher.cpp's worker, with all servers and clients | `dPc`, `dAt`, `dHand`: place, loop variable, blob in hand; the history `dFrom` says whose each reply is that it put into the server's queue, so `ToSend(c)` is what the server's worker has taken of client c's to send it back; with `sSent`, whether each `sendto` sent it, `Tried` counts what went out and what was lost |
| `Broadcast`, `Channels` | what the relay promises | abstract: every receiver is handed a prefix of what was accepted; each sender's values come out as a prefix of what it gave |
| `Lifecycle` | the windows' thread, making and deleting the dispatcher, `error()` and its boxes, the dialogs, closing the program | `life` says which objects are made and freed; `clients` is the vector, `dRange` the part a loop runs over; `wAt`, `wErr` where each worker is; `enabled`, `reenables`, `dialog` who disabled the main window; `Overrun` is the end of the process in `AddTraffic`, which `Traffic` models in full; the steps of `delete` are actions of the windows' thread |
| `Traffic` | `AddTraffic`, `clearTraffic`, the traffic window, `blob::unpack` | `szTraffic` character by character, `pc` per thread; a step is a statement; `Unpack` is what becomes of a packet |
| `Config` | config.cpp, the dialogs that edit the list, `utoa` and `atou` | `clients` in memory, `fUrl` and `fPort` the two sections of the file, ports as digits there; each `writeINI` is a step |
| `NetworkMessage` | the 16 message types and their encoding, as NetworkMessage.hpp gives them | `Contents`, `Encode` |
| `Reader` | reader/unpack.cpp, reader.cpp | the buffer holds the datagram and zeros behind it; `p` is how much was read, `cb` what the code believes is left, `fields` what was read, `heap` the strings allocated; a step per field. A string's length is cast to an `int` (`Casts`); where the decoder leaves the buffer the model ends (`pc = "wild"`). `Sent` is what WSJT-X sends, `Others` any other datagrams; `Whole` says that one is a message of a type the reader knows and nothing more |
| `TestTools` | client/ and server/, both versions | `polls` tells server.cpp from serverXX.cpp; `vFrom` is its `client`; `cPc` where each client is; `in` the sockets; any call of `recvfrom` or `sendto` that fails ends its program |
| `SequenceLemmas` | - | facts about sequences the proofs use |
| `*_proofs` | - | theorems and proofs |
| `MC*` | - | the instances for TLC |

`SafeQueue` justifies that `Server`, `Client` and `Dispatcher` treat a queue as
a sequence whose operations are one step: the queue is a FIFO
(`ImplementsFifo`), and in the program each queue has one consumer that asks
first, which never sleeps (`GuardIsEnough`). `Lifecycle` leaves the packets
out: whether a queue holds something is a free choice there, and a queue only
matters as memory that may be freed. `Network` is what the relay and the test
programs share.

In `Lifecycle` one dispatcher is followed from `new` to `delete` and then the
next one from the start. What the old one left behind is only remembered in
`orphans`: its threads and its port are not followed further.

## Runs

| Run | Instance | Shows |
|---|---|---|
| `queue` | 2 producers, 2 consumers each of any habit (asks first, sleeps, absent), 2 values, 3 items | exclusion, no lost wakeup, FIFO, a sole consumer that asks first never sleeps, everything comes out |
| `relay_order` | 2 clients, 2 packets, 2 replies from each (those of client 1 different), sends fail | packets once and in order to every client; each client's replies once and in order through the shared queue |
| `relay_arrives` | 2 clients, 2 packets, hosts away, sends fail | packets reach every client that is not kept waiting for the user, whatever happens to the other |
| `relay_outage` | 1 client, a stray sender, all faults | active means connected; outages are noticed; every reply is sent but those whose own `sendto` fails; a stray datagram's damage ends with the next new socket; an error of the server's `recvfrom` costs no other datagram |
| `relay_feed` | 1 client, hosts and feed away | *violation*: the server stops at a box when the feed goes away |
| `life` | 2 clients, calls of the server and of the last client failing, dialogs, traffic window, the program closed | whenever the main window is disabled one box or dialog will enable it; a relay that is up ends the process by nothing but the race in the traffic text; nothing is left behind unless Save came before all was made; a stop is taken back only by a later answer; what can keep Save from coming back |
| `life_watched` | 1 client, traffic window | *violation*: Save hangs for good |
| `life_freed` | 1 client | *violation*: a freed queue is used |
| `traffic` | main thread and a worker, an empty packet, one longer than its text may be with line ends in it, a text of two lines; texts of 4, a buffer of 11 | outside races: no overflow, the count is the length, the newest text is kept, the window shows the text |
| `config` | lists of up to 3 clients, 2 URLs and the empty one, ports typed 0 and 65556 | what a save and an interrupted save leave on file |
| `reader` | messages of all 16 types, the three `reader` knows also with empty, null and longer strings; each of these cut at every byte and with a byte too many; lengths of strings that lead past the end, up to 2^24 + 1, or are negative as an `int`; unknown types and schemas; a message as long as the buffer of 512 and one a byte longer | that reading stays inside the datagram until a length is negative, what is decoded and what is freed |
| `tools` | 2 runs of the client, 2 questions each, either server, 2 answers waiting in a socket, datagrams lost, sends that fail | which answer a client takes for its question, that somebody still owes it one while it waits, what an error of `recvfrom` that ends the server comes from, when a client waits for ever |

Why the bounds are enough. The relay handles clients by a loop and blobs as
values, so what two clients, two packets and two replies can show (a packet to
one client twice, two packets swapped, one client's replies held up by the
other's) needs no third; the proofs show the safety properties for any number.
`relay_order` permutes payloads of one origin as a symmetry: nothing looks into
a blob. Up to two producers and two consumers are what the smallest lost wakeup
and the smallest race on `empty()` take. In `Lifecycle` two clients are the
least with a loop in the middle of which the vector grows or is emptied, and
two objects that fail (`Failing`) the least for boxes that overlap. In
`Traffic` texts and buffer stand in the relation of the program's (500
characters with the NUL in the buffers of `blob::unpack` and `error`, 5000
here): two of the longest and the NUL fit, which `TrafficAssumption` states;
without it the newest text could be dropped. In `Config` three entries allow a
list with something before, at and behind the entry being written, and a port
of 65556 has lost its top bit when it comes to the file. In `TestTools` two
clients are the least that can overtake each other at the server, two questions
the least that a late answer can mistake. In `Reader` three negative lengths
are what it takes: one after which a message is found behind the datagram, one
after which bytes run out, one that leads out of the buffer.
Bounds that cut behaviours short are constants: `MaxItems`, `MaxPackets`,
`MaxReplies`, `MaxLost` (replies whose `sendto` fails), `MaxClients`, `MaxAsked`,
`MaxMail` (answers more than a socket holds are lost), and `Recent`, which only limits a history; `Faults`,
`Failing`, `MayWatch` and `MayLose` say what may go wrong in an instance.

Deadlock is checked except where the system may stop: producers that are done,
a process that ended (`crashed`), a reader told to stop. `relay_*`, `config` and
`tools` check it.

## Fairness

Weak fairness on each thread's steps: Windows schedules every thread that can
run. The server's and the clients' step of taking a blob to send is strongly
fair, because it is guarded by `WillNotBlock(..., SKT_WRITE)`, and a UDP socket
is writable again and again. Nobody owes anything else: the user need never
answer a box or press Save, the outside programs need never send or come back,
calls need not fail. In `Lifecycle` only the steps after Save was pressed are
fair for the windows' thread.

In `TestTools` the programs that run go on, and the server's operator answers:
`KeyHit` is strongly fair, because serverXX looks at the keyboard only between
two looks at the socket. Nobody has to start a program or ask, and a datagram
may be lost every time.

`EveryReplyReturns` relies on a feed that pauses (server.cpp:49 reads before it
sends), which the bound on packets makes every feed do.

## Proofs

All of it holds for any constants that satisfy the modules' ASSUMEs. Each
invariant below is inductive, alone or with those named before it; where a run
checks the property, TLC shows it on the run's instance.

- `SafeQueue_proofs`: `TypeCorrect`; `Exclusion` (the mutex names the one
  thread between lock and unlock); `GuardIsEnough`: `GuardedNeverWaits` is not
  inductive, for it says nothing of the time between `empty()` and the wait.
  The invariant adds `Promised` (a sole consumer that was told "not empty" finds
  the queue not empty until it pops), `AbsentIdle`, and `StillThere` (what a
  producer pushed is still there while it notifies, because it holds the lock);
  `WakeupsArrive`: `NoLostWakeup` counts sleepers against notifies, so each step
  needs what it does to three cardinalities, for finite sets of threads
  (`FiniteAssumption`); `ImplementsFifo`: `popped \o q = pushed` is kept by
  every step.
- `Dispatcher_proofs`: `TypeCorrect`; `ActiveIsConnected` (that a client counts
  as active only with a port needs that a socket with anything to read has a
  port); `StrayForgotten` (a socket without a port has heard from nobody, so
  its address is the configured one); `ForwardsInOrder`: for each client, what
  its worker took, what is in its queue, what the dispatcher has in hand for it
  and what is in `received`, put one behind the other, is what the server
  accepted (`NothingLost`). With `PassStarts`, which says a pass of the
  dispatcher starts with nothing in hand, this is inductive, and it makes each
  step a step of `Broadcast` or a stutter. `RepliesGoBackInOrder` is the same on
  the way back, where all clients share one queue: `NoReplyLost` says that what
  was put into that queue is as long as `dFrom`, and that for each client its
  replies in it, the one in the dispatcher's hand and those it still has, one
  behind the other, are what its worker received. `OfClientSelects`,
  `OfClientAgrees` and `OfClientGrows` say what selecting a client's replies
  does when the queue moves on or grows. With it each step is one of `Channels`
  or a stutter.
- `Lifecycle_proofs`, for any number of clients: `TypeCorrect` needs `Room`
  (while clients are made the vector has room for the next) and `Within` (a
  loop is at a client of its range). `ToldToStop` follows from what each
  step may do to one object. `SafeOnceUp` needs `RelayUp`: once the making is
  over the server exists, and nothing is freed before the destructor runs; what
  is left is the end in `AddTraffic`, with the window open and a thread in it
  (`Overrun`), of which `NoOverrun` in `Traffic_proofs` says when it can come.
  `WindowComesBack` needs `BoxInv`: whoever will enable the window has its box open, and no box opens or closes with a claim while the
  destructor runs. `NothingLeftBehind` needs `InOrder`: without an early Save
  the vector holds clients 1, 2, ..., all that are alive, and the destructor
  goes from its end to its start.
- `Config_proofs`, for lists of any length: `PortsSurvive`, that `atou` undoes
  `utoa`, for all ports: that the two functions exist at all is an induction over
  the number and over its digits (`DigitsExist`, `AtouSums`), and so is the
  theorem, by what one digit more does (`AtouNext`). `TypeInv` adds that the
  file's sections end and that every port on file is written in digits that read
  back as a port. `SaveInv` describes a
  save half done: before the place of the save the file holds the new list,
  behind it the old one (`Written`, `Untouched`), and at it one client may be
  torn. From it follow `CrashSafe`, `HiddenSafe` and `SaveSafe`.
- `Reader_proofs`, for any messages, any other datagrams and a buffer of any
  size: `ReadInv`: until a length is negative (`cast`) what was read lies inside
  the datagram and `cb` is what is left of it; the strings allocated are string
  fields already read, and outside decoding nothing is allocated. It gives
  `TypeCorrect` and `FreesAll`. `WholeInv` adds that, `cast` apart, the decoder
  stands where `Ends`, computed from the datagram alone, has the end of the field
  it is at; with it `ShowsWholeMessages`: what is shown as a message has the
  header of one, its fields and nothing more. That is what the code does: the
  protocol asks readers to accept messages with more (see below). `SentInv` says
  the same of a message that was sent: no length in it is negative, and each
  field read is the one the sender put there. Its steps rest on what the
  encoding is (`Flattened`: the fields' bytes lie one behind the other in the
  flattened sequence; `FieldDecoded`: a field read where it was placed gives its
  value back) and give `DecodesWhatIsSent`, for any messages that
  `MessagesAssumption` describes, the one assumption besides the types of the
  constants.
- `Traffic_proofs`, for any sizes that satisfy `TrafficAssumption`, so for 500
  and 5000, and any packets: `UnpackIsShort`, that a packet's text fits its
  buffer, is an induction over the packet (by the least number at which it
  fails). `TextInv` says that as long as nothing raced one thread is at work,
  and for each of its places how the count, its `k` and the text's length hang
  together and that the room it has made is still there. It gives `NoOverrun`
  and `CountsRight`. `ShowInv` adds that the window shows the text unless
  somebody is about to show it, which gives `WindowIsTrue`. `TypeCorrect` needs
  that the last character of the buffer stays a NUL. `TrimsTheOldest` adds
  `Kept`: the text is the end of what was reported, from the start of a line,
  and while lines are dropped the place reached is the start of one with the
  newest text behind it; so a trim, which may take some lines of a text that has
  several (those of `error()` do), never takes all of the newest, which is not
  obvious because it stops only where enough has gone (`NextLineStarts`,
  `NoDrop`).
- `TestTools_proofs`, for any number of clients and questions: `TypeCorrect`;
  `AnswersRight`: `CountInv` (a client asks again only when it has its answer),
  `BoundInv` (nothing is on its way that was not asked) and, for the server that
  waits, `TurnInv`: what a client still lacks is in one place only, in its
  question, in the server's hand or in the answer on its way. With serverXX
  the answer may be one to an earlier question. `FailsOnlyThen`
  adds `ReasonInv`: an error that still waits in the server's socket has its
  reason already. `ForgetsNobody`: `NobodyForgotten` is inductive next to the
  types, and is the safety half of `WaitsOnlyIfDropped`: while a client waits, its
  question or the answer is on its way or with the operator, unless it was
  dropped; that it arrives then takes fairness.
- `SequenceLemmas`: how `Append`, `Head`, `Tail` and `\o` go together; the least
  number of a set; `Induction` over a set of numbers, and `Recursion`, that what
  is computed step by step from a first value exists. The library's theorems for
  both take an operator as a parameter, which the provers here cannot
  instantiate; stated for a set and for a function they can be cited, and carry
  the proofs about `FlattenSeq`, `Ends`, `OfClient`, `utoa` and `atou`.

Only model-checked: liveness (`Drains`, `EveryPacketArrives`,
`EveryReplyReturns`, `AwayIsNoticed`, `ErrorCostsNoOther`,
`SaveWaitsForAReason`, `WaitsOnlyIfDropped`), which the prover does not reach.
Every other property of a passing run is a theorem.

## Where code and documents disagree

The runs marked *violation* each refute a sentence of the repository:

- `relay_feed`: after WSJT-X closed its socket, the next reply comes back as
  `WSAECONNRESET` from the server's `recvfrom`, and the server, unlike the
  clients, stops at a message box (server.cpp:52; README.md:39-40).
- `life_watched`: with the traffic window open, Save joins the dispatcher's
  worker while that waits for the window (dispatcher.cpp:21, UDPdispatcher.cpp:78).
- `life_freed`: `~_dispatcher` deletes the server and clients before it joins
  the worker that polls their queues (dispatcher.cpp:16-21).

The models also contain these, without a run of their own:

- client.cpp:75: any datagram to a client's socket redirects the packets to its
  sender, where README.md:12-13 names the configured address.
  `NewSocketGoesHome` shows until when.
- server.cpp:42: a datagram of more than 512 bytes is lost and opens a box,
  where README.md:23-24 says the program "will take any old UDP stream".
- dispatcher.cpp:16 and :42: a Save before the worker made all objects leaves
  them behind, the port bound, or deletes a client twice while the vector is
  filled and emptied at once. `LeftOnlyIfEarly` shows this is the only way.
- UDPdispatcher.cpp:235: a second timer tick before the worker made the server
  reads through a null pointer, and an edit of the list while the worker copies
  from it races. `UpIsSafe` shows that this is over once the objects are made.
- server.cpp:60: a reply whose `sendto` failed is lost, also when the user
  answers that the system shall not stop. `EveryReplyReturns` shows that it takes
  no other along.
- server.cpp:10 and :15: a server on port 0 has no thread, and its
  destructor joins a null pointer.
- client.cpp:90, server.cpp:52: the answer to a box that was open when the
  destructor set `stop` overwrites it, and the join never ends. `StaysTold`
  shows nothing else takes a stop back.
- UDPdispatcher.cpp:57: two threads in `AddTraffic`, or `clearTraffic` during
  one, end the process in `strcat_s` or `memmove`, where the comment at line 71
  prefers "a loss of data" to "a crash". `CrashOnlyIfRaced` shows this is the
  only way. Narrower races (between two characters of a copy) are not told
  apart.
- config.cpp:105: a typing error in the section's name leaves removed clients'
  ports in the file. Harmless, except after a crash, for one client.
- reader/unpack.cpp:245, :247: unknown types and trailing data are reported as
  errors and dumped, where NetworkMessage.hpp:87-98 asks to ignore them; a
  Heartbeat of an older program, without the maximum schema number
  (NetworkMessage.hpp:135-138), is dumped too; :211 prints the wrong flag. No
  property is about these: it could only state the code against the document.
- reader/unpack.cpp:55: a string's length of 2^31 or more passes the test of what
  is left, because it is cast to an `int`; `cb` is wrong from then on, and what is
  read and shown may lie behind the datagram. `TypeOK` shows that nothing else
  leads there.
- server/server.cpp:58: one client that was quit before its answer ends the
  server for all others.

## Not modelled

Packet counters; positions and sizes of windows; the server's port in the file,
which no dialog changes; what `reader` does after it has read behind its
buffer, which is undefined; the layout of
what is printed, the heading of a traffic line included (one character in
`Traffic`); `blob::dump` and the functions of blob.cpp nobody calls; the classes
`Builder` and `Reader` that NetworkMessage.hpp declares and nothing here
defines; `wsjt-x-reader/` (an earlier draft of `reader/` that does not compile
and is not in the solution), `UnitTest/`, the installer and scripts. How Windows
handles windows is assumed: a message to another thread's window waits until
that thread handles messages; `MessageBox` disables its owner and enables it
again only if it found it enabled; a process that ends takes its threads along.

## Further work

1. The orphans of an early Save as running threads: two servers on one port.
2. The relay on the queues of `SafeQueue` in place of sequences, and the proof
   that the one implements the other.
3. The safety halves of the other liveness properties, as `NobodyForgotten` is
   one of `WaitsOnlyIfDropped`.
