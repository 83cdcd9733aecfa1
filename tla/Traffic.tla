------------------------------ MODULE Traffic ------------------------------
(***************************************************************************)
(* The text of the traffic window (UDPdispatcher.cpp:53-136): a buffer and *)
(* a count of the characters in it, which several threads change without a *)
(* lock.  The dispatcher's worker reports every packet, error() reports    *)
(* from the workers of the server and the clients, and the windows' thread *)
(* reports starts, clears the text and opens and closes the window.        *)
(*                                                                         *)
(* The buffer is kept character by character, for what is left behind the  *)
(* terminating NUL matters once two threads are at work in it.  A step is  *)
(* a statement: the two strcat_s are one, and two threads never write the  *)
(* same characters at the same moment.                                     *)
(***************************************************************************)
EXTENDS Integers, Sequences

CONSTANTS
  Main,      \* the windows' thread
  Workers,   \* the other threads that report
  Blobs,     \* the packets reported: sequences of characters
  Messages,  \* the other texts reported
  TextSize,  \* sizeof temp in blob::unpack and in error()
  Size,      \* sizeof szTraffic
  Recent     \* bound: how much of what was reported is remembered

NUL == 0
LF == 10
CR == 13

\* The texts hold 500 characters, the buffer 5000.
ASSUME TrafficAssumption ==
  /\ Main \notin Workers
  /\ Size \in Nat /\ TextSize \in Nat \ {0, 1} /\ Recent \in Nat
  /\ 2 * (TextSize + 1) + 1 <= Size /\ Size + TextSize + 1 <= Recent
  /\ \A b \in Blobs : b \in Seq(Nat)
  /\ \A t \in Messages : t \in Seq(Nat \ {NUL}) /\ Len(t) < TextSize

VARIABLES
  szTraffic, nTraffic,
  open,      \* hTraffic is not null
  frozen,    \* bFreeze
  shown,     \* the text in the window's control
  pc,        \* where each thread is in AddTraffic or clearTraffic, or "idle"
  text,      \* the text it adds
  k,         \* its k
  crashed,   \* how the process ended, or "no"
  raced,     \* history: two threads were at work in the buffer at once
  told       \* history: what was reported since the last clear, the end of it

threadVars == <<pc, text, k>>
vars == <<szTraffic, nTraffic, open, frozen, shown, threadVars, crashed, raced, told>>

Threads == {Main} \cup Workers
-----------------------------------------------------------------------------
\* blob::unpack: a heading (where the packet is from and its length, one
\* character here), then the packet, as far as there is room.  A run of
\* characters that are not printable ASCII becomes one dot.
Heading == <<83>>
Dot == 250
Printable == 32 .. 126

\* Mutant: the text is not cut.
Unlimited(n) == TRUE

Fits(n) == n < TextSize - 1

\* The text t with what b[j] adds to it.
Longer(b, t, j) ==
  IF ~Fits(Len(t)) THEN t
  ELSE IF b[j] \in Printable THEN Append(t, b[j])
  ELSE IF j > 1 /\ b[j - 1] \notin Printable THEN t
  ELSE Append(t, Dot)

Unpack(b) ==
  LET upTo[j \in 0 .. Len(b)] == IF j = 0 THEN Heading ELSE Longer(b, upTo[j - 1], j)
  IN upTo[Len(b)]

Texts == {Unpack(b) : b \in Blobs} \cup Messages
-----------------------------------------------------------------------------

Index == 0 .. Size - 1

IndexOfNul == CHOOSE s \in Index :
  szTraffic[s] = NUL /\ \A j \in 0 .. s - 1 : szTraffic[j] # NUL

\* szTraffic as a string.
Content == [j \in 1 .. IndexOfNul |-> szTraffic[j - 1]]

\* Threads that may read or change the buffer: not those that wait for the
\* window.
Busy == {t \in Threads : pc[t] \notin {"idle", "show"}}

i(t) == Len(text[t]) + 2

Init ==
  /\ szTraffic = [j \in Index |-> NUL] /\ nTraffic = 0
  /\ open = FALSE /\ frozen = FALSE
  /\ shown = <<>>
  /\ pc = [t \in Threads |-> "idle"]
  /\ text = [t \in Threads |-> <<>>]
  /\ k = [t \in Threads |-> 0]
  /\ crashed = "no" /\ raced = FALSE
  /\ told = <<>>

Running == crashed = "no"

Go(t, where) == pc' = [pc EXCEPT ![t] = where]

\* Back to where AddTraffic was called.
Return(t) ==
  /\ pc' = [pc EXCEPT ![t] = "idle"]
  /\ text' = [text EXCEPT ![t] = <<>>]
  /\ k' = [k EXCEPT ![t] = 0]

Told(s) == LET all == told \o s
               from == IF Len(all) > Recent THEN Len(all) - Recent ELSE 0
           IN IF raced THEN <<>> ELSE SubSeq(all, from + 1, Len(all))
-----------------------------------------------------------------------------
\* AddTraffic is called while the window is open and not frozen.
Add(t, s) ==
  /\ Running /\ pc[t] = "idle"
  /\ open /\ ~frozen
  /\ Go(t, "scan")
  /\ text' = [text EXCEPT ![t] = s]
  /\ raced' = (raced \/ Busy # {})
  /\ UNCHANGED <<szTraffic, nTraffic, open, frozen, shown, k, crashed, told>>

\* Mutant: characters are trimmed, not lines.
NextCharacter(j) == j + 1

\* The start of the line after the one j is in, or the end of the text.
NextLine(j) ==
  LET e == CHOOSE e \in j .. Size - 1 :
             /\ szTraffic[e] \in {NUL, LF}
             /\ \A h \in j .. e - 1 : szTraffic[h] \notin {NUL, LF}
  IN IF szTraffic[e] = LF THEN e + 1 ELSE e

\* It is still too big.  The sum is an int and is compared with an unsigned
\* size: below zero, which only a text cleared under the trim makes it, it is huge.
TooBig(t) ==
  LET n == nTraffic - k[t] + i(t) + 1 IN n < 0 \/ n > Size

\* Find the lines to trim.
Scan(t) ==
  /\ Running /\ pc[t] = "scan"
  /\ \/ /\ szTraffic[k[t]] # NUL /\ TooBig(t)
        /\ k' = [k EXCEPT ![t] = NextLine(k[t])]
        /\ UNCHANGED pc
     \/ /\ szTraffic[k[t]] = NUL \/ ~TooBig(t)
        /\ Go(t, IF k[t] = 0 THEN "append" ELSE "cut")
        /\ UNCHANGED k
  /\ UNCHANGED <<szTraffic, nTraffic, open, frozen, shown, text, crashed, raced, told>>

\* Nothing would be left: the new text is dropped.
Drop(t) ==
  /\ Running /\ pc[t] = "cut"
  /\ szTraffic[k[t]] = NUL
  /\ told' = Told(text[t] \o <<CR, LF>>)
  /\ Return(t)
  /\ UNCHANGED <<szTraffic, nTraffic, open, frozen, shown, crashed, raced>>

\* memmove(szTraffic, szTraffic+from, count)
Moved(from, count) ==
  [j \in Index |-> IF j < count THEN szTraffic[j + from] ELSE szTraffic[j]]

\* A negative count is a huge size_t; one past the end overruns the buffer.
Cut(t) ==
  LET count == nTraffic - k[t] + 1 IN
  /\ Running /\ pc[t] = "cut"
  /\ szTraffic[k[t]] # NUL
  /\ \/ /\ count >= 0 /\ nTraffic + 1 <= Size
        /\ szTraffic' = Moved(k[t], count)
        /\ Go(t, "shrink")
        /\ UNCHANGED crashed
     \/ /\ count < 0 \/ nTraffic + 1 > Size
        /\ crashed' = "memmove"
        /\ UNCHANGED <<szTraffic, pc>>
  /\ UNCHANGED <<nTraffic, open, frozen, shown, text, k, raced, told>>

Shrink(t) ==
  /\ Running /\ pc[t] = "shrink"
  /\ nTraffic' = nTraffic - k[t]
  /\ Go(t, "append")
  /\ UNCHANGED <<szTraffic, open, frozen, shown, text, k, crashed, raced, told>>

\* strcat_s ends the process when the result does not fit.
AppendText(t) ==
  LET s == text[t] \o <<CR, LF>>
      at == IndexOfNul
  IN
  /\ Running /\ pc[t] = "append"
  /\ \/ /\ at + Len(s) + 1 <= Size
        /\ szTraffic' = [j \in Index |->
             IF j \in at .. at + Len(s) - 1 THEN s[j - at + 1]
             ELSE IF j = at + Len(s) THEN NUL ELSE szTraffic[j]]
        /\ told' = Told(s)
        /\ Go(t, "count")
        /\ UNCHANGED crashed
     \/ /\ at + Len(s) + 1 > Size
        /\ crashed' = "strcat_s"
        /\ UNCHANGED <<szTraffic, told, pc>>
  /\ UNCHANGED <<nTraffic, open, frozen, shown, text, k, raced>>

Count(t) ==
  /\ Running /\ pc[t] = "count"
  /\ nTraffic' = nTraffic + i(t)
  /\ Go(t, "show")
  /\ UNCHANGED <<szTraffic, open, frozen, shown, text, k, crashed, raced, told>>

\* The window is the windows' thread's, and a worker waits until that thread
\* handles messages.
Show(t) ==
  /\ Running /\ pc[t] = "show"
  /\ open /\ t # Main => pc[Main] = "idle"
  /\ shown' = IF open THEN Content ELSE shown
  /\ Return(t)
  /\ UNCHANGED <<szTraffic, nTraffic, open, frozen, crashed, raced, told>>
-----------------------------------------------------------------------------
\* What the user does, in the windows' thread.
Clear ==
  /\ Running /\ pc[Main] = "idle"
  /\ open
  /\ szTraffic' = [szTraffic EXCEPT ![0] = NUL]
  /\ told' = <<>>
  /\ raced' = (raced \/ Busy # {})
  /\ Go(Main, "clear")
  /\ UNCHANGED <<nTraffic, open, frozen, shown, text, k, crashed>>

\* Mutant: the count stays.
ClearedButCount ==
  /\ Running /\ pc[Main] = "clear"
  /\ shown' = Content
  /\ Go(Main, "idle")
  /\ UNCHANGED <<szTraffic, nTraffic, open, frozen, text, k, crashed, raced, told>>

Cleared ==
  /\ Running /\ pc[Main] = "clear"
  /\ nTraffic' = 0
  /\ shown' = Content
  /\ Go(Main, "idle")
  /\ UNCHANGED <<szTraffic, open, frozen, text, k, crashed, raced, told>>

\* Mutant: a new window starts empty.
OpenEmpty ==
  /\ Running /\ pc[Main] = "idle" /\ ~open
  /\ shown' = <<>>
  /\ raced' = (raced \/ Busy # {})
  /\ Go(Main, "open")
  /\ UNCHANGED <<szTraffic, nTraffic, open, frozen, text, k, crashed, told>>

\* CreateDialog fills the window in before hTraffic is set.
Open ==
  /\ Running /\ pc[Main] = "idle" /\ ~open
  /\ shown' = Content
  /\ raced' = (raced \/ Busy # {})
  /\ Go(Main, "open")
  /\ UNCHANGED <<szTraffic, nTraffic, open, frozen, text, k, crashed, told>>

Opened ==
  /\ Running /\ pc[Main] = "open"
  /\ open' = TRUE
  /\ Go(Main, "idle")
  /\ UNCHANGED <<szTraffic, nTraffic, frozen, shown, text, k, crashed, raced, told>>

Close ==
  /\ Running /\ pc[Main] = "idle" /\ open
  /\ open' = FALSE
  /\ UNCHANGED <<szTraffic, nTraffic, frozen, shown, threadVars, crashed, raced, told>>

Freeze ==
  /\ Running /\ pc[Main] = "idle" /\ open
  /\ frozen' = ~frozen
  /\ UNCHANGED <<szTraffic, nTraffic, open, shown, threadVars, crashed, raced, told>>

Next ==
  \/ \E t \in Threads :
       \/ \E s \in Texts : Add(t, s)
       \/ Scan(t) \/ Drop(t) \/ Cut(t) \/ Shrink(t) \/ AppendText(t) \/ Count(t)
       \/ Show(t)
  \/ Clear \/ Cleared \/ Open \/ Opened \/ Close \/ Freeze

Spec == Init /\ [][Next]_vars
-----------------------------------------------------------------------------
\* Also with several threads at work in it the buffer holds a string, for its
\* last character stays NUL, and no text is longer than its own buffer.
TypeOK ==
  /\ szTraffic \in [Index -> Nat] /\ szTraffic[Size - 1] = NUL
  /\ nTraffic \in Int
  /\ {open, frozen, raced} \subseteq BOOLEAN
  /\ shown \in Seq(Nat) /\ told \in Seq(Nat)
  /\ pc \in [Threads -> {"idle", "scan", "cut", "shrink", "append", "count",
                         "show", "clear", "open"}]
  /\ text \in [Threads -> Seq(Nat)] /\ \A t \in Threads : Len(text[t]) < TextSize
  /\ k \in [Threads -> Index]
  /\ crashed \in {"no", "memmove", "strcat_s"}

\* "better a loss of data than a crash" (UDPdispatcher.cpp:71): the text never
\* overruns its buffer, unless two threads were at work in it at once.
CrashOnlyIfRaced == crashed # "no" => raced

\* Between calls nTraffic is the length of the text, whatever was trimmed and
\* cleared, unless two threads were at work at once.
CountIsLength == ~raced /\ Busy = {} => nTraffic = IndexOfNul

\* Trimming takes whole lines from the start and never the newest text: what
\* is left is the end of what was reported, from the start of a line.
KeepsTheNewest ==
  ~raced /\ Busy = {} => \E j \in 0 .. Len(told) :
    /\ Content = SubSeq(told, j + 1, Len(told))
    /\ j = 0 \/ told[j] = LF
    /\ told # <<>> => j < Len(told)

\* When nobody is at work and the window is open, it shows the text: also
\* after it was closed, opened again or cleared while a worker waited for it.
WindowShowsText ==
  ~raced /\ open /\ (\A t \in Threads : pc[t] = "idle") => shown = Content
=============================================================================
