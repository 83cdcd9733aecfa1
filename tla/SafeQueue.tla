----------------------------- MODULE SafeQueue -----------------------------
(***************************************************************************)
(* SafeQueue<T> (UDPdispatcher/safequeue.h): a std::queue behind a mutex   *)
(* and a condition variable, stepped at the grain of its lock operations.  *)
(*                                                                         *)
(* enqueue takes the lock, pushes, notifies one waiter and unlocks.        *)
(* dequeue takes the lock, waits on the condition while the queue is       *)
(* empty, pops and unlocks.  empty() takes NO lock: while another thread   *)
(* is inside its critical section it may see the queue as it was before or *)
(* as it is after that thread's change.                                    *)
(*                                                                         *)
(* Every caller in the program writes `if(!x.empty()) b = x.dequeue()`: a  *)
(* "guarded" consumer.  A "blind" one calls dequeue without looking first, *)
(* as the class allows; one that is "absent" never calls.                  *)
(***************************************************************************)
EXTENDS Integers, Sequences, FiniteSets

CONSTANTS
  Producers,   \* threads that call enqueue
  Consumers,   \* threads that call dequeue
  Value,       \* what is queued
  MaxItems,    \* bound: no enqueue starts once this many items were pushed
  Nobody       \* the mutex is free

ASSUME ThreadsAssumption ==
  /\ Producers \cap Consumers = {}
  /\ Nobody \notin Producers \cup Consumers

ASSUME FiniteAssumption == IsFiniteSet(Producers) /\ IsFiniteSet(Consumers)

ASSUME MaxItemsAssumption == MaxItems \in Nat

VARIABLES
  habit,    \* how each consumer uses the queue; never changes
  q,        \* the std::queue
  m,        \* the thread that holds the mutex, or Nobody
  pc,       \* where each thread is
  item,     \* what each producer's pending call is to push
  pushed,   \* history: every item that was pushed
  popped    \* history: every item that was popped

vars == <<habit, q, m, pc, item, pushed, popped>>

Threads == Producers \cup Consumers

Habits == {"absent", "guarded", "blind"}

\* "wait" is the condition variable's wait set: a thread there holds no lock
\* and runs again when it is notified, or spuriously.
Places == {"idle", "lock", "push", "notify", "test", "wait", "unlock"}

Goto(t, place) == pc' = [pc EXCEPT ![t] = place]

Init ==
  /\ habit \in [Consumers -> Habits]
  /\ q = <<>>
  /\ m = Nobody
  /\ pc = [t \in Threads |-> "idle"]
  /\ item \in [Producers -> Value]
  /\ pushed = <<>>
  /\ popped = <<>>
-----------------------------------------------------------------------------
\* Mutant: the lock is taken without looking whether it is free.
LockUnchecked(t) ==
  /\ pc[t] = "lock"
  /\ m' = t
  /\ Goto(t, IF t \in Producers THEN "push" ELSE "test")
  /\ UNCHANGED <<habit, q, item, pushed, popped>>

\* Both operations start with the lock and end by giving it back.
Lock(t) ==
  /\ pc[t] = "lock"
  /\ m = Nobody
  /\ m' = t
  /\ Goto(t, IF t \in Producers THEN "push" ELSE "test")
  /\ UNCHANGED <<habit, q, item, pushed, popped>>

Unlock(t) ==
  /\ pc[t] = "unlock"
  /\ m' = Nobody
  /\ Goto(t, "idle")
  /\ UNCHANGED <<habit, q, item, pushed, popped>>
-----------------------------------------------------------------------------
\* enqueue(T t), called by p with v.  No call starts once MaxItems are pushed.
Enqueue(p, v) ==
  /\ pc[p] = "idle"
  /\ Len(pushed) < MaxItems
  /\ item' = [item EXCEPT ![p] = v]
  /\ Goto(p, "lock")
  /\ UNCHANGED <<habit, q, m, pushed, popped>>

\* Mutant: the thread is pushed instead of its argument.
PushWrongVariable(p) ==
  /\ pc[p] = "push"
  /\ q' = Append(q, p)
  /\ pushed' = Append(pushed, item[p])
  /\ Goto(p, "notify")
  /\ UNCHANGED <<habit, m, item, popped>>

Push(p) ==
  /\ pc[p] = "push"
  /\ q' = Append(q, item[p])
  /\ pushed' = Append(pushed, item[p])
  /\ Goto(p, "notify")
  /\ UNCHANGED <<habit, m, item, popped>>

\* Mutant: nobody is notified.
NotifyForgotten(p) ==
  /\ pc[p] = "notify"
  /\ Goto(p, "unlock")
  /\ UNCHANGED <<habit, q, m, item, pushed, popped>>

\* notify_one moves one waiter, if there is one, back to the lock.
Notify(p) ==
  /\ pc[p] = "notify"
  /\ \/ /\ \A c \in Consumers : pc[c] # "wait"
        /\ Goto(p, "unlock")
     \/ \E c \in Consumers :
          /\ pc[c] = "wait"
          /\ pc' = [pc EXCEPT ![p] = "unlock", ![c] = "lock"]
  /\ UNCHANGED <<habit, q, m, item, pushed, popped>>
-----------------------------------------------------------------------------
\* What the unlocked empty() can return to c: the present state, and while
\* another thread is changing q in its critical section also the other side
\* of that change.
PushUnderWay == \E p \in Producers : pc[p] \in {"push", "notify", "unlock"}

PopUnderWay(c) ==
  \E d \in Consumers \ {c} : pc[d] = "unlock" \/ (pc[d] = "test" /\ q # <<>>)

Racing(c) == PushUnderWay \/ PopUnderWay(c)

\* Mutant: the caller does not look at what empty() returned.
AskEmptyIgnored(c) ==
  /\ pc[c] = "idle"
  /\ habit[c] = "guarded"
  /\ Goto(c, "lock")
  /\ UNCHANGED <<habit, q, m, item, pushed, popped>>

\* The caller asks empty() and goes on to dequeue() only if it returned false.
AskEmpty(c) ==
  /\ pc[c] = "idle"
  /\ habit[c] = "guarded"
  /\ \/ (q # <<>> \/ Racing(c)) /\ Goto(c, "lock")
     \/ (q = <<>> \/ Racing(c)) /\ UNCHANGED pc
  /\ UNCHANGED <<habit, q, m, item, pushed, popped>>

CallBlind(c) ==
  /\ pc[c] = "idle"
  /\ habit[c] = "blind"
  /\ Goto(c, "lock")
  /\ UNCHANGED <<habit, q, m, item, pushed, popped>>

\* while(q.empty()) c.wait(lock): the wait releases the lock.
Wait(c) ==
  /\ pc[c] = "test"
  /\ q = <<>>
  /\ m' = Nobody
  /\ Goto(c, "wait")
  /\ UNCHANGED <<habit, q, item, pushed, popped>>

SpuriousWake(c) ==
  /\ pc[c] = "wait"
  /\ Goto(c, "lock")
  /\ UNCHANGED <<habit, q, m, item, pushed, popped>>

\* Mutant: the newest item is taken, as from a stack.
PopNewest(c) ==
  /\ pc[c] = "test"
  /\ q # <<>>
  /\ q' = SubSeq(q, 1, Len(q) - 1)
  /\ popped' = Append(popped, q[Len(q)])
  /\ Goto(c, "unlock")
  /\ UNCHANGED <<habit, m, item, pushed>>

Pop(c) ==
  /\ pc[c] = "test"
  /\ q # <<>>
  /\ q' = Tail(q)
  /\ popped' = Append(popped, Head(q))
  /\ Goto(c, "unlock")
  /\ UNCHANGED <<habit, m, item, pushed>>
-----------------------------------------------------------------------------
ProducerStep(p) == Lock(p) \/ Push(p) \/ Notify(p) \/ Unlock(p)

ConsumerStep(c) ==
  \/ AskEmpty(c) \/ CallBlind(c)
  \/ Lock(c) \/ Wait(c) \/ Pop(c) \/ Unlock(c)

Next ==
  \/ \E p \in Producers : ProducerStep(p) \/ \E v \in Value : Enqueue(p, v)
  \/ \E c \in Consumers : ConsumerStep(c) \/ SpuriousWake(c)

\* A thread inside enqueue or dequeue keeps running; nothing makes a producer
\* call enqueue, and nothing makes a wait end spuriously.
Fairness ==
  /\ \A p \in Producers : WF_vars(ProducerStep(p))
  /\ \A c \in Consumers : WF_vars(ConsumerStep(c))

Spec == Init /\ [][Next]_vars

FairSpec == Spec /\ Fairness
-----------------------------------------------------------------------------
TypeOK ==
  /\ habit \in [Consumers -> Habits]
  /\ q \in Seq(Value)
  /\ m \in Threads \cup {Nobody}
  /\ pc \in [Threads -> Places]
  /\ item \in [Producers -> Value]
  /\ pushed \in Seq(Value)
  /\ popped \in Seq(Value)

\* The std::queue is touched by one thread at a time: of the threads between
\* taking the lock and giving it back there is at most one, and it is the one
\* the mutex names (lock_guard in enqueue, unique_lock in dequeue, released by
\* the wait and taken again after it).
Critical == {"push", "notify", "test", "unlock"}

MutualExclusion == \A t \in Threads : pc[t] \in Critical => m = t

\* A consumer that asked the unlocked empty() and was told "not empty" never
\* sleeps in dequeue(), although the queue was not locked in between.  True
\* only as long as the queue has ONE consumer, which is how the program uses
\* each of its queues: a worker that slept here would never look at its stop
\* flag again.
Sole(c) == \A d \in Consumers \ {c} : habit[d] = "absent"

GuardedNeverWaits ==
  \A c \in Consumers : habit[c] = "guarded" /\ Sole(c) => pc[c] # "wait"

\* No wakeup is lost: while anybody waits, every item in the queue has a
\* consumer already on its way to it or a notify still to come for it.
Coming == {c \in Consumers : pc[c] \in {"lock", "test"}}

Telling == {p \in Producers : pc[p] = "notify"}

Sleeping == {c \in Consumers : pc[c] = "wait"}

NoLostWakeup ==
  Sleeping # {} => Len(q) <= Cardinality(Coming) + Cardinality(Telling)

\* The queue empties: what was enqueued is dequeued if anybody dequeues, even
\* by consumers that sleep in it ("wait till an element is available").
Drains ==
  (q # <<>> /\ \E c \in Consumers : habit[c] # "absent") ~> (q = <<>>)

\* The items come out in the order they went in, each once.
Fifo == INSTANCE FifoQueue
FifoSpec == Fifo!Spec
=============================================================================
