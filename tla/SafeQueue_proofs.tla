-------------------------- MODULE SafeQueue_proofs --------------------------
(***************************************************************************)
(* Proofs about SafeQueue, for any number of threads and items.            *)
(***************************************************************************)
EXTENDS SafeQueue, SequenceLemmas, FiniteSetTheorems

\* The steps of one thread, so that the proofs split on the same list.
LEMMA NextCases ==
  ASSUME Next
  PROVE  \/ \E t \in Threads : Lock(t) \/ Unlock(t)
         \/ \E p \in Producers : Push(p) \/ Notify(p)
         \/ \E p \in Producers, v \in Value : Enqueue(p, v)
         \/ \E c \in Consumers : \/ AskEmpty(c) \/ CallBlind(c) \/ Wait(c)
                                 \/ SpuriousWake(c) \/ Pop(c)
BY DEF Next, ProducerStep, ConsumerStep, Threads
-----------------------------------------------------------------------------
\* Every variable keeps its type.
THEOREM TypeCorrect == Spec => []TypeOK
<1>1. Init => TypeOK
  BY DEF Init, TypeOK, Threads, Places
<1>2. TypeOK /\ [Next]_vars => TypeOK'
  <2> SUFFICES ASSUME TypeOK, [Next]_vars PROVE TypeOK'
    OBVIOUS
  <2> USE DEF TypeOK, Goto, Threads, Places
  <2>1. ASSUME NEW t \in Threads, Lock(t) \/ Unlock(t) PROVE TypeOK'
    BY <2>1 DEF Lock, Unlock
  <2>2. ASSUME NEW p \in Producers, Push(p) PROVE TypeOK'
    <3>1. item[p] \in Value
      OBVIOUS
    <3>2. q' \in Seq(Value) /\ pushed' \in Seq(Value)
      BY <2>2, <3>1 DEF Push
    <3>3. QED BY <2>2, <3>2 DEF Push
  <2>3. ASSUME NEW p \in Producers, Notify(p) PROVE TypeOK'
    BY <2>3 DEF Notify
  <2>4. ASSUME NEW p \in Producers, NEW v \in Value, Enqueue(p, v) PROVE TypeOK'
    BY <2>4 DEF Enqueue
  <2>5. ASSUME NEW c \in Consumers, AskEmpty(c) \/ CallBlind(c) PROVE TypeOK'
    BY <2>5 DEF AskEmpty, CallBlind
  <2>6. ASSUME NEW c \in Consumers, Wait(c) \/ SpuriousWake(c) PROVE TypeOK'
    BY <2>6 DEF Wait, SpuriousWake
  <2>7. ASSUME NEW c \in Consumers, Pop(c) PROVE TypeOK'
    <3>1. Head(q) \in Value /\ Tail(q) \in Seq(Value)
      BY <2>7, HeadTailProperties DEF Pop
    <3>2. q' \in Seq(Value) /\ popped' \in Seq(Value)
      BY <2>7, <3>1 DEF Pop
    <3>3. QED BY <2>7, <3>2 DEF Pop
  <2>8. CASE UNCHANGED vars
    BY <2>8 DEF vars
  <2>9. QED
    BY <2>1, <2>2, <2>3, <2>4, <2>5, <2>6, <2>7, <2>8, NextCases
<1>3. QED BY <1>1, <1>2, PTL DEF Spec
-----------------------------------------------------------------------------
\* MutualExclusion is inductive on top of the types: a thread enters the
\* critical section only by taking a free mutex, and leaves it when it frees
\* the mutex.
LEMMA MutualExclusionStep ==
  ASSUME TypeOK, MutualExclusion, ThreadsAssumption, [Next]_vars
  PROVE  MutualExclusion'
<1> USE DEF TypeOK, MutualExclusion, Critical, Goto, Threads, Places, ThreadsAssumption
<1>1. ASSUME NEW t \in Threads, Lock(t) PROVE MutualExclusion'
  BY <1>1 DEF Lock
<1>2. ASSUME NEW t \in Threads, Unlock(t) PROVE MutualExclusion'
  BY <1>2 DEF Unlock
<1>3. ASSUME NEW p \in Producers, Push(p) PROVE MutualExclusion'
  BY <1>3 DEF Push
<1>4. ASSUME NEW p \in Producers, Notify(p) PROVE MutualExclusion'
  BY <1>4 DEF Notify
<1>5. ASSUME NEW p \in Producers, NEW v \in Value, Enqueue(p, v) PROVE MutualExclusion'
  BY <1>5 DEF Enqueue
<1>6. ASSUME NEW c \in Consumers, AskEmpty(c) \/ CallBlind(c) PROVE MutualExclusion'
  BY <1>6 DEF AskEmpty, CallBlind
<1>7. ASSUME NEW c \in Consumers, Wait(c) \/ SpuriousWake(c) PROVE MutualExclusion'
  BY <1>7 DEF Wait, SpuriousWake
<1>8. ASSUME NEW c \in Consumers, Pop(c) PROVE MutualExclusion'
  BY <1>8 DEF Pop
<1>9. CASE UNCHANGED vars
  BY <1>9 DEF vars
<1>10. QED
  BY <1>1, <1>2, <1>3, <1>4, <1>5, <1>6, <1>7, <1>8, <1>9, NextCases

\* At most one thread is ever inside the queue.
THEOREM Exclusion == Spec => []MutualExclusion
<1>1. Init => MutualExclusion
  BY DEF Init, MutualExclusion, Critical
<1>2. TypeOK /\ MutualExclusion /\ [Next]_vars => MutualExclusion'
  BY MutualExclusionStep, ThreadsAssumption
<1>3. QED BY <1>1, <1>2, TypeCorrect, PTL DEF Spec
-----------------------------------------------------------------------------
\* Why the guard is enough for a sole consumer.  From the moment empty() said
\* "not empty" until the pop, the queue holds an item or a producer is about
\* to push one; only the consumer itself could take it away again.
Promised ==
  \A c \in Consumers : habit[c] = "guarded" /\ Sole(c) =>
    (pc[c] \in {"lock", "test"} => q # <<>> \/ \E p \in Producers : pc[p] = "push")

\* A consumer that never calls stays where it started.
AbsentIdle == \A c \in Consumers : habit[c] = "absent" => pc[c] = "idle"

\* A stale answer of the unlocked empty() does no harm: a producer that has
\* pushed and still holds the lock keeps the consumer away from its item.
StillThere == \A p \in Producers : pc[p] \in {"notify", "unlock"} => q # <<>>

\* No producer is in the critical section together with the consumer, so at
\* the test the item is already there.
GuardInv == Promised /\ AbsentIdle /\ StillThere /\ GuardedNeverWaits

\* With one consumer, `if(!x.empty()) x.dequeue()` never sleeps.
THEOREM GuardIsEnough == Spec => []GuardedNeverWaits
<1>1. Init => GuardInv
  BY DEF Init, GuardInv, Promised, AbsentIdle, StillThere, GuardedNeverWaits, Threads
<1>2. TypeOK /\ MutualExclusion /\ GuardInv /\ [Next]_vars => GuardInv'
  <2> SUFFICES ASSUME TypeOK, MutualExclusion, GuardInv, [Next]_vars PROVE GuardInv'
    OBVIOUS
  <2> USE ThreadsAssumption
      DEF TypeOK, GuardInv, Promised, AbsentIdle, StillThere, GuardedNeverWaits,
          Goto, Threads, Places, ThreadsAssumption, Sole
  <2>1. ASSUME NEW t \in Threads, Lock(t) PROVE GuardInv'
    BY <2>1 DEF Lock
  <2>2. ASSUME NEW t \in Threads, Unlock(t) PROVE GuardInv'
    BY <2>2 DEF Unlock
  <2>3. ASSUME NEW p \in Producers, Push(p) PROVE GuardInv'
    <3>1. q' # <<>>
      BY <2>3, AppendProperties DEF Push
    <3>2. QED BY <2>3, <3>1 DEF Push
  <2>4. ASSUME NEW p \in Producers, Notify(p) PROVE GuardInv'
    BY <2>4 DEF Notify
  <2>5. ASSUME NEW p \in Producers, NEW v \in Value, Enqueue(p, v) PROVE GuardInv'
    BY <2>5 DEF Enqueue
  <2>6. ASSUME NEW c \in Consumers, AskEmpty(c) PROVE GuardInv'
    BY <2>6 DEF AskEmpty, Racing, PushUnderWay, PopUnderWay
  <2>7. ASSUME NEW c \in Consumers, CallBlind(c) PROVE GuardInv'
    BY <2>7 DEF CallBlind
  <2>8. ASSUME NEW c \in Consumers, Wait(c) PROVE GuardInv'
    BY <2>8 DEF Wait, MutualExclusion, Critical
  <2>9. ASSUME NEW c \in Consumers, SpuriousWake(c) PROVE GuardInv'
    BY <2>9 DEF SpuriousWake
  <2>10. ASSUME NEW c \in Consumers, Pop(c) PROVE GuardInv'
    BY <2>10 DEF Pop, MutualExclusion, Critical
  <2>11. CASE UNCHANGED vars
    BY <2>11 DEF vars
  <2>12. QED
    BY <2>1, <2>2, <2>3, <2>4, <2>5, <2>6, <2>7, <2>8, <2>9, <2>10, <2>11, NextCases
<1>3. GuardInv => GuardedNeverWaits
  BY DEF GuardInv
<1>4. QED BY <1>1, <1>2, <1>3, TypeCorrect, Exclusion, PTL DEF Spec
-----------------------------------------------------------------------------
\* How a step changes the two sides of the balance.  Nobody sleeps only after
\* an empty queue was seen, each push adds a notify, each notify that finds a
\* sleeper turns into a consumer on its way, and each pop uses one up.
LEMMA Counts ==
  ASSUME TypeOK, FiniteAssumption
  PROVE  /\ IsFiniteSet(Coming) /\ IsFiniteSet(Telling)
         /\ Cardinality(Coming) \in Nat /\ Cardinality(Telling) \in Nat
         /\ Len(q) \in Nat
<1>1. Coming \in SUBSET Consumers /\ Telling \in SUBSET Producers
  BY DEF Coming, Telling
<1>2. IsFiniteSet(Coming) /\ IsFiniteSet(Telling)
  BY <1>1, FS_Subset DEF FiniteAssumption
<1>3. Len(q) \in Nat
  BY LenProperties DEF TypeOK
<1>4. QED BY <1>2, <1>3, FS_CardinalityType

LEMMA WakeupStep ==
  ASSUME TypeOK, ThreadsAssumption, FiniteAssumption, NoLostWakeup, [Next]_vars
  PROVE  NoLostWakeup'
<1> DEFINE C == Cardinality(Coming)
           T == Cardinality(Telling)
<1>1. /\ IsFiniteSet(Coming) /\ IsFiniteSet(Telling)
      /\ C \in Nat /\ T \in Nat /\ Len(q) \in Nat
  BY Counts
<1>2. Sleeping # {} => Len(q) <= C + T
  BY DEF NoLostWakeup
<1>3. pc \in [Threads -> Places] /\ Producers \cap Consumers = {}
      /\ Consumers \subseteq Threads /\ Producers \subseteq Threads
  BY DEF TypeOK, ThreadsAssumption, Threads
<1> USE DEF Goto, Coming, Telling, Sleeping
\* A step that takes nothing away keeps the balance.
<1>4. ASSUME q' = q, Coming' = Coming \/ \E c \in Consumers \ Coming : Coming' = Coming \cup {c},
             Telling' = Telling, Sleeping' \subseteq Sleeping
      PROVE  NoLostWakeup'
  <2> HIDE DEF Coming, Telling, Sleeping
  <2>1. Cardinality(Coming') \in Nat /\ Cardinality(Coming') >= C
    <3>1. ASSUME NEW c \in Consumers \ Coming, Coming' = Coming \cup {c}
          PROVE  Cardinality(Coming') = C + 1
      BY <1>1, <3>1, FS_AddElement
    <3>2. QED BY <1>1, <1>4, <3>1
  <2>2. Cardinality(Telling') = T /\ Len(q') = Len(q)
    BY <1>4
  <2>3. Sleeping' # {} => Sleeping # {}
    BY <1>4
  <2>4. Sleeping' # {} => Len(q') <= Cardinality(Coming') + Cardinality(Telling')
    <3> HIDE DEF C, T
    <3>1. QED BY <1>1, <1>2, <2>1, <2>2, <2>3
  <2>5. QED BY <2>4 DEF NoLostWakeup
<1>5. ASSUME NEW t \in Threads, Lock(t) PROVE NoLostWakeup'
  <2>1. Coming' = Coming /\ Telling' = Telling /\ Sleeping' = Sleeping /\ q' = q
    BY <1>3, <1>5 DEF Lock
  <2>2. QED BY <1>4, <2>1
<1>6. ASSUME NEW t \in Threads, Unlock(t) PROVE NoLostWakeup'
  <2>1. Coming' = Coming /\ Telling' = Telling /\ Sleeping' = Sleeping /\ q' = q
    BY <1>3, <1>6 DEF Unlock
  <2>2. QED BY <1>4, <2>1
<1>7. ASSUME NEW p \in Producers, Push(p) PROVE NoLostWakeup'
  <2>1. /\ Coming' = Coming /\ Sleeping' = Sleeping
        /\ Telling' = Telling \cup {p} /\ p \notin Telling
    BY <1>3, <1>7 DEF Push
  <2>2. Len(q') = Len(q) + 1
    <3>1. item[p] \in Value /\ q \in Seq(Value)
      BY DEF TypeOK
    <3>2. QED BY <1>7, <3>1, AppendProperties DEF Push
  <2> HIDE DEF Coming, Telling, Sleeping
  <2>3. Cardinality(Telling') = T + 1
    BY <1>1, <2>1, FS_AddElement
  <2>4. Cardinality(Coming') = C
    BY <2>1
  <2>5. Sleeping' # {} => Len(q') <= Cardinality(Coming') + Cardinality(Telling')
    <3> HIDE DEF C, T
    <3>1. QED BY <1>1, <1>2, <2>1, <2>2, <2>3, <2>4
  <2>6. QED BY <2>5 DEF NoLostWakeup
<1>8. ASSUME NEW p \in Producers, Notify(p) PROVE NoLostWakeup'
  <2>1. pc[p] = "notify" /\ q' = q
    BY <1>8 DEF Notify
  <2>2. CASE (\A c \in Consumers : pc[c] # "wait") /\ pc' = [pc EXCEPT ![p] = "unlock"]
    <3>1. Sleeping' = {}
      BY <1>3, <2>2
    <3>2. QED BY <3>1 DEF NoLostWakeup
  <2>3. ASSUME NEW c \in Consumers, pc[c] = "wait",
               pc' = [pc EXCEPT ![p] = "unlock", ![c] = "lock"]
        PROVE  NoLostWakeup'
    <3>1. /\ Coming' = Coming \cup {c} /\ c \notin Coming
          /\ Telling' = Telling \ {p} /\ p \in Telling
          /\ Sleeping # {}
      <4>1. p # c /\ pc \in [Threads -> Places]
        BY <1>3
      <4>2. pc'[p] = "unlock" /\ pc'[c] = "lock"
            /\ \A t \in Threads \ {p, c} : pc'[t] = pc[t]
        BY <1>3, <2>3, <4>1
      <4>3. QED BY <1>3, <2>1, <2>3, <4>1, <4>2
    <3> HIDE DEF Coming, Telling, Sleeping
    <3>2. Cardinality(Coming') = C + 1
      BY <1>1, <3>1, FS_AddElement
    <3>3. Cardinality(Telling') = T - 1
      BY <1>1, <3>1, FS_RemoveElement
    <3>4. Len(q') <= Cardinality(Coming') + Cardinality(Telling')
      <4> HIDE DEF C, T
      <4>1. QED BY <1>1, <1>2, <2>1, <3>1, <3>2, <3>3
    <3>5. QED BY <3>4 DEF NoLostWakeup
  <2>4. QED BY <1>8, <2>2, <2>3 DEF Notify
<1>9. ASSUME NEW p \in Producers, NEW v \in Value, Enqueue(p, v) PROVE NoLostWakeup'
  <2>1. Coming' = Coming /\ Telling' = Telling /\ Sleeping' = Sleeping /\ q' = q
    BY <1>3, <1>9 DEF Enqueue
  <2>2. QED BY <1>4, <2>1
<1>10. ASSUME NEW c \in Consumers, AskEmpty(c) \/ CallBlind(c) \/ SpuriousWake(c)
       PROVE  NoLostWakeup'
  <2>1. q' = q /\ pc[c] \in {"idle", "wait"}
        /\ (pc' = pc \/ pc' = [pc EXCEPT ![c] = "lock"])
    BY <1>10 DEF AskEmpty, CallBlind, SpuriousWake
  <2>2. CASE pc' = pc
    BY <1>4, <2>1, <2>2
  <2>3. CASE pc' = [pc EXCEPT ![c] = "lock"]
    <3>1. /\ Coming' = Coming \cup {c} /\ c \notin Coming
          /\ Telling' = Telling /\ Sleeping' \subseteq Sleeping
      BY <1>3, <2>1, <2>3
    <3>2. QED BY <1>4, <2>1, <3>1
  <2>4. QED BY <2>1, <2>2, <2>3
<1>11. ASSUME NEW c \in Consumers, Wait(c) PROVE NoLostWakeup'
  <2>1. q' = <<>> /\ pc' \in [Threads -> Places]
    BY <1>3, <1>11 DEF Wait, Places
  <2>2. Len(q') = 0
    BY <2>1
  <2>3. IsFiniteSet(Coming') /\ IsFiniteSet(Telling')
    <3>1. Coming' \in SUBSET Consumers /\ Telling' \in SUBSET Producers
      OBVIOUS
    <3>2. QED BY <3>1, FS_Subset DEF FiniteAssumption
  <2> HIDE DEF Coming, Telling, Sleeping
  <2>4. Cardinality(Coming') \in Nat /\ Cardinality(Telling') \in Nat
    BY <2>3, FS_CardinalityType
  <2>5. QED BY <2>2, <2>4 DEF NoLostWakeup
<1>12. ASSUME NEW c \in Consumers, Pop(c) PROVE NoLostWakeup'
  <2>1. /\ Coming' = Coming \ {c} /\ c \in Coming
        /\ Telling' = Telling /\ Sleeping' = Sleeping
    BY <1>3, <1>12 DEF Pop
  <2>2. Len(q') = Len(q) - 1
    BY <1>12, HeadTailProperties DEF Pop, TypeOK
  <2> HIDE DEF Coming, Telling, Sleeping
  <2>3. Cardinality(Coming') = C - 1
    BY <1>1, <2>1, FS_RemoveElement
  <2>4. Cardinality(Telling') = T
    BY <2>1
  <2>5. Sleeping' # {} => Len(q') <= Cardinality(Coming') + Cardinality(Telling')
    <3> HIDE DEF C, T
    <3>1. QED BY <1>1, <1>2, <2>1, <2>2, <2>3, <2>4
  <2>6. QED BY <2>5 DEF NoLostWakeup
<1>13. CASE UNCHANGED vars
  <2>1. Coming' = Coming /\ Telling' = Telling /\ Sleeping' = Sleeping /\ q' = q
    BY <1>13 DEF vars
  <2>2. QED BY <1>4, <2>1
<1>14. QED
  BY <1>5, <1>6, <1>7, <1>8, <1>9, <1>10, <1>11, <1>12, <1>13, NextCases

\* No wakeup is lost, for any number of producers and consumers.
THEOREM WakeupsArrive == Spec => []NoLostWakeup
<1>1. Init => NoLostWakeup
  <2>1. Init => Sleeping = {}
    BY DEF Init, Sleeping, Threads
  <2>2. QED BY <2>1 DEF NoLostWakeup
<1>2. TypeOK /\ NoLostWakeup /\ [Next]_vars => NoLostWakeup'
  BY WakeupStep, ThreadsAssumption, FiniteAssumption
<1>3. QED BY <1>1, <1>2, TypeCorrect, PTL DEF Spec
-----------------------------------------------------------------------------
\* The queue is the part of the history that is still to come out.
Conserved == popped \o q = pushed

LEMMA ConservedStep ==
  ASSUME TypeOK, Conserved, [Next]_vars
  PROVE  Conserved' /\ [Fifo!Next]_<<pushed, popped>>
<1> USE DEF Conserved
<1>1. ASSUME NEW p \in Producers, Push(p)
      PROVE  Conserved' /\ Fifo!Put(item[p]) /\ item[p] \in Value
  <2>1. item[p] \in Value
    BY DEF TypeOK
  <2>2. popped \o Append(q, item[p]) = Append(popped \o q, item[p])
    BY <2>1, AppendToConcat DEF TypeOK
  <2>3. QED BY <1>1, <2>1, <2>2 DEF Push, Fifo!Put
<1>2. ASSUME NEW c \in Consumers, Pop(c) PROVE Conserved' /\ Fifo!Get
  <2>1. /\ Append(popped, Head(q)) \o Tail(q) = popped \o q
        /\ Len(popped) < Len(popped \o q)
        /\ (popped \o q)[Len(popped) + 1] = Head(q)
    BY <1>2, MoveHead DEF Pop, TypeOK
  <2>2. QED BY <1>2, <2>1 DEF Pop, Fifo!Get
<1>3. ASSUME UNCHANGED <<q, pushed, popped>>
      PROVE  Conserved' /\ [Fifo!Next]_<<pushed, popped>>
  BY <1>3
<1>4. ASSUME NEW t \in Threads, Lock(t) \/ Unlock(t)
      PROVE  UNCHANGED <<q, pushed, popped>>
  BY <1>4 DEF Lock, Unlock
<1>5. ASSUME NEW p \in Producers,
             Notify(p) \/ \E v \in Value : Enqueue(p, v)
      PROVE  UNCHANGED <<q, pushed, popped>>
  BY <1>5 DEF Notify, Enqueue
<1>6. ASSUME NEW c \in Consumers,
             AskEmpty(c) \/ CallBlind(c) \/ Wait(c) \/ SpuriousWake(c)
      PROVE  UNCHANGED <<q, pushed, popped>>
  BY <1>6 DEF AskEmpty, CallBlind, Wait, SpuriousWake
<1>7. CASE UNCHANGED vars
  BY <1>3, <1>7 DEF vars
<1>8. QED
  BY <1>1, <1>2, <1>3, <1>4, <1>5, <1>6, <1>7, NextCases DEF Fifo!Next

\* SafeQueue implements the abstract queue: first in, first out, each once.
THEOREM ImplementsFifo == Spec => FifoSpec
<1>1. Init => Conserved /\ Fifo!Init
  BY DEF Init, Conserved, Fifo!Init
<1>2. TypeOK /\ Conserved /\ [Next]_vars
        => Conserved' /\ [Fifo!Next]_<<pushed, popped>>
  BY ConservedStep
<1>3. QED BY <1>1, <1>2, TypeCorrect, PTL DEF Spec, FifoSpec, Fifo!Spec
=============================================================================
