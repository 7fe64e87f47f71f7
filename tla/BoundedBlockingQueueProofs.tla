--------------------- MODULE BoundedBlockingQueueProofs ---------------------
(* Theorems about BoundedBlockingQueue, for any finite number of producers *)
(* and consumers, any capacity and any number of values.                   *)
EXTENDS BoundedBlockingQueue, FiniteSetTheorems, TLAPS

(* The deque never holds more than capacity_ values.                       *)
WithinCapacity == Len(queue) <= Capacity

(* A producer inside push_wait still has the value it wants to push.       *)
HasValue == \A p \in Producers : pc[p] # "idle" => sent[p] < Events

(* The inductive invariant: a sleeping producer needs the bound on the     *)
(* queue, the count of pushed values needs HasValue.                       *)
IndInv == TypeOK /\ WithinCapacity /\ HasValue /\ NoLostWakeup
-----------------------------------------------------------------------------
(* One element more or less, counted.                                      *)
LEMMA Count ==
  ASSUME NEW A, NEW B, IsFiniteSet(A), IsFiniteSet(B), NEW t
  PROVE  /\ Cardinality(A) \in Nat /\ Cardinality(B) \in Nat
         /\ B = A \cup {t} => Cardinality(B) >= Cardinality(A)
         /\ B = A \cup {t} /\ t \notin A => Cardinality(B) = Cardinality(A) + 1
         /\ B = A \ {t} => Cardinality(B) >= Cardinality(A) - 1
<1>1. Cardinality(A) \in Nat /\ Cardinality(B) \in Nat
  BY FS_CardinalityType
<1>2. /\ Cardinality(A \cup {t}) = IF t \in A THEN Cardinality(A) ELSE Cardinality(A) + 1
      /\ Cardinality(A \ {t}) = IF t \in A THEN Cardinality(A) - 1 ELSE Cardinality(A)
  BY FS_AddElement, FS_RemoveElement
<1> QED BY <1>1, <1>2

(* What one thread's change of place does to the threads on their way to   *)
(* the queue.                                                              *)
LEMMA ActiveCount ==
  ASSUME NEW S, IsFiniteSet(S), NEW t
  PROVE  /\ Cardinality(Active(S)) \in Nat /\ Cardinality(Active(S)') \in Nat
         /\ Active(S)' = Active(S) \cup {t} =>
              Cardinality(Active(S)') >= Cardinality(Active(S))
         /\ Active(S)' = Active(S) \cup {t} /\ t \notin Active(S) =>
              Cardinality(Active(S)') = Cardinality(Active(S)) + 1
         /\ Active(S)' = Active(S) \ {t} =>
              Cardinality(Active(S)') >= Cardinality(Active(S)) - 1
<1>1. IsFiniteSet(Active(S)) /\ IsFiniteSet(Active(S)')
  BY FS_Subset DEF Active
<1> QED BY <1>1, Count

LEMMA Initially == Init => IndInv
<1> SUFFICES ASSUME Init PROVE IndInv
  OBVIOUS
<1> USE QueueAssumption DEF Init
<1>1. TypeOK
  BY DEF TypeOK, Threads
<1>2. WithinCapacity /\ HasValue
  BY DEF WithinCapacity, HasValue, Threads
<1>3. Waiting(Producers) = {} /\ Waiting(Consumers) = {}
  BY DEF Waiting, Threads
<1> QED BY <1>1, <1>2, <1>3 DEF IndInv, NoLostWakeup
-----------------------------------------------------------------------------
(* Taking the mutex: a woken thread stays on its way, a new one joins.     *)
LEMMA LockKeeps ==
  ASSUME IndInv, NEW t \in Threads, Lock(t)
  PROVE  IndInv'
<1> USE QueueAssumption DEF IndInv, Lock
<1>1. TypeOK'
  BY DEF TypeOK, Threads
<1>2. WithinCapacity' /\ HasValue'
  BY DEF WithinCapacity, HasValue, TypeOK, Threads
<1>3. ASSUME NEW S \in {Producers, Consumers}
      PROVE  /\ Waiting(S)' = Waiting(S)
             /\ Active(S)' = Active(S) \/ Active(S)' = Active(S) \cup {t}
  BY DEF Waiting, Active, TypeOK, Threads
<1>4. ASSUME NEW S \in {Producers, Consumers}
      PROVE  /\ Cardinality(Active(S)) \in Nat /\ Cardinality(Active(S)') \in Nat
             /\ Cardinality(Active(S)') >= Cardinality(Active(S))
  <2>1. IsFiniteSet(S)
    OBVIOUS
  <2> HIDE QueueAssumption DEF IndInv, Lock
  <2> QED BY <1>3, <2>1, ActiveCount
<1>5. NoLostWakeup'
  BY <1>3, <1>4 DEF NoLostWakeup, TypeOK
<1> QED BY <1>1, <1>2, <1>5
-----------------------------------------------------------------------------
(* wait in push_wait: the producer goes to sleep because the queue is      *)
(* full, so no place is left unannounced.                                  *)
LEMMA PushBlockKeeps ==
  ASSUME IndInv, NEW p \in Producers, PushBlock(p)
  PROVE  IndInv'
<1> USE QueueAssumption DEF IndInv, PushBlock, Block
<1>1. TypeOK'
  BY DEF TypeOK, Threads
<1>2. WithinCapacity' /\ HasValue'
  BY DEF WithinCapacity, HasValue, TypeOK, Threads
<1>3. Waiting(Consumers)' = Waiting(Consumers) /\ Active(Consumers)' = Active(Consumers)
  BY DEF Waiting, Active, TypeOK, Threads
<1>4. Capacity - Len(queue') = 0
  BY DEF WithinCapacity, TypeOK
<1>5. Cardinality(Active(Producers)') \in Nat
  BY ActiveCount
<1> QED BY <1>1, <1>2, <1>3, <1>4, <1>5 DEF NoLostWakeup

(* wait in pop_wait: the consumer goes to sleep because the queue is       *)
(* empty, so no value is left unannounced.                                 *)
LEMMA PopBlockKeeps ==
  ASSUME IndInv, NEW c \in Consumers, PopBlock(c)
  PROVE  IndInv'
<1> USE QueueAssumption DEF IndInv, PopBlock, Block
<1>1. TypeOK'
  BY DEF TypeOK, Threads
<1>2. WithinCapacity' /\ HasValue'
  BY DEF WithinCapacity, HasValue, TypeOK, Threads
<1>3. Waiting(Producers)' = Waiting(Producers) /\ Active(Producers)' = Active(Producers)
  BY DEF Waiting, Active, TypeOK, Threads
<1>4. Len(queue') = 0
  OBVIOUS
<1>5. Cardinality(Active(Consumers)') \in Nat
  BY ActiveCount
<1> QED BY <1>1, <1>2, <1>3, <1>4, <1>5 DEF NoLostWakeup
-----------------------------------------------------------------------------
(* notify_one and the return: thread t of the one kind leaves, and if a    *)
(* thread of the other kind slept, exactly one of them is on its way.      *)
Handover(t, S, O) ==
  /\ pc' \in [Threads -> {"idle", "locked", "waiting", "woken"}]
  /\ \A x \in Threads : pc'[x] = "locked" <=> pc[x] = "locked" /\ x # t
  /\ \A x \in S : pc'[x] = IF x = t THEN "idle" ELSE pc[x]
  /\ \A x \in O : pc'[x] # "idle" => pc[x] # "idle"
  /\ Waiting(S)' \subseteq Waiting(S)
  /\ Waiting(O)' \subseteq Waiting(O)
  /\ Cardinality(Active(S)') >= Cardinality(Active(S)) - 1
  /\ Waiting(O) # {} => Cardinality(Active(O)') = Cardinality(Active(O)) + 1

LEMMA Notified ==
  ASSUME TypeOK, NEW S, NEW O, S \cup O \subseteq Threads, S \cap O = {},
         IsFiniteSet(S), IsFiniteSet(O), NEW t \in S, NotifyOne(t, O)
  PROVE  Handover(t, S, O)
<1>1. CASE Waiting(O) = {}
  <2>1. pc' = [pc EXCEPT ![t] = "idle"]
    BY <1>1 DEF NotifyOne
  <2>2. /\ Waiting(S)' \subseteq Waiting(S) /\ Waiting(O)' \subseteq Waiting(O)
        /\ Active(S)' = Active(S) \ {t}
    BY <2>1 DEF TypeOK, Waiting, Active
  <2>3. /\ pc' \in [Threads -> {"idle", "locked", "waiting", "woken"}]
        /\ \A x \in Threads : pc'[x] = "locked" <=> pc[x] = "locked" /\ x # t
        /\ \A x \in S : pc'[x] = IF x = t THEN "idle" ELSE pc[x]
        /\ \A x \in O : pc'[x] # "idle" => pc[x] # "idle"
    BY <2>1 DEF TypeOK
  <2> QED BY <1>1, <2>2, <2>3, ActiveCount DEF Handover
<1>2. CASE Waiting(O) # {}
  <2>1. PICK w \in Waiting(O) : pc' = [pc EXCEPT ![t] = "idle", ![w] = "woken"]
    BY <1>2 DEF NotifyOne
  <2>2. w # t /\ w \in O /\ w \notin S /\ pc[w] = "waiting" /\ w \notin Active(O)
    BY DEF Waiting, Active
  <2>3. /\ Waiting(S)' \subseteq Waiting(S) /\ Waiting(O)' \subseteq Waiting(O)
        /\ Active(S)' = Active(S) \ {t}
        /\ Active(O)' = Active(O) \cup {w}
    BY <2>1, <2>2 DEF TypeOK, Waiting, Active
  <2>4. Cardinality(Active(S)') >= Cardinality(Active(S)) - 1
    BY <2>3, ActiveCount
  <2>5. Cardinality(Active(O)') = Cardinality(Active(O)) + 1
    BY <2>2, <2>3, ActiveCount
  <2>6. /\ pc' \in [Threads -> {"idle", "locked", "waiting", "woken"}]
        /\ \A x \in Threads : pc'[x] = "locked" <=> pc[x] = "locked" /\ x # t
        /\ \A x \in S : pc'[x] = IF x = t THEN "idle" ELSE pc[x]
        /\ \A x \in O : pc'[x] # "idle" => pc[x] # "idle"
    BY <2>1, <2>2 DEF TypeOK
  <2> QED BY <2>3, <2>4, <2>5, <2>6 DEF Handover
<1> QED BY <1>1, <1>2

(* emplace_back with room: one place less, one producer less on its way;   *)
(* one value more, and one consumer more if any slept.                     *)
LEMMA PushKeeps ==
  ASSUME IndInv, NEW p \in Producers, Push(p)
  PROVE  IndInv'
<1> USE QueueAssumption DEF IndInv
<1>1. /\ mutex = p /\ Len(queue) < Capacity /\ mutex' = None
      /\ queue' = Append(queue, <<p, sent[p] + 1>>)
      /\ sent' = [sent EXCEPT ![p] = @ + 1]
      /\ NotifyOne(p, Consumers)
      /\ taken' = taken /\ spurious' = spurious
  BY DEF Push
<1>2. Handover(p, Producers, Consumers)
  BY <1>1, Notified DEF Threads
<1>3. Len(queue) \in Nat /\ Len(queue') = Len(queue) + 1 /\ queue' \in Seq(Producers \X Nat)
  BY <1>1 DEF TypeOK
<1>4. pc[p] = "locked" /\ sent[p] < Events
  BY <1>1 DEF TypeOK, HasValue, Threads
<1>5. TypeOK'
  <2>1. sent' \in [Producers -> 0..Events]
    BY <1>1, <1>4 DEF TypeOK
  <2>2. \A t \in Threads : pc'[t] = "locked" <=> mutex' = t
    BY <1>1, <1>2 DEF Handover, TypeOK, Threads
  <2> QED BY <1>1, <1>2, <1>3, <2>1, <2>2 DEF Handover, TypeOK
<1>6. HasValue'
  BY <1>1, <1>2 DEF Handover, TypeOK, HasValue, Threads
<1>7. WithinCapacity'
  BY <1>1, <1>3 DEF WithinCapacity
<1>8. NoLostWakeup'
  <2>1. /\ Cardinality(Active(Consumers)) \in Nat /\ Cardinality(Active(Consumers)') \in Nat
        /\ Cardinality(Active(Producers)) \in Nat /\ Cardinality(Active(Producers)') \in Nat
    BY ActiveCount
  <2>2. ASSUME Waiting(Consumers)' # {}
        PROVE  Len(queue') <= Cardinality(Active(Consumers)')
    BY <1>2, <1>3, <2>1, <2>2 DEF Handover, NoLostWakeup
  <2>3. ASSUME Waiting(Producers)' # {}
        PROVE  Capacity - Len(queue') <= Cardinality(Active(Producers)')
    BY <1>2, <1>3, <2>1, <2>3 DEF Handover, NoLostWakeup
  <2> QED BY <2>2, <2>3 DEF NoLostWakeup
<1> QED BY <1>5, <1>6, <1>7, <1>8

(* pop_front of a value: the mirror image.                                 *)
LEMMA PopKeeps ==
  ASSUME IndInv, NEW c \in Consumers, Pop(c)
  PROVE  IndInv'
<1> USE QueueAssumption DEF IndInv
<1>1. /\ mutex = c /\ queue # <<>> /\ mutex' = None
      /\ taken' = [taken EXCEPT ![c] = Head(queue)]
      /\ queue' = Tail(queue)
      /\ NotifyOne(c, Producers)
      /\ sent' = sent /\ spurious' = spurious
  BY DEF Pop
<1>2. Handover(c, Consumers, Producers)
  BY <1>1, Notified DEF Threads
<1>3. /\ Len(queue) \in Nat /\ Len(queue') = Len(queue) - 1
      /\ queue' \in Seq(Producers \X Nat) /\ Head(queue) \in Producers \X Nat
  BY <1>1 DEF TypeOK
<1>4. TypeOK'
  <2>1. taken' \in [Consumers -> {Nothing} \cup (Producers \X Nat)]
    BY <1>1, <1>3 DEF TypeOK
  <2>2. \A t \in Threads : pc'[t] = "locked" <=> mutex' = t
    BY <1>1, <1>2 DEF Handover, TypeOK, Threads
  <2> QED BY <1>1, <1>2, <1>3, <2>1, <2>2 DEF Handover, TypeOK
<1>5. HasValue'
  BY <1>1, <1>2 DEF Handover, TypeOK, HasValue, Threads
<1>6. WithinCapacity'
  BY <1>1, <1>3 DEF WithinCapacity
<1>7. NoLostWakeup'
  <2>1. /\ Cardinality(Active(Consumers)) \in Nat /\ Cardinality(Active(Consumers)') \in Nat
        /\ Cardinality(Active(Producers)) \in Nat /\ Cardinality(Active(Producers)') \in Nat
    BY ActiveCount
  <2>2. ASSUME Waiting(Consumers)' # {}
        PROVE  Len(queue') <= Cardinality(Active(Consumers)')
    BY <1>2, <1>3, <2>1, <2>2 DEF Handover, NoLostWakeup
  <2>3. ASSUME Waiting(Producers)' # {}
        PROVE  Capacity - Len(queue') <= Cardinality(Active(Producers)')
    BY <1>2, <1>3, <2>1, <2>3 DEF Handover, NoLostWakeup
  <2> QED BY <2>2, <2>3 DEF NoLostWakeup
<1> QED BY <1>4, <1>5, <1>6, <1>7

(* A thread that wakes up for no reason is one more on its way.            *)
LEMMA SpuriousKeeps ==
  ASSUME IndInv, NEW t \in Threads, SpuriousWakeup(t)
  PROVE  IndInv'
<1> USE QueueAssumption DEF IndInv, SpuriousWakeup
<1>1. TypeOK'
  BY DEF TypeOK, Threads
<1>2. WithinCapacity' /\ HasValue'
  BY DEF WithinCapacity, HasValue, TypeOK, Threads
<1>3. ASSUME NEW S \in {Producers, Consumers}
      PROVE  /\ Waiting(S)' \subseteq Waiting(S)
             /\ Active(S)' = Active(S) \/ Active(S)' = Active(S) \cup {t}
  BY DEF Waiting, Active, TypeOK, Threads
<1>4. ASSUME NEW S \in {Producers, Consumers}
      PROVE  /\ Cardinality(Active(S)) \in Nat /\ Cardinality(Active(S)') \in Nat
             /\ Cardinality(Active(S)') >= Cardinality(Active(S))
  <2>1. IsFiniteSet(S)
    OBVIOUS
  <2> HIDE QueueAssumption DEF IndInv, SpuriousWakeup
  <2> QED BY <1>3, <2>1, ActiveCount
<1>5. NoLostWakeup'
  BY <1>3, <1>4 DEF NoLostWakeup, TypeOK
<1> QED BY <1>1, <1>2, <1>5
-----------------------------------------------------------------------------
(* The inductive invariant holds whatever the scheduler and the condition  *)
(* variables do.                                                           *)
THEOREM Invariance == Spec => []IndInv
<1>1. IndInv /\ [Next]_vars => IndInv'
  <2> SUFFICES ASSUME IndInv, [Next]_vars PROVE IndInv'
    OBVIOUS
  <2>1. ASSUME NEW t \in Threads, Run(t) PROVE IndInv'
    BY <2>1, LockKeeps, PushBlockKeeps, PushKeeps, PopBlockKeeps, PopKeeps DEF Run
  <2>2. ASSUME NEW t \in Threads, SpuriousWakeup(t) PROVE IndInv'
    BY <2>2, SpuriousKeeps
  <2>3. CASE UNCHANGED vars
    BY <2>3 DEF vars, IndInv, TypeOK, WithinCapacity, HasValue, NoLostWakeup, Waiting, Active
  <2> QED BY <2>1, <2>2, <2>3 DEF Next
<1> QED BY Initially, <1>1, PTL DEF Spec

(* The variables stay in their types, and mutex_ is held by the thread in  *)
(* the critical section and by no other.                                   *)
THEOREM TypeCorrect == Spec => []TypeOK
<1>1. IndInv => TypeOK
  BY DEF IndInv
<1> QED BY Invariance, <1>1, PTL

(* One notify_one per push and one per pop lose no wakeup.                 *)
THEOREM WakeupsSuffice == Spec => []NoLostWakeup
<1>1. IndInv => NoLostWakeup
  BY DEF IndInv
<1> QED BY Invariance, <1>1, PTL
-----------------------------------------------------------------------------
(* Every step of a thread is a push or a pop of the bounded FIFO channel,  *)
(* or invisible to it.                                                     *)
LEMMA StepRefines ==
  ASSUME IndInv, [Next]_vars
  PROVE  [Fifo!Next]_(Fifo!vars)
<1>1. CASE UNCHANGED vars
  BY <1>1 DEF vars, Fifo!vars
<1>2. ASSUME NEW t \in Threads, Lock(t) \/ PushBlock(t) \/ PopBlock(t) \/ SpuriousWakeup(t)
      PROVE  UNCHANGED Fifo!vars
  BY <1>2 DEF Lock, PushBlock, PopBlock, Block, SpuriousWakeup, Fifo!vars
<1>3. ASSUME NEW p \in Producers, Push(p) PROVE Fifo!Push(p)
  BY <1>3 DEF Push, Fifo!Push
<1>4. ASSUME NEW c \in Consumers, Pop(c) PROVE Fifo!Pop(c)
  BY <1>4 DEF Pop, Fifo!Pop
<1> QED BY <1>1, <1>2, <1>3, <1>4 DEF Next, Run, Fifo!Next

(* The blocking queue implements the bounded FIFO channel: it loses,       *)
(* duplicates and reorders nothing, and never holds more than capacity_.   *)
THEOREM QueueIsFifo == Spec => ImplementsFifo
<1>1. Init => Fifo!Init
  BY DEF Init, Fifo!Init, Nothing, Fifo!Nothing
<1>2. IndInv /\ [Next]_vars => [Fifo!Next]_(Fifo!vars)
  BY StepRefines
<1> QED BY Invariance, <1>1, <1>2, PTL DEF Spec, ImplementsFifo, Fifo!Spec
=============================================================================
