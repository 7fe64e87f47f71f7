------------------------ MODULE BoundedBlockingQueue ------------------------
(***************************************************************************)
(* hft::concurrency::BoundedBlockingQueue<T>: a deque under one mutex with *)
(* two condition variables.  Threads call push_wait or pop_wait; a thread  *)
(* that waits gives up the mutex and must take it again when it is woken,  *)
(* by notify_one or for no reason at all.                                  *)
(*                                                                         *)
(* The k-th value pushed by producer p is <<p, k>>.                        *)
(***************************************************************************)
EXTENDS Integers, Sequences, FiniteSets

CONSTANTS
  Producers, Consumers,
  Capacity,             \* capacity_
  Events,               \* bound: values per producer
  MaxSpurious           \* bound: spurious wakeups in a run

None == "none"

ASSUME QueueAssumption ==
  /\ Producers \cap Consumers = {} /\ None \notin Producers \cup Consumers
  /\ IsFiniteSet(Producers) /\ IsFiniteSet(Consumers)
  /\ Capacity \in Nat \ {0} /\ Events \in Nat /\ MaxSpurious \in Nat

VARIABLES
  queue,      \* queue_
  mutex,      \* the thread that holds mutex_, or None
  pc,         \* where each thread is in its call
  sent,       \* sent[p]: values producer p has pushed
  taken,      \* taken[c]: the value consumer c popped last
  spurious    \* spurious wakeups so far

vars == <<queue, mutex, pc, sent, taken, spurious>>

Threads == Producers \cup Consumers
Nothing == <<>>

Init ==
  /\ queue = <<>>
  /\ mutex = None
  /\ pc = [t \in Threads |-> "idle"]
  /\ sent = [p \in Producers |-> 0]
  /\ taken = [c \in Consumers |-> Nothing]
  /\ spurious = 0
-----------------------------------------------------------------------------
(* A thread enters its call, or comes back from the condition variable:    *)
(* either way it takes the mutex and evaluates the predicate.              *)
LockAnyway(t) ==
  /\ pc[t] = "woken" \/ (pc[t] = "idle" /\ (t \in Producers => sent[t] < Events))
  /\ mutex' = t
  /\ pc' = [pc EXCEPT ![t] = "locked"]
  /\ UNCHANGED <<queue, sent, taken, spurious>>
Lock(t) ==
  /\ pc[t] = "woken" \/ (pc[t] = "idle" /\ (t \in Producers => sent[t] < Events))
  /\ mutex = None
  /\ mutex' = t
  /\ pc' = [pc EXCEPT ![t] = "locked"]
  /\ UNCHANGED <<queue, sent, taken, spurious>>

Waiting(S) == {t \in S : pc[t] = "waiting"}

(* notify_one and the return of t, which gives the mutex up.               *)
NotifyNobody(t, S) == pc' = [pc EXCEPT ![t] = "idle"]
NotifyOne(t, S) ==
  IF Waiting(S) = {} THEN pc' = [pc EXCEPT ![t] = "idle"]
  ELSE \E w \in Waiting(S) : pc' = [pc EXCEPT ![t] = "idle", ![w] = "woken"]

Block(t) ==   \* wait: release the mutex and sleep
  /\ mutex = t
  /\ mutex' = None
  /\ pc' = [pc EXCEPT ![t] = "waiting"]
  /\ UNCHANGED <<queue, sent, taken, spurious>>

PushBlock(p) == mutex = p /\ Len(queue) >= Capacity /\ Block(p)

PushUnchecked(p) ==
  /\ mutex = p
  /\ queue' = Append(queue, <<p, sent[p] + 1>>)
  /\ sent' = [sent EXCEPT ![p] = @ + 1]
  /\ NotifyOne(p, Consumers)
  /\ mutex' = None
  /\ UNCHANGED <<taken, spurious>>
Push(p) ==
  /\ mutex = p /\ Len(queue) < Capacity
  /\ queue' = Append(queue, <<p, sent[p] + 1>>)
  /\ sent' = [sent EXCEPT ![p] = @ + 1]
  /\ NotifyOne(p, Consumers)
  /\ mutex' = None
  /\ UNCHANGED <<taken, spurious>>

PopBlock(c) == mutex = c /\ queue = <<>> /\ Block(c)

Pop(c) ==
  /\ mutex = c /\ queue # <<>>
  /\ taken' = [taken EXCEPT ![c] = Head(queue)]
  /\ queue' = Tail(queue)
  /\ NotifyOne(c, Producers)
  /\ mutex' = None
  /\ UNCHANGED <<sent, spurious>>

SpuriousWakeup(t) ==
  /\ pc[t] = "waiting" /\ spurious < MaxSpurious
  /\ pc' = [pc EXCEPT ![t] = "woken"]
  /\ spurious' = spurious + 1
  /\ UNCHANGED <<queue, mutex, sent, taken>>

-----------------------------------------------------------------------------
Run(t) ==
  \/ Lock(t)
  \/ t \in Producers /\ (PushBlock(t) \/ Push(t))
  \/ t \in Consumers /\ (PopBlock(t) \/ Pop(t))

(* When everything is delivered the consumers sleep and nothing happens.   *)
Next == \E t \in Threads : Run(t) \/ SpuriousWakeup(t)

Spec == Init /\ [][Next]_vars

(* Every thread runs: it gets a free mutex in the end and does not stop    *)
(* inside its call.  Nothing wakes a sleeping thread except notify_one.    *)
FairSpec == Spec /\ \A t \in Threads : WF_vars(Run(t))
-----------------------------------------------------------------------------
(* The variables stay in their types and the mutex is held by exactly the  *)
(* thread inside the critical section.                                     *)
TypeOK ==
  /\ queue \in Seq(Producers \X Nat)
  /\ pc \in [Threads -> {"idle", "locked", "waiting", "woken"}]
  /\ \A t \in Threads : pc[t] = "locked" <=> mutex = t
  /\ sent \in [Producers -> 0..Events]
  /\ taken \in [Consumers -> {Nothing} \cup (Producers \X Nat)]
  /\ spurious \in 0..MaxSpurious

Active(S) == {t \in S : pc[t] \in {"woken", "locked"}}

(* No wakeup is lost: while a consumer sleeps there are at least as many   *)
(* other consumers on their way to the queue as there are values in it,    *)
(* and while a producer sleeps, as many producers as there are free        *)
(* places.  One notify_one per push and per pop is enough.                 *)
NoLostWakeup ==
  /\ Waiting(Consumers) # {} => Len(queue) <= Cardinality(Active(Consumers))
  /\ Waiting(Producers) # {} => Capacity - Len(queue) <= Cardinality(Active(Producers))

Fifo == INSTANCE BoundedFifo WITH Bound <- Capacity, pending <- queue

(* The blocking queue is a bounded FIFO channel for any number of          *)
(* producers and consumers.                                                *)
ImplementsFifo == Fifo!Spec

(* Every value is pushed and popped: nobody sleeps for ever on a queue     *)
(* that has room for it or a value in it.                                  *)
AllDelivered == <>[](queue = <<>> /\ \A p \in Producers : sent[p] = Events)
=============================================================================
