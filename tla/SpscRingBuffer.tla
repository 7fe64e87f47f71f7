--------------------------- MODULE SpscRingBuffer ---------------------------
(***************************************************************************)
(* hft::concurrency::SpscRingBuffer<T, Capacity>: one producer thread      *)
(* calling try_push/try_emplace, one consumer thread calling try_pop, two  *)
(* atomic cursors and raw slot storage.                                    *)
(*                                                                         *)
(* The atomics follow the C++ memory model, not sequential consistency: a  *)
(* cursor is its modification order (the log of values stored to it), a    *)
(* load by the other thread may return any entry not older than the one    *)
(* that thread read last, and only a release store read by an acquire load *)
(* makes the slot accesses that precede the store happen before what       *)
(* follows the load.                                                       *)
(*                                                                         *)
(* Values are numbered: the k-th value pushed is k.                        *)
(***************************************************************************)
EXTENDS Integers, Sequences

CONSTANTS Capacity,  \* template parameter: number of slots
          Events     \* bound: how many values the producer pushes

ASSUME CapacityAssumption ==
  /\ Capacity \in Nat /\ Capacity >= 2
  /\ \E k \in 1..Capacity : Capacity = 2^k

ASSUME EventsAssumption == Events \in Nat

VARIABLES
  headLog, tailLog,    \* modification orders of head_ and tail_
  slots,               \* slots_[i]: does it hold a T, and the number of the
                       \* push (pop) that constructed (destroyed) it
  tailSeen, headSeen,  \* newest log entry the producer (consumer) has read
  tailSync, headSync,  \* how many pops (pushes) happen before the current
                       \* point of the producer (consumer)
  pcP, pcC,            \* where each thread is in its call
  out,                 \* the consumer's variable that try_pop assigns
  sizeP, sizeC         \* last size_approx() seen by producer and consumer

producerVars == <<headLog, tailSeen, tailSync, pcP, sizeP>>
consumerVars == <<tailLog, headSeen, headSync, pcC, out, sizeC>>
vars == <<producerVars, consumerVars, slots>>

Indices == 0..(Capacity - 1)

head == headLog[Len(headLog)]     \* latest value of head_
tail == tailLog[Len(tailLog)]     \* latest value of tail_
Pushed == Len(headLog) - 1
Popped == Len(tailLog) - 1

(* mask_ is Capacity - 1 and Capacity a power of two, so & mask_ is % .    *)
increment(index) == (index + 1) % Capacity

Later(a, b) == IF a >= b THEN a ELSE b

(***************************************************************************)
(* A release store carries what its thread did before it: entry j of       *)
(* head_'s log follows the construction of j - 1 values, entry j of        *)
(* tail_'s log the destruction of j - 1 values.  A relaxed store carries   *)
(* nothing.                                                                *)
(***************************************************************************)
Relaxed(j) == 0
HeadView(j) == j - 1
TailView(j) == j - 1

LoadTail(j) ==   \* the producer's acquire load of tail_
  /\ j \in tailSeen..Len(tailLog)
  /\ tailSeen' = j
  /\ tailSync' = Later(tailSync, TailView(j))

LoadHead(j) ==   \* the consumer's acquire load of head_
  /\ j \in headSeen..Len(headLog)
  /\ headSeen' = j
  /\ headSync' = Later(headSync, HeadView(j))

Init ==
  /\ headLog = <<0>> /\ tailLog = <<0>>
  /\ slots = [i \in Indices |-> [live |-> FALSE, n |-> 0]]
  /\ tailSeen = 1 /\ headSeen = 1
  /\ tailSync = 0 /\ headSync = 0
  /\ pcP = "idle" /\ pcC = "idle"
  /\ out = 0
  /\ sizeP = 0 /\ sizeC = 0
-----------------------------------------------------------------------------
(* try_emplace: reserve, construct_at, publish.                            *)

PushBeginAnyway ==
  /\ pcP = "idle" /\ Pushed < Events
  /\ \E j \in 1..Len(tailLog) : LoadTail(j)
  /\ pcP' = "construct"
  /\ UNCHANGED <<consumerVars, slots, headLog, sizeP>>

PushBegin ==
  /\ pcP = "idle" /\ Pushed < Events
  /\ \E j \in 1..Len(tailLog) : LoadTail(j) /\ tailLog[j] # increment(head)
  /\ pcP' = "construct"
  /\ UNCHANGED <<consumerVars, slots, headLog, sizeP>>

PushFull ==   \* return false; the caller spins and calls again
  /\ pcP = "idle" /\ Pushed < Events
  /\ \E j \in 1..Len(tailLog) : LoadTail(j) /\ tailLog[j] = increment(head)
  /\ UNCHANGED <<consumerVars, slots, headLog, pcP, sizeP>>

PushConstruct ==
  /\ pcP = "construct"
  /\ slots' = [slots EXCEPT ![head] = [live |-> TRUE, n |-> Pushed + 1]]
  /\ pcP' = "publish"
  /\ UNCHANGED <<consumerVars, headLog, tailSeen, tailSync, sizeP>>

PushPublish ==
  /\ pcP = "publish"
  /\ headLog' = Append(headLog, increment(head))
  /\ pcP' = "idle"
  /\ UNCHANGED <<consumerVars, slots, tailSeen, tailSync, sizeP>>
-----------------------------------------------------------------------------
(* try_pop, both overloads: check, move out, destroy_at, release the slot. *)

PopBeginKeepsOne ==
  /\ pcC = "idle"
  /\ \E j \in 1..Len(headLog) : LoadHead(j) /\ headLog[j] \notin {tail, increment(tail)}
  /\ pcC' = "move"
  /\ UNCHANGED <<producerVars, slots, tailLog, out, sizeC>>

PopBegin ==
  /\ pcC = "idle"
  /\ \E j \in 1..Len(headLog) : LoadHead(j) /\ headLog[j] # tail
  /\ pcC' = "move"
  /\ UNCHANGED <<producerVars, slots, tailLog, out, sizeC>>

PopEmpty ==   \* return false / std::nullopt
  /\ pcC = "idle"
  /\ \E j \in 1..Len(headLog) : LoadHead(j) /\ headLog[j] = tail
  /\ UNCHANGED <<producerVars, slots, tailLog, pcC, out, sizeC>>

PopMove ==
  /\ pcC = "move"
  /\ out' = slots[tail].n
  /\ pcC' = "destroy"
  /\ UNCHANGED <<producerVars, slots, tailLog, headSeen, headSync, sizeC>>

PopMoveOnly ==
  /\ pcC = "destroy"
  /\ pcC' = "release"
  /\ UNCHANGED <<producerVars, slots, tailLog, headSeen, headSync, out, sizeC>>

PopDestroy ==
  /\ pcC = "destroy"
  /\ slots' = [slots EXCEPT ![tail] = [live |-> FALSE, n |-> Popped + 1]]
  /\ pcC' = "release"
  /\ UNCHANGED <<producerVars, tailLog, headSeen, headSync, out, sizeC>>

PopReleaseForgets ==
  /\ pcC = "release"
  /\ pcC' = "idle"
  /\ UNCHANGED <<producerVars, slots, tailLog, headSeen, headSync, out, sizeC>>

PopRelease ==
  /\ pcC = "release"
  /\ tailLog' = Append(tailLog, increment(tail))
  /\ pcC' = "idle"
  /\ UNCHANGED <<producerVars, slots, headSeen, headSync, out, sizeC>>
-----------------------------------------------------------------------------
(* size_approx() as the benchmark calls it: by the producer after a push   *)
(* and by the consumer after a pop, each exact about its own cursor.       *)

size_approxSwapped(h, t) == (t - h) % Capacity
size_approx(h, t) == (h - t) % Capacity

ProducerSample ==
  /\ pcP = "idle"
  /\ \E j \in 1..Len(tailLog) :
        LoadTail(j) /\ sizeP' = size_approx(head, tailLog[j])
  /\ UNCHANGED <<consumerVars, slots, headLog, pcP>>

ConsumerSample ==
  /\ pcC = "idle"
  /\ \E j \in 1..Len(headLog) :
        LoadHead(j) /\ sizeC' = size_approx(headLog[j], tail)
  /\ UNCHANGED <<producerVars, slots, tailLog, pcC, out>>
-----------------------------------------------------------------------------
(* ~SpscRingBuffer, after both threads have stopped: destroy_remaining.    *)

Remaining == {(tail + d) % Capacity : d \in 0..(((head - tail) % Capacity) - 1)}

Destructor ==
  /\ pcP = "idle" /\ pcC = "idle"
  /\ slots' = [i \in Indices |-> IF i \in Remaining
                                 THEN [slots[i] EXCEPT !.live = FALSE]
                                 ELSE slots[i]]
  /\ pcP' = "joined" /\ pcC' = "joined"
  /\ UNCHANGED <<headLog, tailLog, tailSeen, headSeen, tailSync, headSync,
                 out, sizeP, sizeC>>

Terminated == pcP = "joined" /\ UNCHANGED vars

Producer == PushBegin \/ PushFull \/ PushConstruct \/ PushPublish \/ ProducerSample
Consumer == PopBegin \/ PopEmpty \/ PopMove \/ PopDestroy \/ PopRelease \/ ConsumerSample

Next == Producer \/ Consumer \/ Destructor \/ Terminated

Spec == Init /\ [][Next]_vars

(* Both threads are scheduled and spin on a failed call; a store becomes   *)
(* visible to the other thread in finite time (C++ [atomics.order]), so a  *)
(* check that would succeed on the newest value is not failed forever.     *)
Fairness ==
  /\ WF_vars(PushBegin) /\ WF_vars(PushConstruct) /\ WF_vars(PushPublish)
  /\ WF_vars(PopBegin) /\ WF_vars(PopMove) /\ WF_vars(PopDestroy) /\ WF_vars(PopRelease)

FairSpec == Spec /\ Fairness
-----------------------------------------------------------------------------
Slot == [live : BOOLEAN, n : Nat]

(* Every cursor stays inside the slot array, whatever the threads do.      *)
TypeOK ==
  /\ headLog \in Seq(Indices) /\ Len(headLog) > 0
  /\ tailLog \in Seq(Indices) /\ Len(tailLog) > 0
  /\ slots \in [Indices -> Slot]
  /\ tailSeen \in 1..Len(tailLog) /\ headSeen \in 1..Len(headLog)
  /\ tailSync \in Nat /\ headSync \in Nat
  /\ pcP \in {"idle", "construct", "publish", "joined"}
  /\ pcC \in {"idle", "move", "destroy", "release", "joined"}
  /\ out \in Nat
  /\ sizeP \in Indices /\ sizeC \in Indices

(* No data race and no lifetime error: the producer constructs only in a   *)
(* slot that holds no object, after the pop that emptied it; the consumer  *)
(* moves from and destroys only a live object whose construction happens   *)
(* before the access.                                                      *)
SlotOwnership ==
  /\ pcP = "construct" => ~slots[head].live /\ slots[head].n <= tailSync
  /\ pcC \in {"move", "destroy"} => slots[tail].live /\ slots[tail].n <= headSync

(* destroy_remaining destroys exactly the objects that are alive: none is  *)
(* leaked, no raw storage is destroyed, and after it no slot is live.      *)
DestructorExact ==
  /\ pcP = "idle" /\ pcC = "idle" => Remaining = {i \in Indices : slots[i].live}
  /\ pcP = "joined" => \A i \in Indices : ~slots[i].live

(* size_approx() called by the producer never understates the occupancy    *)
(* and called by the consumer never overstates it: the benchmark's         *)
(* backpressure samples err on a known side.                               *)
SampleBounds ==
  [][ /\ ProducerSample => sizeP' >= Pushed - Popped
      /\ ConsumerSample => sizeC' <= Pushed - Popped ]_vars

(* The ring implements the bounded FIFO with one slot kept empty.  A push  *)
(* takes effect when head_ is stored, a pop when the value is moved out.   *)
First == IF pcC \in {"destroy", "release"} THEN increment(tail) ELSE tail

Pending == [i \in 1..((head - First) % Capacity) |->
              <<"producer", slots[(First + (i - 1)) % Capacity].n>>]

Fifo == INSTANCE BoundedFifo WITH
  Producers <- {"producer"}, Consumers <- {"consumer"}, Bound <- Capacity - 1,
  sent <- [p \in {"producer"} |-> Pushed],
  pending <- Pending,
  taken <- [c \in {"consumer"} |-> IF out = 0 THEN <<>> ELSE <<"producer", out>>]

ImplementsFifo == Fifo!Spec

(* Every value pushed is popped, and every push succeeds in the end,       *)
(* unless the buffer is destroyed first.                                   *)
EveryPushPopped ==
  \A k \in 1..Events : Pushed >= k ~> (out >= k \/ pcP = "joined")

EveryPushSucceeds == <>(Pushed = Events \/ pcP = "joined")
=============================================================================
