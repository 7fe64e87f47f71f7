------------------------- MODULE QueuePipelineProofs -------------------------
(***************************************************************************)
(* Proofs about QueuePipeline for any number of queues, any capacity and   *)
(* any number of events, over blocking queues and over rings.              *)
(***************************************************************************)
EXTENDS QueuePipeline, ArithmeticTheorems, SequenceTheorems

(* What thread t makes of event i: every stage up to t has worked on it,   *)
(* and nobody works on the stop event.                                     *)
Event(t, i) ==
  [seq |-> i, work |-> IF i = Events THEN <<>> ELSE [s \in 1..t |-> s], stop |-> i = Events]

(* How many events thread t has taken, and how many it has handed on.      *)
Busy(t) == pc[t] \in {"push", "waiting"}
Popped(t) == hand[t].seq + 1
Pushed(t) == IF Busy(t) THEN hand[t].seq ELSE hand[t].seq + 1

(* A thread holds the event that comes next, with its work done, and stops *)
(* after the stop event and not before.                                    *)
Place(t) ==
  /\ pc[t] = "pop" => t # Producer /\ hand[t].seq < Events
  /\ Busy(t) => t # Sink /\ hand[t].seq >= 0
  /\ pc[t] = "stopped" => hand[t].seq = Events
  /\ pc[t] = "waiting" => mode = "normal"
HandOK(t) ==
  /\ hand[t].seq \in -1..Events
  /\ hand[t] = IF hand[t].seq = -1 THEN NoEvent ELSE Event(t, hand[t].seq)
  /\ Place(t)

(* A queue holds, in order, what one of its threads has handed on and the  *)
(* other has not taken.                                                    *)
QueueOK(q) ==
  /\ Pushed(q - 1) = Popped(q) + Len(queue[q])
  /\ \A k \in 1..Len(queue[q]) : queue[q][k] = Event(q - 1, hand[q].seq + k)

(* Each push, pop and failed push of a ring has been sampled, or will be.  *)
Owed(t, q) == IF due[t] = Sample(q) THEN 1 ELSE 0
Sampled(q) ==
  stats[q].samples + Owed(q - 1, q) + Owed(q, q)
    = Pushed(q - 1) + Popped(q) + (IF mode = "spsc" THEN stats[q].full ELSE 0)

(* A thread only samples the queues it uses, and races for the maximum     *)
(* with an occupancy above the one it has read.                            *)
DueOK(t) ==
  /\ due[t] # Nothing => due[t].queue \in {t, t + 1}
  /\ due[t].step = "cas" =>
       /\ due[t].current < due[t].occupancy /\ due[t].occupancy <= peak[due[t].queue]
       /\ due[t].current <= stats[due[t].queue].max

(* The largest occupancy is stored, or a thread is still about to store    *)
(* it; and the samples of a queue are never above it.                      *)
Racing(t, q) == due[t].step = "cas" /\ due[t].queue = q /\ due[t].occupancy = peak[q]
MaxKept(q) ==
  /\ stats[q].max <= peak[q]
  /\ stats[q].max = peak[q] \/ Racing(q - 1, q) \/ Racing(q, q)
SumBelow(q) == stats[q].sum <= stats[q].samples * peak[q]

(* The sink has timed every event it has taken, except the stop event.     *)
Timed ==
  /\ Len(latencies) = IF hand[Sink].seq = Events THEN Events ELSE hand[Sink].seq + 1
  /\ \A k \in 1..Len(latencies) : latencies[k] = Event(N, k - 1)

(* main has a result only after every thread has gone, and from then on    *)
(* nothing changes.                                                        *)
Reported == result # NoResult => Joined /\ result = finalize_result

(* Together: what every state of either pipeline satisfies and every step  *)
(* preserves.                                                              *)
IndInv ==
  /\ TypeOK
  /\ \A t \in Threads : HandOK(t) /\ DueOK(t)
  /\ \A q \in Queues : QueueOK(q) /\ Sampled(q) /\ MaxKept(q) /\ SumBelow(q)
  /\ Timed
  /\ Reported
-----------------------------------------------------------------------------
(* Thread t uses the queues t and t + 1.                                   *)
LEMMA Numbers ==
  /\ N \in Nat /\ N >= 1 /\ Capacity \in Nat /\ Capacity >= 1 /\ Events \in Nat /\ MaxSpins \in Nat
  /\ Producer \in Threads /\ Sink \in Threads /\ Producer # Sink /\ Sink \in Queues
  /\ Threads \subseteq Nat /\ Queues \subseteq Nat
  /\ \A q \in Queues : q \in Threads /\ q - 1 \in Threads /\ q # Producer /\ q - 1 # Sink
                       /\ (q - 1) + 1 = q /\ q >= 1
  /\ \A t \in Threads : /\ t # Sink => t + 1 \in Queues /\ (t + 1) - 1 = t
                        /\ t # Producer => t \in Queues
BY PipelineAssumption DEF Producer, Sink, Threads, Queues

(* What is left of a call of observe is one of three things.               *)
LEMMA DueCases ==
  ASSUME NEW d \in Dues
  PROVE  \/ d = Nothing /\ d.step = "none" /\ \A q : d # Sample(q)
         \/ /\ d.step = "sample" /\ d.queue \in Queues /\ d = Sample(d.queue)
            /\ d # Nothing /\ \A q : d = Sample(q) => q = d.queue
         \/ /\ d.step = "cas" /\ d.queue \in Queues /\ d # Nothing
            /\ d.occupancy \in 0..Capacity /\ d.current \in 0..Capacity
            /\ \A q : d # Sample(q)
<1>1. ASSUME NEW q PROVE Sample(q).step = "sample" /\ Sample(q).queue = q
  BY DEF Sample
<1>2. Nothing.step = "none"
  BY DEF Nothing
<1>3. CASE d = Nothing
  BY <1>1, <1>2, <1>3
<1>4. CASE d \in {Sample(q) : q \in Queues}
  BY <1>1, <1>2, <1>4
<1>5. CASE d \in [step : {"cas"}, queue : Queues, occupancy : 0..Capacity, current : 0..Capacity]
  BY <1>1, <1>2, <1>5
<1> QED BY <1>3, <1>4, <1>5 DEF Dues

(* Nothing and Sample(q) are dues, and different ones.                     *)
LEMMA DueKinds ==
  /\ Nothing \in Dues /\ Nothing.step = "none"
  /\ \A q \in Queues : /\ Sample(q) \in Dues /\ Sample(q) # Nothing
                       /\ Sample(q).step = "sample" /\ Sample(q).queue = q
  /\ \A q, r \in Queues : Sample(q) = Sample(r) => q = r
<1>1. \A q \in Queues : Sample(q).step = "sample" /\ Sample(q).queue = q
  BY DEF Sample
<1>2. Nothing.step = "none"
  BY DEF Nothing
<1>3. Nothing \in Dues /\ \A q \in Queues : Sample(q) \in Dues
  BY DEF Dues
<1> QED BY <1>1, <1>2, <1>3

(* An event with other work.                                               *)
LEMMA Reworked ==
  ASSUME NEW i, NEW v, NEW a, NEW b, NEW e, e = [seq |-> i, work |-> v, stop |-> b]
  PROVE  [e EXCEPT !.work = a] = [seq |-> i, work |-> a, stop |-> b]
OBVIOUS

(* The events are records, and a stage's work makes the next one.          *)
LEMMA EventFacts ==
  ASSUME NEW t \in Nat, NEW i \in Int
  PROVE  /\ Event(t, i) \in EventRecord
         /\ Event(t, i).seq = i /\ Event(t, i).stop = (i = Events)
         /\ i # Events => do_stage_work(Event(t, i), t + 1) = Event(t + 1, i)
         /\ i = Events => Event(t, i) = Event(t + 1, i)
         /\ NewEvent(i) = Event(0, i)
         /\ NoEvent \in EventRecord /\ NoEvent.seq = -1
<1> DEFINE w(n) == [s \in 1..n |-> s]
<1>1. ASSUME NEW n \in Nat PROVE w(n) \in Seq(Nat) /\ Len(w(n)) = n
  <2>1. w(n) \in [1..n -> Nat]
    OBVIOUS
  <2> QED BY <2>1, IsASeq
<1>2. <<>> \in Seq(Nat)
  OBVIOUS
<1>3. NoEvent \in EventRecord /\ NoEvent.seq = -1
  BY <1>2 DEF NoEvent, EventRecord
<1>4. Event(t, i) \in EventRecord /\ Event(t, i).seq = i /\ Event(t, i).stop = (i = Events)
  BY <1>1, <1>2 DEF Event, EventRecord
<1>5. i = Events => Event(t, i) = Event(t + 1, i)
  BY DEF Event
<1>6. NewEvent(i) = Event(0, i)
  <2>1. w(0) = <<>>
    <3>1. w(0) \in Seq(Nat) /\ Len(w(0)) = 0
      BY <1>1
    <3> HIDE DEF w
    <3> QED BY <3>1, EmptySeq
  <2> QED BY <2>1 DEF NewEvent, Event
<1>7. Append(w(t), t + 1) = w(t + 1)
  <2>1. Append(w(t), t + 1) \in Seq(Nat) /\ Len(Append(w(t), t + 1)) = t + 1
        /\ \A k \in 1..(t + 1) : Append(w(t), t + 1)[k] = k
    <3> DEFINE v == w(t)
    <3>1. v \in Seq(Nat) /\ Len(v) = t /\ \A k \in 1..t : v[k] = k
      BY <1>1
    <3> HIDE DEF v
    <3>2. /\ Append(v, t + 1) \in Seq(Nat) /\ Len(Append(v, t + 1)) = t + 1
          /\ \A k \in 1..Len(v) : Append(v, t + 1)[k] = v[k]
          /\ Append(v, t + 1)[Len(v) + 1] = t + 1
      BY <3>1, t + 1 \in Nat, AppendProperties
    <3> QED BY <3>1, <3>2 DEF v
  <2>2. w(t + 1) \in Seq(Nat) /\ Len(w(t + 1)) = t + 1 /\ \A k \in 1..(t + 1) : w(t + 1)[k] = k
    BY <1>1, t + 1 \in Nat
  <2> DEFINE a == Append(w(t), t + 1)
             b == w(t + 1)
  <2>3. \A k \in 1..(t + 1) : a[k] = b[k]
    BY <2>1, <2>2
  <2>4. a \in Seq(Nat) /\ b \in Seq(Nat) /\ Len(a) = t + 1 /\ Len(b) = t + 1
    BY <2>1, <2>2
  <2> HIDE DEF a, b, w
  <2>5. a = b
    BY <2>3, <2>4, SeqEqual
  <2> QED BY <2>5 DEF a, b
<1>8. i # Events => do_stage_work(Event(t, i), t + 1) = Event(t + 1, i)
  <2> HAVE i # Events
  <2>1. PICK b : b = FALSE
    OBVIOUS
  <2> DEFINE e == Event(t, i)
             v == w(t)
             a == Append(v, t + 1)
  <2>2. e = [seq |-> i, work |-> v, stop |-> b] /\ Event(t + 1, i) = [seq |-> i, work |-> w(t + 1), stop |-> b]
    BY <2>1 DEF Event
  <2>3. do_stage_work(e, t + 1) = [e EXCEPT !.work = Append(e.work, t + 1)]
    BY DEF do_stage_work
  <2> HIDE DEF e, v, w
  <2>4. e.work = v
    BY <2>2
  <2>5. do_stage_work(e, t + 1) = [e EXCEPT !.work = a]
    BY <2>3, <2>4
  <2>6. [e EXCEPT !.work = a] = [seq |-> i, work |-> a, stop |-> b]
    <3> HIDE DEF a
    <3> QED BY <2>2, Reworked
  <2>7. a = w(t + 1)
    BY <1>7 DEF v
  <2>8. do_stage_work(e, t + 1) = Event(t + 1, i)
    <3> HIDE DEF a
    <3> QED BY <2>2, <2>5, <2>6, <2>7
  <2> QED BY <2>8 DEF e
<1> QED BY <1>3, <1>4, <1>5, <1>6, <1>8
-----------------------------------------------------------------------------
(* What a step leaves alone keeps its part of the invariant.               *)
LEMMA HandKept ==
  ASSUME NEW t, HandOK(t), pc'[t] = pc[t], hand'[t] = hand[t], mode' = mode
  PROVE  HandOK(t)'
BY DEF HandOK, Place, Busy

LEMMA QueueKept ==
  ASSUME NEW q, QueueOK(q), Pushed(q - 1)' = Pushed(q - 1), hand'[q].seq = hand[q].seq,
         queue'[q] = queue[q]
  PROVE  QueueOK(q)'
BY DEF QueueOK, Popped

LEMMA SampledKept ==
  ASSUME NEW q, Sampled(q), Pushed(q - 1)' = Pushed(q - 1), Popped(q)' = Popped(q),
         Owed(q - 1, q)' = Owed(q - 1, q), Owed(q, q)' = Owed(q, q),
         stats'[q] = stats[q], mode' = mode
  PROVE  Sampled(q)'
BY DEF Sampled

LEMMA DueKept ==
  ASSUME NEW t, DueOK(t), due[t] \in Dues, due'[t] = due[t],
         \A q \in Queues : /\ stats[q].max \in Int /\ stats'[q].max \in Int
                           /\ stats[q].max <= stats'[q].max
                           /\ peak[q] \in Int /\ peak'[q] \in Int /\ peak[q] <= peak'[q]
  PROVE  DueOK(t)'
<1>1. CASE due[t].step # "cas"
  BY <1>1 DEF DueOK
<1>2. CASE due[t].step = "cas"
  <2>1. due[t].queue \in Queues /\ due[t].current \in Int /\ due[t].occupancy \in Int
    BY <1>2, DueCases
  <2> QED BY <1>2, <2>1 DEF DueOK
<1> QED BY <1>1, <1>2

LEMMA MaxUnmoved ==
  ASSUME NEW q, MaxKept(q), Racing(q - 1, q)' = Racing(q - 1, q), Racing(q, q)' = Racing(q, q),
         stats'[q].max = stats[q].max, peak'[q] = peak[q]
  PROVE  MaxKept(q)'
BY DEF MaxKept

LEMMA SumUnmoved ==
  ASSUME NEW q, SumBelow(q), stats'[q].sum = stats[q].sum, stats'[q].samples = stats[q].samples,
         peak'[q] = peak[q]
  PROVE  SumBelow(q)'
BY DEF SumBelow

LEMMA TimedKept ==
  ASSUME Timed, latencies' = latencies, hand'[Sink].seq = hand[Sink].seq
  PROVE  Timed'
BY DEF Timed

(* A thread that is still running has not been joined.                     *)
LEMMA NotReported ==
  ASSUME Reported, result' = result, NEW t \in Threads, pc[t] # "stopped" \/ due[t] # Nothing
  PROVE  Reported'
BY DEF Reported, Joined
-----------------------------------------------------------------------------
(* Before the first push every queue is empty and nothing is sampled.      *)
LEMMA IndInvInit == Init => IndInv
<1> SUFFICES ASSUME Init PROVE IndInv
  OBVIOUS
<1> USE Numbers
<1>1. /\ pc = [t \in Threads |-> IF t = Producer THEN "push" ELSE "pop"]
      /\ hand = [t \in Threads |-> IF t = Producer THEN NewEvent(0) ELSE NoEvent]
      /\ queue = [q \in Queues |-> <<>>] /\ due = [t \in Threads |-> Nothing]
      /\ lagPush = [q \in Queues |-> 0] /\ lagPop = [q \in Queues |-> 0]
      /\ stats = [q \in Queues |-> NewStats] /\ peak = [q \in Queues |-> 0]
      /\ latencies = <<>> /\ result = NoResult /\ mode \in {"normal", "spsc"}
  BY DEF Init
<1>2. /\ NewEvent(0) = Event(0, 0) /\ Event(0, 0) \in EventRecord /\ Event(0, 0).seq = 0
      /\ NoEvent \in EventRecord /\ NoEvent.seq = -1
  BY EventFacts
<1>3. NewStats \in QueueStats /\ NewStats.samples = 0 /\ NewStats.sum = 0 /\ NewStats.max = 0
      /\ NewStats.full = 0
  BY DEF NewStats, QueueStats
<1>4. <<>> \in Seq(EventRecord) /\ Len(<<>>) = 0
  OBVIOUS
<1>5. TypeOK
  <2>1. pc \in [Threads -> {"push", "waiting", "pop", "stopped"}]
    BY <1>1
  <2>2. hand \in [Threads -> EventRecord]
    BY <1>1, <1>2
  <2>3. queue \in [Queues -> Seq(EventRecord)] /\ latencies \in Seq(EventRecord)
    BY <1>1, <1>4
  <2>4. due \in [Threads -> Dues]
    BY <1>1, DueKinds
  <2>5. /\ lagPush \in [Queues -> Nat] /\ lagPop \in [Queues -> Nat]
        /\ stats \in [Queues -> QueueStats] /\ peak \in [Queues -> 0..Capacity]
    BY <1>1, <1>3
  <2>6. \A q \in Queues :
          /\ lagPush[q] <= Len(queue[q]) /\ lagPop[q] <= Capacity - Len(queue[q])
          /\ mode = "normal" => lagPush[q] = 0 /\ lagPop[q] = 0
    BY <1>1, <1>4
  <2> QED BY <1>1, <2>1, <2>2, <2>3, <2>4, <2>5, <2>6 DEF TypeOK
<1>6. ASSUME NEW t \in Threads PROVE HandOK(t) /\ DueOK(t)
  <2>1. DueOK(t)
    BY <1>1, DueKinds DEF DueOK
  <2>2. CASE t = Producer
    <3>1. pc[t] = "push" /\ hand[t] = Event(t, 0) /\ hand[t].seq = 0
      BY <1>1, <1>2, <2>2 DEF Producer
    <3> QED BY <2>1, <2>2, <3>1 DEF HandOK, Place, Busy
  <2>3. CASE t # Producer
    <3>1. pc[t] = "pop" /\ hand[t] = NoEvent /\ hand[t].seq = -1
      BY <1>1, <1>2, <2>3
    <3> QED BY <2>1, <2>3, <3>1 DEF HandOK, Place, Busy
  <2> QED BY <2>2, <2>3
<1>7. ASSUME NEW q \in Queues PROVE QueueOK(q) /\ Sampled(q) /\ MaxKept(q) /\ SumBelow(q)
  <2>1. hand[q].seq = -1 /\ Len(queue[q]) = 0 /\ Popped(q) = 0
    BY <1>1, <1>2, <1>4 DEF Popped
  <2>2. Pushed(q - 1) = 0
    <3>1. CASE q - 1 = Producer
      BY <1>1, <1>2, <3>1 DEF Pushed, Busy
    <3>2. CASE q - 1 # Producer
      BY <1>1, <1>2, <3>2 DEF Pushed, Busy
    <3> QED BY <3>1, <3>2
  <2>3. QueueOK(q)
    BY <2>1, <2>2 DEF QueueOK
  <2>4. Owed(q - 1, q) = 0 /\ Owed(q, q) = 0
    BY <1>1, DueKinds DEF Owed
  <2>5. stats[q].samples = 0 /\ stats[q].full = 0 /\ stats[q].max = 0 /\ stats[q].sum = 0 /\ peak[q] = 0
    BY <1>1, <1>3
  <2>6. Sampled(q)
    BY <2>1, <2>2, <2>4, <2>5 DEF Sampled
  <2>7. MaxKept(q) /\ SumBelow(q)
    BY <2>5 DEF MaxKept, SumBelow
  <2> QED BY <2>3, <2>6, <2>7
<1>8. Timed
  BY <1>1, <1>2, <1>4 DEF Timed
<1>9. Reported
  BY <1>1 DEF Reported
<1> QED BY <1>5, <1>6, <1>7, <1>8, <1>9 DEF IndInv
-----------------------------------------------------------------------------
(* The parts of the type invariant, and of the dues that are neither a     *)
(* sample nor a race.                                                      *)
LEMMA Types ==
  ASSUME TypeOK
  PROVE  /\ \A t \in Threads : hand[t] \in EventRecord /\ due[t] \in Dues /\ hand[t].seq \in Int
         /\ \A q \in Queues :
              /\ queue[q] \in Seq(EventRecord) /\ Len(queue[q]) \in Nat
              /\ lagPush[q] \in Nat /\ lagPop[q] \in Nat
              /\ stats[q] \in QueueStats /\ peak[q] \in 0..Capacity
              /\ stats[q].full \in Nat /\ stats[q].samples \in Nat /\ stats[q].sum \in Nat
              /\ stats[q].max \in 0..Capacity
<1>1. \A t \in Threads : hand[t] \in EventRecord /\ due[t] \in Dues
  BY DEF TypeOK
<1>2. \A t \in Threads : hand[t].seq \in Int
  BY <1>1 DEF EventRecord
<1>3. \A q \in Queues :
        /\ queue[q] \in Seq(EventRecord) /\ lagPush[q] \in Nat /\ lagPop[q] \in Nat
        /\ stats[q] \in QueueStats /\ peak[q] \in 0..Capacity
  BY DEF TypeOK
<1>4. \A q \in Queues : Len(queue[q]) \in Nat
  BY <1>3
<1>5. \A q \in Queues : /\ stats[q].full \in Nat /\ stats[q].samples \in Nat
                        /\ stats[q].sum \in Nat /\ stats[q].max \in 0..Capacity
  BY <1>3 DEF QueueStats
<1> QED BY <1>1, <1>2, <1>3, <1>4, <1>5

LEMMA OwedNothing ==
  ASSUME NEW t, due[t] = Nothing \/ due[t].step = "cas"
  PROVE  \A q : Owed(t, q) = 0
BY DEF Owed, Nothing, Sample

LEMMA RacingNothing ==
  ASSUME NEW t, due[t].step # "cas"
  PROVE  \A q : Racing(t, q) = FALSE
BY DEF Racing

(* What a thread that is left alone has to do is left alone.               *)
LEMMA ThreadKept ==
  ASSUME NEW t, hand'[t] = hand[t], pc'[t] = pc[t], due'[t] = due[t]
  PROVE  /\ Pushed(t)' = Pushed(t) /\ Popped(t)' = Popped(t)
         /\ \A q : Owed(t, q)' = Owed(t, q)
         /\ \A q : peak'[q] = peak[q] => Racing(t, q)' = Racing(t, q)
BY DEF Pushed, Popped, Busy, Owed, Racing
-----------------------------------------------------------------------------
(* push_wait goes to sleep.                                                *)
LEMMA PushBlockKeeps ==
  ASSUME IndInv, NEW t \in Threads, t # Sink, PushBlock(t)
  PROVE  IndInv'
<1>1. /\ mode = "normal" /\ pc[t] = "push" /\ due[t] = Nothing
      /\ pc' = [pc EXCEPT ![t] = "waiting"]
      /\ mode' = mode /\ hand' = hand /\ queue' = queue /\ lagPush' = lagPush /\ lagPop' = lagPop
      /\ due' = due /\ stats' = stats /\ latencies' = latencies /\ result' = result /\ peak' = peak
  BY DEF PushBlock
<1>2. TypeOK /\ pc \in [Threads -> {"push", "waiting", "pop", "stopped"}]
  BY DEF IndInv, TypeOK
<1>3. pc'[t] = "waiting" /\ \A u \in Threads : u # t => pc'[u] = pc[u]
  BY <1>1, <1>2
<1>4. TypeOK'
  <2>1. pc' \in [Threads -> {"push", "waiting", "pop", "stopped"}]
    BY <1>1, <1>2
  <2> QED BY <1>1, <1>2, <2>1 DEF TypeOK
<1>5. ASSUME NEW u \in Threads PROVE HandOK(u)'
  <2>1. HandOK(u)
    BY DEF IndInv
  <2>2. CASE u = t
    BY <1>1, <1>3, <2>1, <2>2 DEF HandOK, Place, Busy
  <2>3. CASE u # t
    BY <1>1, <1>3, <2>1, <2>3, HandKept
  <2> QED BY <2>2, <2>3
<1>6. ASSUME NEW u \in Threads
      PROVE  /\ Pushed(u)' = Pushed(u) /\ Popped(u)' = Popped(u)
             /\ \A q : Owed(u, q)' = Owed(u, q) /\ Racing(u, q)' = Racing(u, q)
  <2>1. Pushed(u)' = Pushed(u) /\ Popped(u)' = Popped(u)
    BY <1>1, <1>3 DEF Pushed, Popped, Busy
  <2> QED BY <1>1, <2>1 DEF Owed, Racing
<1>7. ASSUME NEW u \in Threads PROVE DueOK(u)'
  <2>1. DueOK(u)
    BY DEF IndInv
  <2> QED BY <1>1, <2>1 DEF DueOK
<1>8. ASSUME NEW q \in Queues PROVE (QueueOK(q) /\ Sampled(q) /\ MaxKept(q) /\ SumBelow(q))'
  <2>1. q \in Threads /\ q - 1 \in Threads
    BY Numbers
  <2>2. QueueOK(q) /\ Sampled(q) /\ MaxKept(q) /\ SumBelow(q)
    BY DEF IndInv
  <2>3. QueueOK(q)'
    BY <1>1, <1>6, <2>1, <2>2, QueueKept
  <2>4. Sampled(q)'
    BY <1>1, <1>6, <2>1, <2>2, SampledKept
  <2>5. MaxKept(q)'
    BY <1>1, <1>6, <2>1, <2>2, MaxUnmoved
  <2>6. SumBelow(q)'
    BY <1>1, <2>2, SumUnmoved
  <2> QED BY <2>3, <2>4, <2>5, <2>6
<1>9. Timed'
  BY <1>1, TimedKept DEF IndInv
<1>10. Reported'
  BY <1>1, NotReported DEF IndInv
<1> QED BY <1>4, <1>5, <1>7, <1>8, <1>9, <1>10 DEF IndInv

(* A thread that begins a call of observe owes one sample, and races for   *)
(* nothing.                                                                *)
LEMMA Begins ==
  ASSUME NEW t, due[t] = Nothing, NEW q \in Queues, due'[t] = Sample(q)
  PROVE  /\ Owed(t, q) = 0 /\ Owed(t, q)' = 1
         /\ \A r \in Queues : r # q => Owed(t, r) = 0 /\ Owed(t, r)' = 0
         /\ \A r : Racing(t, r) = FALSE /\ Racing(t, r)' = FALSE
<1>1. \A r : Owed(t, r) = 0
  BY OwedNothing
<1>2. Owed(t, q)' = 1
  BY DEF Owed
<1>3. \A r \in Queues : r # q => Owed(t, r)' = 0
  BY DueKinds DEF Owed
<1>4. due[t].step = "none" /\ due'[t].step = "sample"
  BY DueKinds
<1>5. \A r : Racing(t, r) = FALSE /\ Racing(t, r)' = FALSE
  BY <1>4 DEF Racing
<1> QED BY <1>1, <1>2, <1>3, <1>5

(* A failed try_push is counted, and owes a sample.                        *)
LEMMA PushFullKeeps ==
  ASSUME IndInv, NEW t \in Threads, t # Sink, PushFull(t)
  PROVE  IndInv'
<1> DEFINE q == t + 1
<1>1. /\ mode = "spsc" /\ pc[t] = "push" /\ due[t] = Nothing
      /\ stats' = [stats EXCEPT ![q].full = @ + 1]
      /\ due' = [due EXCEPT ![t] = Sample(q)]
      /\ mode' = mode /\ pc' = pc /\ hand' = hand /\ queue' = queue /\ lagPush' = lagPush
      /\ lagPop' = lagPop /\ latencies' = latencies /\ result' = result /\ peak' = peak
  BY DEF PushFull
<1>q. q \in Queues /\ q - 1 = t /\ q # t /\ q = t + 1
  BY Numbers
<1> HIDE DEF q
<1>2. TypeOK /\ due \in [Threads -> Dues] /\ stats \in [Queues -> QueueStats]
  BY DEF IndInv, TypeOK
<1>3. due'[t] = Sample(q) /\ \A u \in Threads : u # t => due'[u] = due[u]
  BY <1>1, <1>2
<1>4. /\ stats' \in [Queues -> QueueStats]
      /\ stats'[q].full = stats[q].full + 1
      /\ \A r \in Queues : /\ r # q => stats'[r] = stats[r]
                           /\ stats'[r].samples = stats[r].samples /\ stats'[r].sum = stats[r].sum
                           /\ stats'[r].max = stats[r].max
  BY <1>1, <1>2, <1>q DEF QueueStats
<1>5. TypeOK'
  <2>1. due' \in [Threads -> Dues]
    BY <1>1, <1>2, <1>q, DueKinds
  <2> QED BY <1>1, <1>2, <1>4, <2>1 DEF TypeOK
<1>6. ASSUME NEW u \in Threads PROVE HandOK(u)' /\ DueOK(u)'
  <2>1. HandOK(u) /\ DueOK(u)
    BY DEF IndInv
  <2>2. HandOK(u)'
    BY <1>1, <2>1, HandKept
  <2>3. CASE u = t
    <3>1. DueOK(u)'
      BY <1>3, <1>q, <2>3, DueKinds DEF DueOK
    <3> QED BY <2>2, <3>1
  <2>4. CASE u # t
    <3>1. due'[u] = due[u] /\ due[u] \in Dues
      BY <1>2, <1>3, <2>4
    <3>a. \A r \in Queues : stats[r].max \in Int /\ peak[r] \in Int
      BY <1>2, Types
    <3>2. \A r \in Queues : /\ stats[r].max \in Int /\ stats'[r].max \in Int
                            /\ stats[r].max <= stats'[r].max
                            /\ peak[r] \in Int /\ peak'[r] \in Int /\ peak[r] <= peak'[r]
      BY <1>1, <1>4, <3>a
    <3>3. DueOK(u)'
      BY <2>1, <3>1, <3>2, DueKept
    <3> QED BY <2>2, <3>3
  <2> QED BY <2>3, <2>4
<1>7. \A u \in Threads : Pushed(u)' = Pushed(u) /\ Popped(u)' = Popped(u)
  BY <1>1 DEF Pushed, Popped, Busy
<1>8. /\ Owed(t, q) = 0 /\ Owed(t, q)' = 1
      /\ \A r \in Queues : r # q => Owed(t, r)' = Owed(t, r)
      /\ \A r \in Queues : Racing(t, r)' = Racing(t, r)
  BY <1>1, <1>3, <1>q, Begins
<1>9. ASSUME NEW u \in Threads, u # t, NEW r
      PROVE  Owed(u, r)' = Owed(u, r) /\ Racing(u, r)' = Racing(u, r)
  BY <1>1, <1>3, <1>9, ThreadKept
<1>10. ASSUME NEW r \in Queues
       PROVE  (QueueOK(r) /\ Sampled(r) /\ MaxKept(r) /\ SumBelow(r))'
  <2>1. r \in Threads /\ r - 1 \in Threads
    BY Numbers
  <2>2. QueueOK(r) /\ Sampled(r) /\ MaxKept(r) /\ SumBelow(r)
    BY DEF IndInv
  <2>3. QueueOK(r)'
    BY <1>1, <1>7, <2>1, <2>2, QueueKept
  <2>4. Sampled(r)'
    <3>1. CASE r # q
      <4>1. Owed(r - 1, r)' = Owed(r - 1, r) /\ Owed(r, r)' = Owed(r, r)
        BY <1>8, <1>9, <2>1, <3>1
      <4>2. Pushed(r - 1)' = Pushed(r - 1) /\ Popped(r)' = Popped(r) /\ stats'[r] = stats[r]
        BY <1>4, <1>7, <2>1, <3>1
      <4> QED BY <1>1, <2>2, <4>1, <4>2, SampledKept
    <3>2. CASE r = q
      <4>1. Owed(q, q)' = Owed(q, q) /\ Owed(q, q) \in {0, 1}
        BY <1>9, <1>q, <2>1, <3>2 DEF Owed
      <4>2. Pushed(t)' = Pushed(t) /\ Popped(q)' = Popped(q)
        BY <1>7, <2>1, <3>2
      <4>3. stats[q].samples + Owed(t, q) + Owed(q, q) = Pushed(t) + Popped(q) + stats[q].full
        BY <1>1, <1>q, <2>2, <3>2 DEF Sampled
      <4>4. stats[q].samples \in Int /\ stats[q].full \in Int /\ hand[t].seq \in Int /\ hand[q].seq \in Int
        BY <1>2, <2>1, <3>2, Types
      <4>5. Pushed(t) \in Int /\ Popped(q) \in Int
        BY <4>4 DEF Pushed, Popped
      <4>6. stats[q].samples + 1 + Owed(q, q) = Pushed(t) + Popped(q) + (stats[q].full + 1)
        BY <1>8, <4>1, <4>3, <4>4, <4>5
      <4>7. stats'[q].samples + Owed(t, q)' + Owed(q, q)' = Pushed(t)' + Popped(q)' + stats'[q].full
        BY <1>4, <1>8, <1>q, <4>1, <4>2, <4>6
      <4> QED BY <1>1, <1>q, <3>2, <4>7 DEF Sampled
    <3> QED BY <3>1, <3>2
  <2>6. Racing(r - 1, r)' = Racing(r - 1, r) /\ Racing(r, r)' = Racing(r, r)
    BY <1>8, <1>9, <2>1
  <2>7. MaxKept(r)'
    BY <1>1, <1>4, <2>2, <2>6, MaxUnmoved
  <2>8. SumBelow(r)'
    BY <1>1, <1>4, <2>2, SumUnmoved
  <2> QED BY <2>3, <2>4, <2>7, <2>8
<1>11. Timed'
  BY <1>1, TimedKept DEF IndInv
<1>12. Reported'
  BY <1>1, NotReported DEF IndInv
<1> QED BY <1>5, <1>6, <1>10, <1>11, <1>12 DEF IndInv

(* The thread that pushes has handed one event more on, and goes to its    *)
(* next event, to its queue or home.                                       *)
LEMMA PushHand ==
  ASSUME IndInv, NEW t \in Threads, t # Sink, Push(t)
  PROVE  /\ hand' \in [Threads -> EventRecord]
         /\ pc' \in [Threads -> {"push", "waiting", "pop", "stopped"}]
         /\ hand[t] = Event(t, hand[t].seq) /\ hand[t].seq = Pushed(t)
         /\ Pushed(t)' = Pushed(t) + 1
         /\ t # Producer => hand'[t] = hand[t]
         /\ \A u \in Threads : u # t => hand'[u] = hand[u] /\ pc'[u] = pc[u]
         /\ HandOK(t)'
<1> DEFINE i == hand[t].seq
<1>1. /\ pc[t] \in {"push", "waiting"} /\ mode' = mode
      /\ hand' = IF t = Producer /\ ~hand[t].stop
                 THEN [hand EXCEPT ![t] = NewEvent(hand[t].seq + 1)] ELSE hand
      /\ pc' = [pc EXCEPT ![t] = AfterPush(t)]
  BY DEF Push
<1>2. /\ TypeOK /\ hand \in [Threads -> EventRecord]
      /\ pc \in [Threads -> {"push", "waiting", "pop", "stopped"}]
  BY DEF IndInv, TypeOK
<1>3. HandOK(t)
  BY DEF IndInv
<1>4. i \in 0..Events /\ hand[t] = Event(t, i) /\ Pushed(t) = i /\ i + 1 \in Int /\ t \in Nat /\ i \in Int
  <2>1. Busy(t)
    BY <1>1 DEF Busy
  <2>2. i \in -1..Events /\ i >= 0
    BY <1>3, <2>1 DEF HandOK, Place
  <2>3. hand[t] = Event(t, i)
    BY <1>3, <2>2 DEF HandOK
  <2> QED BY <2>1, <2>2, <2>3, Numbers DEF Pushed
<1>5. /\ hand[t].stop = (i = Events)
      /\ NewEvent(i + 1) = Event(0, i + 1) /\ Event(0, i + 1) \in EventRecord
      /\ Event(0, i + 1).seq = i + 1
  <2>1. Event(t, i).stop = (i = Events)
    BY <1>4, EventFacts
  <2>2. NewEvent(i + 1) = Event(0, i + 1) /\ Event(0, i + 1) \in EventRecord
        /\ Event(0, i + 1).seq = i + 1
    BY <1>4, EventFacts
  <2> QED BY <1>4, <2>1, <2>2
<1>6. AfterPush(t) \in {"push", "pop", "stopped"}
  BY DEF AfterPush
<1>7. /\ hand' \in [Threads -> EventRecord]
      /\ pc' \in [Threads -> {"push", "waiting", "pop", "stopped"}]
      /\ t # Producer => hand'[t] = hand[t]
      /\ \A u \in Threads : u # t => hand'[u] = hand[u] /\ pc'[u] = pc[u]
      /\ pc'[t] = AfterPush(t)
  BY <1>1, <1>2, <1>5, <1>6
<1>8. CASE i = Events
  <2>1. hand'[t] = Event(t, i) /\ hand'[t].seq = i /\ pc'[t] = "stopped"
    BY <1>1, <1>4, <1>5, <1>7, <1>8 DEF AfterPush
  <2>2. Pushed(t)' = i + 1
    BY <2>1 DEF Pushed, Busy
  <2>3. HandOK(t)'
    BY <1>4, <1>8, <2>1 DEF HandOK, Place, Busy
  <2> QED BY <1>4, <1>7, <2>2, <2>3
<1>9. CASE i # Events /\ t = Producer
  <2>1. hand'[t] = Event(t, i + 1) /\ hand'[t].seq = i + 1 /\ pc'[t] = "push"
    BY <1>1, <1>2, <1>5, <1>7, <1>9 DEF AfterPush, Producer
  <2>2. Pushed(t)' = i + 1
    BY <2>1 DEF Pushed, Busy
  <2>3. i + 1 \in 0..Events /\ Producer # Sink
    BY <1>4, <1>9, Numbers
  <2>4. HandOK(t)'
    BY <1>9, <2>1, <2>3 DEF HandOK, Place, Busy
  <2> QED BY <1>4, <1>7, <2>2, <2>4
<1>10. CASE i # Events /\ t # Producer
  <2>1. hand'[t] = Event(t, i) /\ hand'[t].seq = i /\ pc'[t] = "pop"
    BY <1>4, <1>5, <1>7, <1>10 DEF AfterPush
  <2>2. Pushed(t)' = i + 1
    BY <2>1 DEF Pushed, Busy
  <2>3. HandOK(t)'
    BY <1>4, <1>10, <2>1, Numbers DEF HandOK, Place, Busy
  <2> QED BY <1>4, <1>7, <2>2, <2>3
<1> QED BY <1>8, <1>9, <1>10

(* push_wait and try_push put the event behind the ones in the queue.      *)
LEMMA PushKeeps ==
  ASSUME IndInv, NEW t \in Threads, t # Sink, Push(t)
  PROVE  IndInv'
<1> DEFINE q == t + 1
<1>1. /\ pc[t] \in {"push", "waiting"} /\ due[t] = Nothing
      /\ queue' = [queue EXCEPT ![q] = Append(queue[q], hand[t])]
      /\ lagPush' = [lagPush EXCEPT ![q] = Unseen(lagPush[q])]
      /\ stats' = IF pc[t] = "waiting" THEN [stats EXCEPT ![q].full = @ + 1] ELSE stats
      /\ due' = [due EXCEPT ![t] = Sample(q)]
      /\ mode' = mode /\ latencies' = latencies /\ result' = result /\ peak' = peak
  BY DEF Push
<1>l. PICK lag \in 0..lagPop[q] : HasRoom(q, lag) /\ lagPop' = [lagPop EXCEPT ![q] = lag]
  BY DEF Push
<1>q. q \in Queues /\ q - 1 = t /\ q # t /\ q = t + 1 /\ q \in Threads
  BY Numbers
<1> HIDE DEF q
<1>2. /\ TypeOK /\ due \in [Threads -> Dues] /\ stats \in [Queues -> QueueStats]
      /\ queue \in [Queues -> Seq(EventRecord)]
      /\ lagPush \in [Queues -> Nat] /\ lagPop \in [Queues -> Nat]
  BY DEF IndInv, TypeOK
<1>h. /\ hand' \in [Threads -> EventRecord]
      /\ pc' \in [Threads -> {"push", "waiting", "pop", "stopped"}]
      /\ hand[t] = Event(t, hand[t].seq) /\ hand[t].seq = Pushed(t)
      /\ Pushed(t)' = Pushed(t) + 1
      /\ t # Producer => hand'[t] = hand[t]
      /\ \A u \in Threads : u # t => hand'[u] = hand[u] /\ pc'[u] = pc[u]
      /\ HandOK(t)'
  BY PushHand
<1>3. due'[t] = Sample(q) /\ \A u \in Threads : u # t => due'[u] = due[u]
  BY <1>1, <1>2
<1>4. /\ stats' \in [Queues -> QueueStats]
      /\ stats'[q].full = IF pc[t] = "waiting" THEN stats[q].full + 1 ELSE stats[q].full
      /\ \A r \in Queues : /\ r # q => stats'[r] = stats[r]
                           /\ stats'[r].samples = stats[r].samples /\ stats'[r].sum = stats[r].sum
                           /\ stats'[r].max = stats[r].max
  <2>1. CASE pc[t] = "waiting"
    <3>1. stats' = [stats EXCEPT ![q].full = @ + 1]
      BY <1>1, <2>1
    <3> DEFINE s == [stats[q] EXCEPT !.full = stats[q].full + 1]
    <3>2. stats' = [stats EXCEPT ![q] = s] /\ stats[q] \in QueueStats
      BY ONLY <1>2, <1>q, <3>1
    <3>3. /\ s \in QueueStats /\ s.full = stats[q].full + 1 /\ s.samples = stats[q].samples
          /\ s.sum = stats[q].sum /\ s.max = stats[q].max
      BY ONLY <3>2 DEF QueueStats
    <3> HIDE DEF s
    <3> QED BY ONLY <1>2, <1>q, <2>1, <3>2, <3>3
  <2>2. CASE pc[t] # "waiting"
    BY <1>1, <1>2, <1>q, <2>2
  <2> QED BY <2>1, <2>2
<1>5. /\ queue' \in [Queues -> Seq(EventRecord)]
      /\ \A r \in Queues : r # q => queue'[r] = queue[r]
      /\ Len(queue[q]) \in Nat /\ Len(queue'[q]) = Len(queue[q]) + 1
      /\ \A k \in 1..Len(queue[q]) : queue'[q][k] = queue[q][k]
      /\ queue'[q][Len(queue[q]) + 1] = hand[t]
  <2>1. hand[t] \in EventRecord /\ queue[q] \in Seq(EventRecord) /\ Len(queue[q]) \in Nat
    BY <1>2, <1>q, Types
  <2> DEFINE s == Append(queue[q], hand[t])
  <2>2. /\ s \in Seq(EventRecord) /\ Len(s) = Len(queue[q]) + 1
        /\ \A k \in 1..Len(queue[q]) : s[k] = queue[q][k]
        /\ s[Len(queue[q]) + 1] = hand[t]
    BY <2>1, AppendProperties
  <2>3. queue' = [queue EXCEPT ![q] = s]
    BY <1>1
  <2> HIDE DEF s
  <2>4. queue'[q] = s /\ queue' \in [Queues -> Seq(EventRecord)]
        /\ \A r \in Queues : r # q => queue'[r] = queue[r]
    BY <1>2, <1>q, <2>2, <2>3
  <2> QED BY <2>1, <2>2, <2>4
<1>6. TypeOK'
  <2>1. due' \in [Threads -> Dues]
    BY <1>1, <1>2, <1>q, DueKinds
  <2>2. lagPush[q] \in Nat /\ Unseen(lagPush[q]) \in Nat
    BY <1>2, <1>q DEF Unseen
  <2>3. lagPush' \in [Queues -> Nat] /\ lagPop' \in [Queues -> Nat] /\ lag \in Nat
    BY <1>1, <1>2, <1>l, <1>q, <2>2
  <2>4. ASSUME NEW r \in Queues
        PROVE  /\ lagPush'[r] <= Len(queue'[r]) /\ lagPop'[r] <= Capacity - Len(queue'[r])
               /\ mode' = "normal" => lagPush'[r] = 0 /\ lagPop'[r] = 0
    <3>1. /\ lagPush[r] <= Len(queue[r]) /\ lagPop[r] <= Capacity - Len(queue[r])
          /\ mode = "normal" => lagPush[r] = 0 /\ lagPop[r] = 0
      BY DEF IndInv, TypeOK
    <3>2. CASE r = q
      <4>1. lagPush'[r] = Unseen(lagPush[r]) /\ lagPop'[r] = lag
        BY <1>1, <1>2, <1>l, <3>2
      <4>2. Len(queue[r]) + lag < Capacity /\ lagPop[r] \in Nat /\ lag <= lagPop[r]
        BY <1>2, <1>l, <3>2, <2>3 DEF HasRoom
      <4>3. Len(queue[r]) \in Nat /\ Len(queue'[r]) = Len(queue[r]) + 1 /\ Capacity \in Nat
        BY <1>5, <3>2, Numbers
      <4> QED BY <1>1, <2>2, <2>3, <3>1, <3>2, <4>1, <4>2, <4>3 DEF Unseen
    <3>3. CASE r # q
      <4>1. lagPush'[r] = lagPush[r] /\ lagPop'[r] = lagPop[r] /\ queue'[r] = queue[r]
        BY <1>1, <1>2, <1>5, <1>l, <3>3
      <4> QED BY <1>1, <3>1, <4>1
    <3> QED BY <3>2, <3>3
  <2> QED BY <1>1, <1>2, <1>4, <1>5, <1>h, <2>1, <2>3, <2>4 DEF TypeOK
<1>7. ASSUME NEW u \in Threads PROVE HandOK(u)' /\ DueOK(u)'
  <2>1. HandOK(u) /\ DueOK(u)
    BY DEF IndInv
  <2>2. HandOK(u)'
    <3>1. CASE u = t
      BY <1>h, <3>1
    <3>2. CASE u # t
      BY <1>1, <1>h, <2>1, <3>2, HandKept
    <3> QED BY <3>1, <3>2
  <2>3. DueOK(u)'
    <3>1. CASE u = t
      BY <1>3, <1>q, <3>1, DueKinds DEF DueOK
    <3>2. CASE u # t
      <4>1. due'[u] = due[u] /\ due[u] \in Dues
        BY <1>2, <1>3, <3>2
      <4>2. \A r \in Queues : stats[r].max \in Int /\ peak[r] \in Int
        BY <1>2, Types
      <4>3. \A r \in Queues : /\ stats[r].max \in Int /\ stats'[r].max \in Int
                              /\ stats[r].max <= stats'[r].max
                              /\ peak[r] \in Int /\ peak'[r] \in Int /\ peak[r] <= peak'[r]
        BY <1>1, <1>4, <4>2
      <4> QED BY <2>1, <4>1, <4>3, DueKept
    <3> QED BY <3>1, <3>2
  <2> QED BY <2>2, <2>3
<1>8. /\ Owed(t, q) = 0 /\ Owed(t, q)' = 1
      /\ \A r \in Queues : r # q => Owed(t, r)' = Owed(t, r)
      /\ \A r \in Queues : Racing(t, r)' = Racing(t, r)
  <2>1. /\ Owed(t, q) = 0 /\ Owed(t, q)' = 1
        /\ \A r \in Queues : r # q => Owed(t, r) = 0 /\ Owed(t, r)' = 0
        /\ \A r : Racing(t, r) = FALSE /\ Racing(t, r)' = FALSE
    BY ONLY <1>1, <1>3, <1>q, Begins
  <2> QED BY ONLY <2>1
<1>9. ASSUME NEW u \in Threads, u # t
      PROVE  /\ Pushed(u)' = Pushed(u) /\ Popped(u)' = Popped(u)
             /\ \A r : Owed(u, r)' = Owed(u, r) /\ Racing(u, r)' = Racing(u, r)
  BY <1>1, <1>3, <1>9, <1>h, ThreadKept
<1>10. \A r \in Queues : Popped(r)' = Popped(r) /\ hand'[r].seq = hand[r].seq
  <2> TAKE r \in Queues
  <2>1. r \in Threads /\ r # Producer
    BY Numbers
  <2> QED BY <1>h, <2>1 DEF Popped
<1>11. ASSUME NEW r \in Queues
       PROVE  (QueueOK(r) /\ Sampled(r) /\ MaxKept(r) /\ SumBelow(r))'
  <2>1. r \in Threads /\ r - 1 \in Threads /\ (r - 1) + 1 = r
    BY Numbers
  <2>2. QueueOK(r) /\ Sampled(r) /\ MaxKept(r) /\ SumBelow(r)
    BY DEF IndInv
  <2>3. QueueOK(r)' /\ Sampled(r)'
    <3>1. CASE r # q
      <4>1. r - 1 # t
        BY <1>q, <2>1, <3>1
      <4>2. Pushed(r - 1)' = Pushed(r - 1) /\ Popped(r)' = Popped(r) /\ stats'[r] = stats[r]
            /\ queue'[r] = queue[r] /\ hand'[r].seq = hand[r].seq
        BY <1>4, <1>5, <1>9, <1>10, <2>1, <3>1, <4>1
      <4>3. Owed(r - 1, r)' = Owed(r - 1, r) /\ Owed(r, r)' = Owed(r, r)
        BY <1>8, <1>9, <2>1, <3>1
      <4>4. QueueOK(r)'
        BY <2>2, <4>2, QueueKept
      <4>5. Sampled(r)'
        BY <1>1, <2>2, <4>2, <4>3, SampledKept
      <4> QED BY <4>4, <4>5
    <3>2. CASE r = q
      <4>1. /\ Popped(q)' = Popped(q) /\ hand'[q].seq = hand[q].seq
            /\ Owed(q, q)' = Owed(q, q) /\ Owed(q, q) \in {0, 1}
        BY <1>9, <1>10, <1>q, <2>1, <3>2 DEF Owed
      <4>2. stats[q].samples \in Int /\ stats[q].full \in Int /\ hand[t].seq \in Int /\ hand[q].seq \in Int
        BY <1>2, <1>q, Types
      <4>3. Pushed(t) \in Int /\ Popped(q) \in Int /\ Popped(q) = hand[q].seq + 1
        BY <4>2 DEF Pushed, Popped
      <4>4. QueueOK(q)'
        <5>1. /\ Pushed(t) = Popped(q) + Len(queue[q])
              /\ \A k \in 1..Len(queue[q]) : queue[q][k] = Event(t, hand[q].seq + k)
          BY <1>q, <2>2, <3>2 DEF QueueOK
        <5>2. Pushed(t)' = Popped(q)' + Len(queue'[q])
          <6> DEFINE n == Len(queue[q])
                     m == Len(queue'[q])
                     a == Popped(q)
                     b == Pushed(t)
          <6>1. /\ n \in Nat /\ m = n + 1 /\ a \in Int /\ b = a + n
                /\ Pushed(t)' = b + 1 /\ Popped(q)' = a
            BY ONLY <1>5, <1>h, <4>1, <4>3, <5>1
          <6> HIDE DEF n, m, a, b
          <6>2. Pushed(t)' = Popped(q)' + m
            BY ONLY <6>1
          <6> QED BY ONLY <6>2 DEF m
        <5>3. ASSUME NEW k \in 1..Len(queue'[q])
              PROVE  queue'[q][k] = Event(t, hand'[q].seq + k)
          <6>1. CASE k \in 1..Len(queue[q])
            BY <1>5, <4>1, <5>1, <6>1
          <6>2. CASE k = Len(queue[q]) + 1
            <7>1. hand[t].seq = hand[q].seq + k
              <8>1. hand[t].seq = Popped(q) + Len(queue[q]) /\ Len(queue[q]) \in Nat
                BY <1>5, <1>h, <5>1
              <8> DEFINE a == hand[t].seq
                         b == hand[q].seq
                         n == Len(queue[q])
              <8>2. a = (b + 1) + n /\ k = n + 1 /\ a \in Int /\ b \in Int /\ n \in Int
                BY <4>2, <4>3, <6>2, <8>1
              <8>3. a = b + k
                <9> HIDE DEF a, b, n
                <9> QED BY ONLY <8>2
              <8> QED BY <8>3
            <7> QED BY <1>5, <1>h, <4>1, <6>2, <7>1
          <6> QED BY <1>5, <6>1, <6>2
        <5> QED BY <1>q, <5>2, <5>3 DEF QueueOK
      <4>5. Sampled(q)'
        <5> DEFINE f == IF mode = "spsc" THEN stats[q].full ELSE 0
        <5>1. stats[q].samples + Owed(t, q) + Owed(q, q) = Pushed(t) + Popped(q) + f
          BY <1>q, <2>2, <3>2 DEF Sampled
        <5>2. f \in Int /\ f' = f
          <6>1. mode = "spsc" => pc[t] # "waiting"
            BY DEF IndInv, HandOK, Place
          <6>2. mode = "spsc" => stats'[q].full = stats[q].full
            BY <1>4, <6>1
          <6> QED BY <1>1, <4>2, <6>2
        <5> HIDE DEF f
        <5>3. stats[q].samples + 1 + Owed(q, q) = (Pushed(t) + 1) + Popped(q) + f
          BY <1>8, <4>1, <4>2, <4>3, <5>1, <5>2
        <5>4. stats'[q].samples + Owed(t, q)' + Owed(q, q)' = Pushed(t)' + Popped(q)' + f'
          BY <1>4, <1>8, <1>h, <1>q, <4>1, <5>2, <5>3
        <5> QED BY <1>q, <5>4 DEF Sampled, f
      <4> QED BY <3>2, <4>4, <4>5
    <3> QED BY <3>1, <3>2
  <2>6. Racing(r - 1, r)' = Racing(r - 1, r) /\ Racing(r, r)' = Racing(r, r)
    BY <1>8, <1>9, <2>1
  <2>7. MaxKept(r)'
    BY <1>1, <1>4, <2>2, <2>6, MaxUnmoved
  <2>8. SumBelow(r)'
    BY <1>1, <1>4, <2>2, SumUnmoved
  <2> QED BY <2>3, <2>7, <2>8
<1>12. Timed'
  <2>1. hand'[Sink].seq = hand[Sink].seq
    BY <1>h, Numbers
  <2> QED BY <1>1, <2>1, TimedKept DEF IndInv
<1>13. Reported'
  BY <1>1, NotReported DEF IndInv
<1> QED BY <1>6, <1>7, <1>11, <1>12, <1>13 DEF IndInv

(* The thread that pops holds the event after its last one, with its       *)
(* stage's work done.                                                      *)
LEMMA PopHand ==
  ASSUME IndInv, NEW t \in Threads, t # Producer, Pop(t)
  PROVE  /\ hand' \in [Threads -> EventRecord]
         /\ pc' \in [Threads -> {"push", "waiting", "pop", "stopped"}]
         /\ hand[t].seq \in -1..(Events - 1)
         /\ hand'[t] = Event(t, hand[t].seq + 1) /\ hand'[t].seq = hand[t].seq + 1
         /\ Head(queue[t]).stop = (hand[t].seq + 1 = Events)
         /\ t # Sink => Pushed(t)' = Pushed(t)
         /\ \A u \in Threads : u # t => hand'[u] = hand[u] /\ pc'[u] = pc[u]
         /\ HandOK(t)'
<1> DEFINE i == hand[t].seq + 1
           e == Head(queue[t])
<1>1. /\ pc[t] = "pop" /\ queue[t] # <<>> /\ mode' = mode
      /\ hand' = [hand EXCEPT ![t] = IF e.stop THEN e ELSE do_stage_work(e, t)]
      /\ pc' = [pc EXCEPT ![t] = AfterPop(t, e)]
  BY DEF Pop
<1>2. /\ TypeOK /\ hand \in [Threads -> EventRecord]
      /\ pc \in [Threads -> {"push", "waiting", "pop", "stopped"}]
  BY DEF IndInv, TypeOK
<1>3. /\ t \in Queues /\ t - 1 \in Threads /\ t \in Nat /\ t - 1 \in Nat /\ (t - 1) + 1 = t
      /\ Events \in Nat
  BY Numbers
<1>4. HandOK(t) /\ HandOK(t - 1) /\ QueueOK(t)
  BY <1>3 DEF IndInv
<1>5. queue[t] \in Seq(EventRecord) /\ hand[t].seq \in Int /\ hand[t - 1].seq \in Int
  BY <1>2, <1>3, Types
<1>6. Len(queue[t]) \in Nat /\ Len(queue[t]) >= 1 /\ e = queue[t][1]
  BY <1>1, <1>5, EmptySeq
<1>7. i \in 0..Events /\ e = Event(t - 1, i)
  <2>1. Pushed(t - 1) = (hand[t].seq + 1) + Len(queue[t])
        /\ \A k \in 1..Len(queue[t]) : queue[t][k] = Event(t - 1, hand[t].seq + k)
    BY <1>4 DEF QueueOK, Popped
  <2>2. hand[t - 1].seq <= Events /\ hand[t].seq >= -1
    BY <1>4, <1>5 DEF HandOK
  <2>3. Pushed(t - 1) <= Events + 1
    BY <1>3, <1>5, <2>2 DEF Pushed
  <2>4. i \in 0..Events
    <3> DEFINE a == hand[t].seq
               n == Len(queue[t])
               p == Pushed(t - 1)
    <3>1. /\ a \in Int /\ n \in Nat /\ n >= 1 /\ p = (a + 1) + n /\ p <= Events + 1
          /\ a >= -1 /\ Events \in Nat
      BY ONLY <1>3, <1>5, <1>6, <2>1, <2>2, <2>3
    <3> HIDE DEF a, n, p
    <3>2. a + 1 \in 0..Events
      BY ONLY <3>1
    <3> QED BY ONLY <3>2 DEF a
  <2>5. queue[t][1] = Event(t - 1, hand[t].seq + 1)
    BY <1>6, <2>1
  <2> QED BY <1>6, <2>4, <2>5
<1>8. /\ e.stop = (i = Events) /\ Event(t, i) \in EventRecord /\ Event(t, i).seq = i
      /\ i # Events => do_stage_work(e, t) = Event(t, i)
      /\ i = Events => e = Event(t, i)
  <2> HIDE DEF i, e
  <2>1. i \in Int
    BY <1>7, <1>3
  <2>2. /\ Event(t - 1, i).stop = (i = Events)
        /\ i # Events => do_stage_work(Event(t - 1, i), (t - 1) + 1) = Event((t - 1) + 1, i)
        /\ i = Events => Event(t - 1, i) = Event((t - 1) + 1, i)
    BY <1>3, <2>1, EventFacts
  <2>3. Event(t, i) \in EventRecord /\ Event(t, i).seq = i
    BY <1>3, <2>1, EventFacts
  <2> QED BY <1>3, <1>7, <2>2, <2>3
<1>9. (IF e.stop THEN e ELSE do_stage_work(e, t)) = Event(t, i)
  BY <1>8
<1>10. AfterPop(t, e) \in {"push", "pop", "stopped"}
  BY DEF AfterPop
<1>11. /\ hand' \in [Threads -> EventRecord]
       /\ pc' \in [Threads -> {"push", "waiting", "pop", "stopped"}]
       /\ hand'[t] = Event(t, i) /\ hand'[t].seq = i /\ pc'[t] = AfterPop(t, e)
       /\ \A u \in Threads : u # t => hand'[u] = hand[u] /\ pc'[u] = pc[u]
  <2> HIDE DEF i, e
  <2>1. hand' = [hand EXCEPT ![t] = Event(t, i)]
    BY <1>1, <1>9
  <2> QED BY <1>1, <1>2, <1>8, <1>10, <2>1
<1>12. /\ t # Sink => Pushed(t)' = Pushed(t)
       /\ HandOK(t)'
  <2>1. CASE t # Sink
    <3>1. pc'[t] = "push"
      BY <1>11, <2>1 DEF AfterPop
    <3>2. Pushed(t)' = i /\ Pushed(t) = i
      BY <1>1, <1>11, <3>1 DEF Pushed, Busy
    <3>3. hand'[t] = Event(t, hand'[t].seq) /\ hand'[t].seq \in 0..Events
      BY <1>7, <1>11
    <3>4. HandOK(t)'
      BY <2>1, <3>1, <3>3 DEF HandOK, Place, Busy
    <3> QED BY <3>2, <3>4
  <2>2. CASE t = Sink
    <3>1. pc'[t] = IF i = Events THEN "stopped" ELSE "pop"
      BY <1>8, <1>11, <2>2 DEF AfterPop
    <3>3. hand'[t] = Event(t, hand'[t].seq) /\ hand'[t].seq \in 0..Events /\ hand'[t].seq = i
      BY <1>7, <1>11
    <3>4. HandOK(t)'
      <4> HIDE DEF i, e
      <4>1. CASE i = Events
        BY <3>1, <3>3, <4>1 DEF HandOK, Place, Busy
      <4>2. CASE i # Events
        BY <1>3, <3>1, <3>3, <4>2 DEF HandOK, Place, Busy
      <4> QED BY <4>1, <4>2
    <3> QED BY <2>2, <3>4
  <2> QED BY <2>1, <2>2
<1>13. hand[t].seq \in -1..(Events - 1)
  BY <1>3, <1>5, <1>7
<1> QED BY <1>8, <1>11, <1>12, <1>13

(* pop_wait and try_pop take the oldest event of the queue.                *)
LEMMA PopKeeps ==
  ASSUME IndInv, NEW t \in Threads, t # Producer, Pop(t)
  PROVE  IndInv'
<1> DEFINE i == hand[t].seq + 1
           e == Head(queue[t])
<1>1. /\ pc[t] = "pop" /\ due[t] = Nothing /\ queue[t] # <<>>
      /\ queue' = [queue EXCEPT ![t] = Tail(queue[t])]
      /\ lagPop' = [lagPop EXCEPT ![t] = Unseen(lagPop[t])]
      /\ latencies' = IF t = Sink /\ ~e.stop THEN Append(latencies, hand'[t]) ELSE latencies
      /\ due' = [due EXCEPT ![t] = Sample(t)]
      /\ mode' = mode /\ stats' = stats /\ result' = result /\ peak' = peak
  BY DEF Pop
<1>l. PICK lag \in 0..lagPush[t] :
        lag < Len(queue[t]) /\ lagPush' = [lagPush EXCEPT ![t] = lag]
  BY DEF Pop
<1>q. t \in Queues /\ t - 1 \in Threads /\ t - 1 # t /\ t \in Nat
  BY Numbers
<1>2. /\ TypeOK /\ due \in [Threads -> Dues] /\ queue \in [Queues -> Seq(EventRecord)]
      /\ lagPush \in [Queues -> Nat] /\ lagPop \in [Queues -> Nat]
      /\ latencies \in Seq(EventRecord)
  BY DEF IndInv, TypeOK
<1>h. /\ hand' \in [Threads -> EventRecord]
      /\ pc' \in [Threads -> {"push", "waiting", "pop", "stopped"}]
      /\ hand[t].seq \in -1..(Events - 1)
      /\ hand'[t] = Event(t, i) /\ hand'[t].seq = i
      /\ e.stop = (i = Events)
      /\ t # Sink => Pushed(t)' = Pushed(t)
      /\ \A u \in Threads : u # t => hand'[u] = hand[u] /\ pc'[u] = pc[u]
      /\ HandOK(t)'
  BY PopHand
<1>i. i \in Int /\ i = hand[t].seq + 1 /\ hand[t].seq \in Int /\ i \in 0..Events /\ Events \in Nat
  BY <1>h, Numbers
<1> HIDE DEF i, e
<1>3. due'[t] = Sample(t) /\ \A u \in Threads : u # t => due'[u] = due[u]
  BY <1>1, <1>2
<1>5. /\ queue' \in [Queues -> Seq(EventRecord)]
      /\ \A r \in Queues : r # t => queue'[r] = queue[r]
      /\ Len(queue[t]) \in Nat /\ Len(queue[t]) >= 1 /\ Len(queue'[t]) = Len(queue[t]) - 1
      /\ \A k \in 1..(Len(queue[t]) - 1) : queue'[t][k] = queue[t][k + 1]
  <2>1. queue[t] \in Seq(EventRecord)
    BY <1>2, <1>q
  <2> DEFINE s == Tail(queue[t])
  <2>2. /\ s \in Seq(EventRecord) /\ Len(s) = Len(queue[t]) - 1
        /\ Len(queue[t]) \in Nat /\ Len(queue[t]) >= 1
        /\ \A k \in 1..(Len(queue[t]) - 1) : s[k] = queue[t][k + 1]
    BY <1>1, <2>1, EmptySeq, HeadTailProperties
  <2>3. queue' = [queue EXCEPT ![t] = s]
    BY <1>1
  <2> HIDE DEF s
  <2>4. queue'[t] = s /\ queue' \in [Queues -> Seq(EventRecord)]
        /\ \A r \in Queues : r # t => queue'[r] = queue[r]
    BY <1>2, <1>q, <2>2, <2>3
  <2> QED BY <2>2, <2>4
<1>t. latencies' \in Seq(EventRecord) /\ Timed'
  <2>1. /\ Len(latencies) = IF hand[Sink].seq = Events THEN Events ELSE hand[Sink].seq + 1
        /\ \A k \in 1..Len(latencies) : latencies[k] = Event(N, k - 1)
    BY DEF IndInv, Timed
  <2>2. CASE t # Sink
    <3>1. latencies' = latencies /\ hand'[Sink].seq = hand[Sink].seq
      BY <1>1, <1>h, <2>2, Numbers
    <3>2. Timed'
      BY <3>1, TimedKept DEF IndInv
    <3> QED BY <1>2, <3>1, <3>2
  <2>3. CASE t = Sink /\ i = Events
    <3>1. latencies' = latencies /\ hand'[Sink].seq = Events
      BY <1>1, <1>h, <2>3
    <3>2. Len(latencies) = Events
      BY <1>i, <2>1, <2>3
    <3>3. Timed'
      BY <2>1, <3>1, <3>2 DEF Timed
    <3> QED BY <1>2, <3>1, <3>3
  <2>4. CASE t = Sink /\ i # Events
    <3>1. latencies' = Append(latencies, hand'[t]) /\ hand'[Sink].seq = i /\ hand'[t] \in EventRecord
          /\ hand'[t] = Event(N, i)
      BY <1>1, <1>h, <2>4 DEF Sink
    <3>2. Len(latencies) = i
      BY <1>i, <2>1, <2>4
    <3>3. /\ latencies' \in Seq(EventRecord) /\ Len(latencies') = Len(latencies) + 1
          /\ \A k \in 1..Len(latencies) : latencies'[k] = latencies[k]
          /\ latencies'[Len(latencies) + 1] = hand'[t]
      BY <1>2, <3>1, AppendProperties
    <3>4. Len(latencies') = i + 1
      BY <3>2, <3>3
    <3>5. ASSUME NEW k \in 1..(i + 1) PROVE latencies'[k] = Event(N, k - 1)
      <4>1. CASE k \in 1..i
        BY <2>1, <3>2, <3>3, <4>1
      <4>2. CASE k = i + 1
        <5>1. k - 1 = i
          BY <1>i, <4>2
        <5> QED BY <3>1, <3>2, <3>3, <4>2, <5>1
      <4> QED BY <1>i, <4>1, <4>2
    <3>6. Timed'
      BY <2>4, <3>1, <3>4, <3>5 DEF Timed
    <3> QED BY <3>3, <3>6
  <2> QED BY <2>2, <2>3, <2>4
<1>6. TypeOK'
  <2>1. due' \in [Threads -> Dues]
    BY <1>1, <1>2, <1>q, DueKinds
  <2>2. lagPop[t] \in Nat /\ Unseen(lagPop[t]) \in Nat
    BY <1>2, <1>q DEF Unseen
  <2>3. lagPush' \in [Queues -> Nat] /\ lagPop' \in [Queues -> Nat] /\ lag \in Nat
    BY <1>1, <1>2, <1>l, <1>q, <2>2
  <2>4. ASSUME NEW r \in Queues
        PROVE  /\ lagPush'[r] <= Len(queue'[r]) /\ lagPop'[r] <= Capacity - Len(queue'[r])
               /\ mode' = "normal" => lagPush'[r] = 0 /\ lagPop'[r] = 0
    <3>1. /\ lagPush[r] <= Len(queue[r]) /\ lagPop[r] <= Capacity - Len(queue[r])
          /\ mode = "normal" => lagPush[r] = 0 /\ lagPop[r] = 0
      BY DEF IndInv, TypeOK
    <3>2. CASE r = t
      <4>1. lagPop'[r] = Unseen(lagPop[r]) /\ lagPush'[r] = lag
        BY <1>1, <1>2, <1>l, <3>2
      <4>2. lag < Len(queue[r]) /\ lagPush[r] \in Nat /\ lag <= lagPush[r]
        BY <1>2, <1>l, <3>2, <2>3
      <4>3. Len(queue[r]) \in Nat /\ Len(queue'[r]) = Len(queue[r]) - 1 /\ Capacity \in Nat
        BY <1>5, <3>2, Numbers
      <4> QED BY <1>1, <2>2, <2>3, <3>1, <3>2, <4>1, <4>2, <4>3 DEF Unseen
    <3>3. CASE r # t
      <4>1. lagPush'[r] = lagPush[r] /\ lagPop'[r] = lagPop[r] /\ queue'[r] = queue[r]
        BY <1>1, <1>2, <1>5, <1>l, <3>3
      <4> QED BY <1>1, <3>1, <4>1
    <3> QED BY <3>2, <3>3
  <2>5. mode' \in {"normal", "spsc"} /\ stats' \in [Queues -> QueueStats] /\ peak' \in [Queues -> 0..Capacity]
    BY <1>1, <1>2 DEF TypeOK
  <2> QED BY <1>5, <1>h, <1>t, <2>1, <2>3, <2>4, <2>5 DEF TypeOK
<1>7. ASSUME NEW u \in Threads PROVE HandOK(u)' /\ DueOK(u)'
  <2>1. HandOK(u) /\ DueOK(u)
    BY DEF IndInv
  <2>2. HandOK(u)'
    <3>1. CASE u = t
      BY <1>h, <3>1
    <3>2. CASE u # t
      BY <1>1, <1>h, <2>1, <3>2, HandKept
    <3> QED BY <3>1, <3>2
  <2>3. DueOK(u)'
    <3>1. CASE u = t
      BY <1>3, <1>q, <3>1, DueKinds DEF DueOK
    <3>2. CASE u # t
      <4>1. due'[u] = due[u] /\ stats' = stats /\ peak' = peak
        BY <1>1, <1>3, <3>2
      <4> QED BY <2>1, <4>1 DEF DueOK
    <3> QED BY <3>1, <3>2
  <2> QED BY <2>2, <2>3
<1>8. /\ Owed(t, t) = 0 /\ Owed(t, t)' = 1
      /\ \A r \in Queues : r # t => Owed(t, r)' = Owed(t, r)
      /\ \A r \in Queues : Racing(t, r)' = Racing(t, r)
  <2>1. /\ Owed(t, t) = 0 /\ Owed(t, t)' = 1
        /\ \A r \in Queues : r # t => Owed(t, r) = 0 /\ Owed(t, r)' = 0
        /\ \A r : Racing(t, r) = FALSE /\ Racing(t, r)' = FALSE
    BY ONLY <1>1, <1>3, <1>q, Begins
  <2> QED BY ONLY <2>1
<1>9. ASSUME NEW u \in Threads, u # t
      PROVE  /\ Pushed(u)' = Pushed(u) /\ Popped(u)' = Popped(u)
             /\ \A r : Owed(u, r)' = Owed(u, r) /\ Racing(u, r)' = Racing(u, r)
  BY <1>1, <1>3, <1>9, <1>h, ThreadKept
<1>10. \A r \in Queues : Pushed(r - 1)' = Pushed(r - 1)
  <2> TAKE r \in Queues
  <2>1. r - 1 \in Threads /\ r - 1 # Sink
    BY Numbers
  <2>2. CASE r - 1 = t
    <3>1. Pushed(t)' = Pushed(t)
      BY <1>h, <2>1, <2>2
    <3> QED BY <2>2, <3>1
  <2>3. CASE r - 1 # t
    BY <1>9, <2>1, <2>3
  <2> QED BY <2>2, <2>3
<1>11. ASSUME NEW r \in Queues
       PROVE  (QueueOK(r) /\ Sampled(r) /\ MaxKept(r) /\ SumBelow(r))'
  <2>1. r \in Threads /\ r - 1 \in Threads /\ (r - 1) + 1 = r
    BY Numbers
  <2>2. QueueOK(r) /\ Sampled(r) /\ MaxKept(r) /\ SumBelow(r)
    BY DEF IndInv
  <2>3. QueueOK(r)' /\ Sampled(r)'
    <3>1. CASE r # t
      <4>1. Pushed(r - 1)' = Pushed(r - 1) /\ Popped(r)' = Popped(r) /\ stats'[r] = stats[r]
            /\ queue'[r] = queue[r] /\ hand'[r].seq = hand[r].seq
        BY <1>1, <1>5, <1>9, <1>10, <1>h, <2>1, <3>1
      <4>2. Owed(r - 1, r)' = Owed(r - 1, r) /\ Owed(r, r)' = Owed(r, r)
        BY <1>8, <1>9, <2>1, <3>1
      <4>3. QueueOK(r)'
        BY <2>2, <4>1, QueueKept
      <4>4. Sampled(r)'
        BY <1>1, <2>2, <4>1, <4>2, SampledKept
      <4> QED BY <4>3, <4>4
    <3>2. CASE r = t
      <4>1. Owed(t - 1, t)' = Owed(t - 1, t) /\ Owed(t - 1, t) \in {0, 1}
            /\ Pushed(t - 1)' = Pushed(t - 1)
        BY <1>9, <1>10, <1>q DEF Owed
      <4>2. stats[t].samples \in Int /\ stats[t].full \in Int /\ hand[t - 1].seq \in Int
        BY <1>2, <1>q, Types
      <4>3. Pushed(t - 1) \in Int /\ Popped(t) = i /\ Popped(t)' = i + 1
        BY <1>h, <1>i, <4>2 DEF Pushed, Popped
      <4>4. QueueOK(t)'
        <5>1. /\ Pushed(t - 1) = i + Len(queue[t])
              /\ \A k \in 1..Len(queue[t]) : queue[t][k] = Event(t - 1, hand[t].seq + k)
          BY <2>2, <3>2, <4>3 DEF QueueOK
        <5>2. Pushed(t - 1)' = Popped(t)' + Len(queue'[t])
          <6>1. Pushed(t - 1)' = i + Len(queue[t])
            BY <4>1, <5>1
          <6>2. Popped(t)' + Len(queue'[t]) = (i + 1) + (Len(queue[t]) - 1)
            BY <1>5, <4>3
          <6>3. \A a, b \in Int : a + b = (a + 1) + (b - 1)
            OBVIOUS
          <6>4. i \in Int /\ Len(queue[t]) \in Int
            BY <1>5, <1>i
          <6> QED BY <6>1, <6>2, <6>3, <6>4
        <5>3. ASSUME NEW k \in 1..Len(queue'[t])
              PROVE  queue'[t][k] = Event(t - 1, hand'[t].seq + k)
          <6>1. k \in 1..(Len(queue[t]) - 1) /\ k + 1 \in 1..Len(queue[t])
            BY <1>5
          <6>2. queue'[t][k] = Event(t - 1, hand[t].seq + (k + 1))
            BY <1>5, <5>1, <6>1
          <6>3. hand[t].seq + (k + 1) = hand'[t].seq + k
            <7>1. \A a, b \in Int : a + (b + 1) = (a + 1) + b
              OBVIOUS
            <7>2. hand[t].seq \in Int /\ k \in Int /\ hand'[t].seq = hand[t].seq + 1
              BY <1>h, <1>i
            <7> QED BY <7>1, <7>2
          <6> QED BY <6>2, <6>3
        <5> QED BY <5>2, <5>3 DEF QueueOK
      <4>5. Sampled(t)'
        <5> DEFINE f == IF mode = "spsc" THEN stats[t].full ELSE 0
        <5>1. stats[t].samples + Owed(t - 1, t) + Owed(t, t) = Pushed(t - 1) + Popped(t) + f
          BY <2>2, <3>2 DEF Sampled
        <5>2. f \in Int /\ f' = f
          BY <1>1, <4>2
        <5> HIDE DEF f
        <5>3. stats[t].samples + Owed(t - 1, t) + 1 = Pushed(t - 1) + (i + 1) + f
          BY <1>8, <1>i, <4>1, <4>2, <4>3, <5>1, <5>2
        <5>4. stats'[t].samples + Owed(t - 1, t)' + Owed(t, t)' = Pushed(t - 1)' + Popped(t)' + f'
          BY <1>1, <1>8, <4>1, <4>3, <5>2, <5>3
        <5> QED BY <5>4 DEF Sampled, f
      <4> QED BY <3>2, <4>4, <4>5
    <3> QED BY <3>1, <3>2
  <2>6. Racing(r - 1, r)' = Racing(r - 1, r) /\ Racing(r, r)' = Racing(r, r)
    BY <1>8, <1>9, <2>1
  <2>7. MaxKept(r)'
    BY <1>1, <2>2, <2>6, MaxUnmoved
  <2>8. SumBelow(r)'
    BY <1>1, <2>2, SumUnmoved
  <2> QED BY <2>3, <2>7, <2>8
<1>12. Reported'
  BY <1>1, NotReported DEF IndInv
<1> QED BY <1>6, <1>7, <1>11, <1>12, <1>t DEF IndInv
-----------------------------------------------------------------------------
(* The greater of two.                                                     *)
LEMMA Greater ==
  ASSUME NEW a \in Int, NEW b \in Int
  PROVE  Max({a, b}) = IF b > a THEN b ELSE a
<1> DEFINE S == {a, b}
<1>1. IsFiniteSet(S) /\ S \subseteq Int /\ S # {}
  <2>1. IsFiniteSet({a}) /\ {a, b} = {a} \cup {b}
    BY FS_Singleton
  <2>2. IsFiniteSet({a} \cup {b})
    BY <2>1, FS_Singleton, FS_Union
  <2> QED BY <2>1, <2>2
<1>2. Max(S) \in S /\ \A y \in S : y <= Max(S)
  <2> HIDE DEF S
  <2> QED BY <1>1, MaxMin
<1> QED BY <1>2

(* One sample more, none above the peak.                                   *)
LEMMA OneSampleMore ==
  ASSUME NEW s \in Nat, NEW n \in Nat, NEW p \in Nat, NEW m \in Nat, NEW o \in Nat,
         s <= n * p, p <= m, o <= m
  PROVE  s + o <= (n + 1) * m
<1>1. n * m = n * p + n * (m - p)
  BY p + (m - p) = m
<1>2. n * (m - p) >= 0
  OBVIOUS
<1>3. (n + 1) * m = n * m + m
  OBVIOUS
<1>4. n * p \in Int /\ n * m \in Int /\ n * (m - p) \in Int
  OBVIOUS
<1> QED BY <1>1, <1>2, <1>3, <1>4

(* observe takes its sample and reads max_occupancy.                       *)
LEMMA ObserveKeeps ==
  ASSUME IndInv, NEW t \in Threads, Observe(t)
  PROVE  IndInv'
<1>p. PICK q : q = due[t].queue
  OBVIOUS
<1>1. /\ due[t].step = "sample"
      /\ mode' = mode /\ pc' = pc /\ hand' = hand /\ queue' = queue
      /\ latencies' = latencies /\ result' = result
  BY DEF Observe
<1>o. PICK o \in size_approx(t, q) :
        /\ lagPush' = IF t = q THEN [lagPush EXCEPT ![q] = Len(queue[q]) - o] ELSE lagPush
        /\ lagPop' = IF t = q THEN lagPop ELSE [lagPop EXCEPT ![q] = o - Len(queue[q])]
        /\ stats' = [stats EXCEPT ![q].samples = @ + 1, ![q].sum = @ + o]
        /\ peak' = [peak EXCEPT ![q] = Max({peak[q], o})]
        /\ due' = [due EXCEPT ![t] =
                     IF o > stats[q].max
                     THEN [step |-> "cas", queue |-> q, occupancy |-> o, current |-> stats[q].max]
                     ELSE Nothing]
  BY <1>p DEF Observe
<1>2. /\ TypeOK /\ due \in [Threads -> Dues] /\ stats \in [Queues -> QueueStats]
      /\ peak \in [Queues -> 0..Capacity]
      /\ lagPush \in [Queues -> Nat] /\ lagPop \in [Queues -> Nat]
  BY DEF IndInv, TypeOK
<1>q. q \in Queues /\ due[t] = Sample(q) /\ due[t] # Nothing /\ q \in {t, t + 1} /\ q \in Threads
      /\ q - 1 \in Threads /\ t \in {q - 1, q} /\ q - 1 # q /\ t \in Nat /\ q \in Nat
  <2>1. q \in Queues /\ due[t] = Sample(q) /\ due[t] # Nothing
    BY <1>1, <1>2, <1>p, DueCases
  <2>2. q \in {t, t + 1}
    BY <1>p, <2>1 DEF IndInv, DueOK
  <2> QED BY <2>1, <2>2, Numbers
<1>3. /\ Len(queue[q]) \in Nat /\ lagPush[q] \in Nat /\ lagPop[q] \in Nat /\ Capacity \in Nat
      /\ lagPush[q] <= Len(queue[q]) /\ lagPop[q] <= Capacity - Len(queue[q])
      /\ mode = "normal" => lagPush[q] = 0 /\ lagPop[q] = 0
      /\ peak[q] \in 0..Capacity /\ stats[q].max \in 0..Capacity
      /\ stats[q].samples \in Nat /\ stats[q].sum \in Nat
  <2>1. /\ lagPush[q] <= Len(queue[q]) /\ lagPop[q] <= Capacity - Len(queue[q])
        /\ mode = "normal" => lagPush[q] = 0 /\ lagPop[q] = 0
    BY <1>q DEF IndInv, TypeOK
  <2> QED BY <1>2, <1>q, <2>1, Types, Numbers
<1>4. /\ o \in 0..Capacity
      /\ t = q => Len(queue[q]) - o \in 0..lagPush[q]
      /\ t # q => o - Len(queue[q]) \in 0..lagPop[q]
  <2>1. CASE t = q
    <3>1. PICK lag \in 0..lagPush[q] : o = Len(queue[q]) - lag
      BY <1>o, <2>1 DEF size_approx
    <3> DEFINE n == Len(queue[q])
               m == lagPush[q]
    <3>2. n \in Nat /\ m \in Nat /\ lag \in 0..m /\ o = n - lag /\ m <= n /\ n <= Capacity
          /\ Capacity \in Nat
      BY ONLY <1>3, <3>1
    <3> HIDE DEF n, m
    <3>3. o \in 0..Capacity /\ n - o \in 0..m
      BY ONLY <3>2
    <3> QED BY ONLY <2>1, <3>3 DEF n, m
  <2>2. CASE t # q
    <3>1. PICK lag \in 0..lagPop[q] : o = Len(queue[q]) + lag
      BY <1>o, <2>2 DEF size_approx
    <3> DEFINE n == Len(queue[q])
               m == lagPop[q]
    <3>2. n \in Nat /\ m \in Nat /\ lag \in 0..m /\ o = n + lag /\ m <= Capacity - n
          /\ Capacity \in Nat
      BY ONLY <1>3, <3>1
    <3> HIDE DEF n, m
    <3>3. o \in 0..Capacity /\ o - n \in 0..m
      BY ONLY <3>2
    <3> QED BY ONLY <2>2, <3>3 DEF n, m
  <2> QED BY <2>1, <2>2
<1>n. o \in Nat /\ peak[q] \in Nat /\ stats[q].max \in Nat /\ Capacity \in Nat
  BY ONLY <1>3, <1>4
<1>5. /\ peak'[q] = (IF o > peak[q] THEN o ELSE peak[q])
      /\ peak' \in [Queues -> 0..Capacity]
      /\ \A r \in Queues : r # q => peak'[r] = peak[r]
  <2>1. Max({peak[q], o}) = IF o > peak[q] THEN o ELSE peak[q]
    <3>1. o \in Int /\ peak[q] \in Int
      BY ONLY <1>n
    <3> QED BY ONLY <3>1, Greater
  <2> DEFINE m == IF o > peak[q] THEN o ELSE peak[q]
  <2>2. peak' = [peak EXCEPT ![q] = m] /\ m \in 0..Capacity
    BY <1>3, <1>4, <1>o, <2>1
  <2> HIDE DEF m
  <2>3. peak'[q] = m /\ peak' \in [Queues -> 0..Capacity]
        /\ \A r \in Queues : r # q => peak'[r] = peak[r]
    BY <1>2, <1>q, <2>2
  <2> QED BY <2>3 DEF m
<1>6. /\ stats' \in [Queues -> QueueStats]
      /\ stats'[q].samples = stats[q].samples + 1 /\ stats'[q].sum = stats[q].sum + o
      /\ stats'[q].full = stats[q].full
      /\ \A r \in Queues : /\ r # q => stats'[r] = stats[r]
                           /\ stats'[r].max = stats[r].max
  <2>1. /\ stats[q] \in QueueStats /\ stats[q].samples + 1 \in Nat /\ stats[q].sum + o \in Nat
    <3>1. stats[q] \in QueueStats
      BY ONLY <1>2, <1>q
    <3> DEFINE x == stats[q].samples
               y == stats[q].sum
    <3>2. x \in Nat /\ y \in Nat /\ o \in Nat
      BY ONLY <1>3, <1>n
    <3> HIDE DEF x, y
    <3>3. x + 1 \in Nat /\ y + o \in Nat
      BY ONLY <3>2
    <3> QED BY ONLY <3>1, <3>3 DEF x, y
  <2> DEFINE s == [stats[q] EXCEPT !.samples = stats[q].samples + 1, !.sum = stats[q].sum + o]
  <2>2. stats' = [stats EXCEPT ![q] = s]
    BY <1>2, <1>o, <1>q
  <2>3. /\ s \in QueueStats /\ s.samples = stats[q].samples + 1 /\ s.sum = stats[q].sum + o
        /\ s.full = stats[q].full /\ s.max = stats[q].max
    BY <2>1 DEF QueueStats
  <2> HIDE DEF s
  <2> QED BY <1>2, <1>q, <2>2, <2>3
<1>7. /\ due' \in [Threads -> Dues]
      /\ \A u \in Threads : u # t => due'[u] = due[u]
      /\ o > stats[q].max => /\ due'[t].step = "cas" /\ due'[t].queue = q
                             /\ due'[t].occupancy = o /\ due'[t].current = stats[q].max
      /\ ~(o > stats[q].max) => due'[t] = Nothing
  <2>1. CASE o > stats[q].max
    <3> DEFINE d == [step |-> "cas", queue |-> q, occupancy |-> o, current |-> stats[q].max]
    <3>1. d \in Dues
      BY <1>3, <1>4, <1>q DEF Dues
    <3>2. d.step = "cas" /\ d.queue = q /\ d.occupancy = o /\ d.current = stats[q].max
      OBVIOUS
    <3>3. due' = [due EXCEPT ![t] = d]
      BY <1>o, <2>1
    <3> HIDE DEF d
    <3>4. due'[t] = d /\ due' \in [Threads -> Dues] /\ \A u \in Threads : u # t => due'[u] = due[u]
      BY <1>2, <3>1, <3>3
    <3> QED BY <2>1, <3>2, <3>4
  <2>2. CASE ~(o > stats[q].max)
    <3>1. due' = [due EXCEPT ![t] = Nothing]
      BY <1>o, <2>2
    <3> QED BY <1>2, <2>2, <3>1, DueKinds
  <2> QED BY <2>1, <2>2
<1>8. TypeOK'
  <2>1. lagPush' \in [Queues -> Nat] /\ lagPop' \in [Queues -> Nat]
    <3>1. CASE t = q
      BY <1>2, <1>3, <1>4, <1>o, <1>q, <3>1
    <3>2. CASE t # q
      BY <1>2, <1>3, <1>4, <1>o, <1>q, <3>2
    <3> QED BY <3>1, <3>2
  <2>2. ASSUME NEW r \in Queues
        PROVE  /\ lagPush'[r] <= Len(queue'[r]) /\ lagPop'[r] <= Capacity - Len(queue'[r])
               /\ mode' = "normal" => lagPush'[r] = 0 /\ lagPop'[r] = 0
    <3>1. /\ lagPush[r] <= Len(queue[r]) /\ lagPop[r] <= Capacity - Len(queue[r])
          /\ mode = "normal" => lagPush[r] = 0 /\ lagPop[r] = 0
      BY DEF IndInv, TypeOK
    <3>2. CASE r # q
      <4>1. lagPush'[r] = lagPush[r] /\ lagPop'[r] = lagPop[r]
        BY <1>2, <1>o, <1>q, <3>2
      <4> QED BY <1>1, <3>1, <4>1
    <3>3. CASE r = q /\ t = q
      <4>1. lagPush'[q] = Len(queue[q]) - o /\ lagPop'[q] = lagPop[q]
        BY <1>2, <1>o, <1>q, <3>3
      <4>2. Len(queue[q]) - o \in 0..lagPush[q]
        BY <1>4, <3>3
      <4> QED BY <1>1, <1>3, <3>3, <4>1, <4>2
    <3>4. CASE r = q /\ t # q
      <4>1. lagPop'[q] = o - Len(queue[q]) /\ lagPush'[q] = lagPush[q]
        BY <1>2, <1>o, <1>q, <3>4
      <4>2. o - Len(queue[q]) \in 0..lagPop[q]
        BY <1>4, <3>4
      <4> QED BY <1>1, <1>3, <3>4, <4>1, <4>2
    <3> QED BY <3>2, <3>3, <3>4
  <2>3. /\ mode' \in {"normal", "spsc"} /\ hand' \in [Threads -> EventRecord]
        /\ pc' \in [Threads -> {"push", "waiting", "pop", "stopped"}]
        /\ queue' \in [Queues -> Seq(EventRecord)] /\ latencies' \in Seq(EventRecord)
    BY <1>1, <1>2 DEF TypeOK
  <2> QED BY <1>5, <1>6, <1>7, <2>1, <2>2, <2>3 DEF TypeOK
<1>9. \A r \in Queues : /\ stats[r].max \in Int /\ stats'[r].max \in Int
                        /\ stats[r].max <= stats'[r].max
                        /\ peak[r] \in Int /\ peak'[r] \in Int /\ peak[r] <= peak'[r]
  <2>1. \A r \in Queues : stats[r].max \in Int /\ peak[r] \in Int
    BY <1>2, Types
  <2>2. \A r \in Queues : peak'[r] \in Int /\ peak[r] <= peak'[r]
    <3>1. peak'[q] \in Int /\ peak[q] <= peak'[q]
      BY ONLY <1>5, <1>n
    <3>2. ASSUME NEW r \in Queues, r # q PROVE peak'[r] \in Int /\ peak[r] <= peak'[r]
      BY ONLY <1>5, <2>1, r \in Queues, <3>2
    <3> QED BY ONLY <3>1, <3>2
  <2> QED BY <1>6, <2>1, <2>2
<1>10. ASSUME NEW u \in Threads PROVE HandOK(u)' /\ DueOK(u)'
  <2>1. HandOK(u) /\ DueOK(u)
    BY DEF IndInv
  <2>2. HandOK(u)'
    BY <1>1, <2>1, HandKept
  <2>3. DueOK(u)'
    <3>1. CASE u # t
      <4>1. due'[u] = due[u] /\ due[u] \in Dues
        BY <1>2, <1>7, <3>1
      <4> QED BY <1>9, <2>1, <4>1, DueKept
    <3>2. CASE u = t /\ o > stats[q].max
      <4>1. /\ due'[t].step = "cas" /\ due'[t].queue = q /\ due'[t].occupancy = o
            /\ due'[t].current = stats[q].max
        BY ONLY <1>7, <3>2
      <4>2. o <= peak'[q] /\ stats'[q].max = stats[q].max
        BY ONLY <1>5, <1>6, <1>n, <1>q
      <4>3. stats[q].max < o /\ stats[q].max <= stats'[q].max
        BY ONLY <1>n, <3>2, <4>2
      <4>4. DueOK(t)'
        BY ONLY <1>q, <4>1, <4>2, <4>3 DEF DueOK
      <4> QED BY <3>2, <4>4
    <3>3. CASE u = t /\ ~(o > stats[q].max)
      BY <1>7, <3>3, DueKinds DEF DueOK
    <3> QED BY <3>1, <3>2, <3>3
  <2> QED BY <2>2, <2>3
<1>11. \A u \in Threads : Pushed(u)' = Pushed(u) /\ Popped(u)' = Popped(u)
  BY <1>1 DEF Pushed, Popped, Busy
<1>12. /\ Owed(t, q) = 1 /\ Owed(t, q)' = 0
       /\ \A r \in Queues : r # q => Owed(t, r)' = 0 /\ Owed(t, r) = 0
       /\ \A r \in Queues : Racing(t, r) = FALSE
  <2>1. Owed(t, q) = 1
    BY <1>q DEF Owed
  <2>2. \A r \in Queues : r # q => Owed(t, r) = 0
    BY <1>q, DueKinds DEF Owed
  <2>3. due'[t] = Nothing \/ due'[t].step = "cas"
    BY <1>7
  <2>4. \A r : Owed(t, r)' = 0
    BY <2>3 DEF Owed, Nothing, Sample
  <2>5. \A r : Racing(t, r) = FALSE
    BY <1>1 DEF Racing
  <2> QED BY <2>1, <2>2, <2>4, <2>5
<1>13. ASSUME NEW u \in Threads, u # t, NEW r \in Queues
       PROVE  /\ Owed(u, r)' = Owed(u, r)
              /\ peak'[r] = peak[r] => Racing(u, r)' = Racing(u, r)
  BY <1>1, <1>7, <1>13, ThreadKept
<1>14. ASSUME NEW r \in Queues, r # q
       PROVE  (QueueOK(r) /\ Sampled(r) /\ MaxKept(r) /\ SumBelow(r))'
  <2>1. r \in Threads /\ r - 1 \in Threads
    BY Numbers
  <2>2. QueueOK(r) /\ Sampled(r) /\ MaxKept(r) /\ SumBelow(r)
    BY DEF IndInv
  <2>3. stats'[r] = stats[r] /\ peak'[r] = peak[r]
    BY <1>5, <1>6, <1>14
  <2>4. Pushed(r - 1)' = Pushed(r - 1) /\ Popped(r)' = Popped(r)
    BY <1>11, <2>1
  <2>5. Owed(r - 1, r)' = Owed(r - 1, r) /\ Owed(r, r)' = Owed(r, r)
    BY <1>12, <1>13, <1>14, <2>1
  <2>6. Racing(t, r)' = FALSE
    BY <1>7, <1>14, DueKinds DEF Racing
  <2>7. Racing(r - 1, r)' = Racing(r - 1, r) /\ Racing(r, r)' = Racing(r, r)
    BY <1>12, <1>13, <2>1, <2>3, <2>6
  <2>8. QueueOK(r)'
    BY <1>1, <2>2, <2>4, QueueKept
  <2>9. Sampled(r)'
    BY <1>1, <2>2, <2>3, <2>4, <2>5, SampledKept
  <2>10. MaxKept(r)'
    BY <2>2, <2>3, <2>7, MaxUnmoved
  <2>11. SumBelow(r)'
    BY <2>2, <2>3, SumUnmoved
  <2> QED BY <2>8, <2>9, <2>10, <2>11
<1>15. (QueueOK(q) /\ Sampled(q) /\ MaxKept(q) /\ SumBelow(q))'
  <2>2. QueueOK(q) /\ Sampled(q) /\ MaxKept(q) /\ SumBelow(q)
    BY <1>q DEF IndInv
  <2>3. Pushed(q - 1)' = Pushed(q - 1) /\ Popped(q)' = Popped(q)
    BY <1>11, <1>q
  <2>4. QueueOK(q)'
    BY <1>1, <2>2, <2>3, QueueKept
  <2>5. Sampled(q)'
    <3> DEFINE f == IF mode = "spsc" THEN stats[q].full ELSE 0
               R == Pushed(q - 1) + Popped(q) + f
    <3>1. stats[q].samples + Owed(q - 1, q) + Owed(q, q) = R /\ R' = R
      BY <1>1, <1>6, <2>2, <2>3 DEF Sampled
    <3> HIDE DEF R
    <3>2. Owed(q - 1, q) \in {0, 1} /\ Owed(q, q) \in {0, 1}
      BY DEF Owed
    <3>3. stats'[q].samples + Owed(q - 1, q)' + Owed(q, q)' = R'
      <4>1. CASE t = q
        <5>1. Owed(q, q) = 1 /\ Owed(q, q)' = 0 /\ Owed(q - 1, q)' = Owed(q - 1, q)
          BY <1>12, <1>13, <1>q, <4>1
        <5> QED BY <1>3, <1>6, <3>1, <3>2, <5>1
      <4>2. CASE t = q - 1
        <5>1. Owed(q - 1, q) = 1 /\ Owed(q - 1, q)' = 0 /\ Owed(q, q)' = Owed(q, q)
          BY <1>12, <1>13, <1>q, <4>2
        <5> QED BY <1>3, <1>6, <3>1, <3>2, <5>1
      <4> QED BY <1>q, <4>1, <4>2
    <3> QED BY <3>3 DEF Sampled, R
  <2>6. MaxKept(q)'
    <3>1. stats[q].max <= peak[q] /\ (stats[q].max = peak[q] \/ Racing(q - 1, q) \/ Racing(q, q))
      BY <2>2 DEF MaxKept
    <3>2. stats'[q].max = stats[q].max /\ stats'[q].max <= peak'[q]
      <4>1. stats'[q].max = stats[q].max
        BY ONLY <1>6, <1>q
      <4> QED BY ONLY <1>5, <1>n, <3>1, <4>1
    <3>3. CASE o > peak[q]
      <4>1. o > stats[q].max /\ peak'[q] = o
        BY <1>3, <1>4, <1>5, <3>1, <3>3
      <4>2. Racing(t, q)'
        BY <1>7, <4>1 DEF Racing
      <4>3. Racing(q - 1, q)' \/ Racing(q, q)'
        BY <1>q, <4>2
      <4> QED BY <3>2, <4>3 DEF MaxKept
    <3>4. CASE ~(o > peak[q])
      <4>1. peak'[q] = peak[q]
        BY <1>5, <3>4
      <4>2. \A u \in Threads : Racing(u, q) => Racing(u, q)'
        BY <1>12, <1>13, <1>q, <4>1
      <4>3. Racing(q - 1, q) \/ Racing(q, q) => Racing(q - 1, q)' \/ Racing(q, q)'
        BY <1>q, <4>2
      <4> QED BY <3>1, <3>2, <4>1, <4>3 DEF MaxKept
    <3> QED BY <3>3, <3>4
  <2>7. SumBelow(q)'
    <3>1. stats[q].sum <= stats[q].samples * peak[q]
      BY <2>2 DEF SumBelow
    <3>2. peak[q] \in Nat /\ peak'[q] \in Nat /\ peak[q] <= peak'[q] /\ o \in Nat /\ o <= peak'[q]
      BY <1>3, <1>4, <1>5
    <3>3. stats[q].sum + o <= (stats[q].samples + 1) * peak'[q]
      BY <1>3, <3>1, <3>2, OneSampleMore
    <3> QED BY <1>6, <3>3 DEF SumBelow
  <2> QED BY <2>4, <2>5, <2>6, <2>7
<1>16. \A r \in Queues : (QueueOK(r) /\ Sampled(r) /\ MaxKept(r) /\ SumBelow(r))'
  BY <1>14, <1>15
<1>17. Timed'
  BY <1>1, TimedKept DEF IndInv
<1>18. Reported'
  BY <1>1, <1>q, NotReported DEF IndInv
<1> QED BY <1>8, <1>10, <1>16, <1>17, <1>18 DEF IndInv

(* One turn of the loop: the occupancy is stored, or another thread has    *)
(* stored one, which is at least as large or has to be beaten.             *)
LEMMA CompareExchangeKeeps ==
  ASSUME IndInv, NEW t \in Threads, CompareExchange(t)
  PROVE  IndInv'
<1>p. PICK q, o, c : q = due[t].queue /\ o = due[t].occupancy /\ c = due[t].current
  OBVIOUS
<1>1. /\ due[t].step = "cas"
      /\ stats' = IF stats[q].max = c THEN [stats EXCEPT ![q].max = o] ELSE stats
      /\ due' = [due EXCEPT ![t] = IF stats[q].max # c /\ o > stats[q].max
                                   THEN [due[t] EXCEPT !.current = stats[q].max] ELSE Nothing]
      /\ mode' = mode /\ pc' = pc /\ hand' = hand /\ queue' = queue /\ lagPush' = lagPush
      /\ lagPop' = lagPop /\ latencies' = latencies /\ result' = result /\ peak' = peak
  BY <1>p DEF CompareExchange
<1>2. /\ TypeOK /\ due \in [Threads -> Dues] /\ stats \in [Queues -> QueueStats]
      /\ peak \in [Queues -> 0..Capacity]
  BY DEF IndInv, TypeOK
<1>3. q \in Queues /\ due[t] # Nothing /\ o \in 0..Capacity /\ c \in 0..Capacity /\ Capacity \in Nat
  BY <1>1, <1>2, <1>p, DueCases, Numbers
<1>4. /\ c < o /\ o <= peak[q] /\ c <= stats[q].max /\ q \in {t, t + 1}
      /\ q \in Threads /\ q - 1 \in Threads /\ t \in {q - 1, q} /\ q - 1 # q
      /\ peak[q] \in 0..Capacity /\ stats[q].max \in 0..Capacity
  <2>1. DueOK(t)
    BY DEF IndInv
  <2>2. c < o /\ o <= peak[q] /\ c <= stats[q].max /\ q \in {t, t + 1}
    BY <1>1, <1>3, <1>p, <2>1 DEF DueOK
  <2>3. peak[q] \in 0..Capacity /\ stats[q].max \in 0..Capacity
    BY <1>2, <1>3, Types
  <2> QED BY <1>3, <2>2, <2>3, Numbers
<1>5. /\ stats' \in [Queues -> QueueStats]
      /\ stats'[q].max = IF stats[q].max = c THEN o ELSE stats[q].max
      /\ \A r \in Queues : /\ r # q => stats'[r] = stats[r]
                           /\ stats'[r].samples = stats[r].samples /\ stats'[r].sum = stats[r].sum
                           /\ stats'[r].full = stats[r].full
  <2>1. CASE stats[q].max = c
    <3>1. stats' = [stats EXCEPT ![q].max = o]
      BY <1>1, <2>1
    <3> QED BY <1>2, <1>3, <2>1, <3>1 DEF QueueStats
  <2>2. CASE stats[q].max # c
    BY <1>1, <1>2, <2>2
  <2> QED BY <2>1, <2>2
<1>6. \A r \in Queues : /\ stats[r].max \in Int /\ stats'[r].max \in Int
                        /\ stats[r].max <= stats'[r].max
                        /\ peak[r] \in Int /\ peak'[r] \in Int /\ peak[r] <= peak'[r]
  <2>1. \A r \in Queues : stats[r].max \in Int /\ peak[r] \in Int
    BY <1>2, Types
  <2>2. \A r \in Queues : stats'[r].max \in Int /\ stats[r].max <= stats'[r].max
    BY <1>3, <1>4, <1>5, <2>1
  <2> QED BY <1>1, <2>1, <2>2
<1>7. /\ due' \in [Threads -> Dues]
      /\ \A u \in Threads : u # t => due'[u] = due[u]
      /\ (stats[q].max # c /\ o > stats[q].max) =>
           /\ due'[t].step = "cas" /\ due'[t].queue = q /\ due'[t].occupancy = o
           /\ due'[t].current = stats[q].max
      /\ ~(stats[q].max # c /\ o > stats[q].max) => due'[t] = Nothing
  <2>1. CASE stats[q].max # c /\ o > stats[q].max
    <3> DEFINE d == [due[t] EXCEPT !.current = stats[q].max]
    <3>1. due[t] \in [step : {"cas"}, queue : Queues, occupancy : 0..Capacity, current : 0..Capacity]
      <4>1. due[t] \in Dues /\ Nothing.step # "cas" /\ \A r \in Queues : Sample(r).step # "cas"
        BY <1>2, DueKinds
      <4> QED BY <1>1, <4>1 DEF Dues
    <3>2. d \in [step : {"cas"}, queue : Queues, occupancy : 0..Capacity, current : 0..Capacity]
          /\ d.step = "cas" /\ d.queue = q /\ d.occupancy = o /\ d.current = stats[q].max
      BY <1>4, <1>p, <3>1
    <3>3. d \in Dues
      BY <3>2 DEF Dues
    <3>4. due' = [due EXCEPT ![t] = d]
      BY <1>1, <2>1
    <3> HIDE DEF d
    <3>5. due'[t] = d /\ due' \in [Threads -> Dues] /\ \A u \in Threads : u # t => due'[u] = due[u]
      BY <1>2, <3>3, <3>4
    <3> QED BY <2>1, <3>2, <3>5
  <2>2. CASE ~(stats[q].max # c /\ o > stats[q].max)
    <3>1. due' = [due EXCEPT ![t] = Nothing]
      BY <1>1, <2>2
    <3> QED BY <1>2, <2>2, <3>1, DueKinds
  <2> QED BY <2>1, <2>2
<1>8. TypeOK'
  BY <1>1, <1>2, <1>5, <1>7 DEF TypeOK
<1>9. ASSUME NEW u \in Threads PROVE HandOK(u)' /\ DueOK(u)'
  <2>1. HandOK(u) /\ DueOK(u)
    BY DEF IndInv
  <2>2. HandOK(u)'
    BY <1>1, <2>1, HandKept
  <2>3. DueOK(u)'
    <3>1. CASE u # t
      <4>1. due'[u] = due[u] /\ due[u] \in Dues
        BY <1>2, <1>7, <3>1
      <4> QED BY <1>6, <2>1, <4>1, DueKept
    <3>2. CASE u = t /\ stats[q].max # c /\ o > stats[q].max
      <4>1. due'[t].step = "cas" /\ due'[t].queue = q /\ due'[t].occupancy = o
            /\ due'[t].current = stats[q].max /\ stats'[q].max = stats[q].max
        BY <1>5, <1>7, <3>2
      <4> QED BY <1>1, <1>3, <1>4, <3>2, <4>1 DEF DueOK
    <3>3. CASE u = t /\ ~(stats[q].max # c /\ o > stats[q].max)
      BY <1>7, <3>3, DueKinds DEF DueOK
    <3> QED BY <3>1, <3>2, <3>3
  <2> QED BY <2>2, <2>3
<1>10. \A u \in Threads : Pushed(u)' = Pushed(u) /\ Popped(u)' = Popped(u)
  BY <1>1 DEF Pushed, Popped, Busy
<1>11. \A r \in Queues : Owed(t, r)' = 0 /\ Owed(t, r) = 0
  <2>1. due'[t] = Nothing \/ due'[t].step = "cas"
    BY <1>7
  <2>2. \A r : Owed(t, r)' = 0
    BY <2>1 DEF Owed, Nothing, Sample
  <2>3. \A r : Owed(t, r) = 0
    BY <1>1, OwedNothing
  <2> QED BY <2>2, <2>3
<1>12. ASSUME NEW u \in Threads, u # t, NEW r \in Queues
       PROVE  Owed(u, r)' = Owed(u, r) /\ Racing(u, r)' = Racing(u, r)
  BY <1>1, <1>7, <1>12, ThreadKept
<1>13. ASSUME NEW r \in Queues, r # q PROVE Racing(t, r)' = FALSE /\ Racing(t, r) = FALSE
  BY <1>7, <1>p, <1>13, DueKinds DEF Racing
<1>14. ASSUME NEW r \in Queues
       PROVE  (QueueOK(r) /\ Sampled(r) /\ SumBelow(r))'
  <2>1. r \in Threads /\ r - 1 \in Threads
    BY Numbers
  <2>2. QueueOK(r) /\ Sampled(r) /\ SumBelow(r)
    BY DEF IndInv
  <2>3. Pushed(r - 1)' = Pushed(r - 1) /\ Popped(r)' = Popped(r)
    BY <1>10, <2>1
  <2>4. Owed(r - 1, r)' = Owed(r - 1, r) /\ Owed(r, r)' = Owed(r, r)
    BY <1>11, <1>12, <2>1
  <2>5. QueueOK(r)'
    BY <1>1, <2>2, <2>3, QueueKept
  <2>6. Sampled(r)'
    <3>1. stats'[r].samples = stats[r].samples /\ stats'[r].full = stats[r].full
      BY <1>5
    <3> QED BY <1>1, <2>2, <2>3, <2>4, <3>1 DEF Sampled
  <2>7. SumBelow(r)'
    BY <1>1, <1>5, <2>2, SumUnmoved
  <2> QED BY <2>5, <2>6, <2>7
<1>15. ASSUME NEW r \in Queues PROVE MaxKept(r)'
  <2>1. r \in Threads /\ r - 1 \in Threads
    BY Numbers
  <2>2. MaxKept(r)
    BY DEF IndInv
  <2>3. CASE r # q
    <3>1. Racing(r - 1, r)' = Racing(r - 1, r) /\ Racing(r, r)' = Racing(r, r)
      BY <1>12, <1>13, <2>1, <2>3
    <3> QED BY <1>1, <1>5, <2>2, <2>3, <3>1, MaxUnmoved
  <2>4. CASE r = q
    <3>1. stats[q].max <= peak[q] /\ (stats[q].max = peak[q] \/ Racing(q - 1, q) \/ Racing(q, q))
      BY <2>2, <2>4 DEF MaxKept
    <3>2. peak'[q] = peak[q] /\ stats'[q].max <= peak'[q]
      BY <1>1, <1>4, <1>5, <3>1
    <3>3. \A u \in {q - 1, q} : u # t => (Racing(u, q)' <=> Racing(u, q))
      BY <1>3, <1>4, <1>12
    <3>4. Racing(t, q) => o = peak[q]
      BY <1>p DEF Racing
    <3>5. CASE stats[q].max = c
      <4>1. stats'[q].max = o /\ stats[q].max # peak[q]
        BY <1>3, <1>4, <1>5, <3>5
      <4>2. stats'[q].max = peak'[q] \/ Racing(q - 1, q)' \/ Racing(q, q)'
        <5>1. CASE Racing(t, q)
          BY <3>2, <3>4, <4>1, <5>1
        <5>2. CASE ~Racing(t, q)
          BY <1>4, <3>1, <3>3, <4>1, <5>2
        <5> QED BY <5>1, <5>2
      <4> QED BY <2>4, <3>2, <4>2 DEF MaxKept
    <3>6. CASE stats[q].max # c /\ o > stats[q].max
      <4>1. stats'[q].max = stats[q].max /\ stats[q].max # peak[q]
        BY <1>3, <1>4, <1>5, <3>6
      <4>2. Racing(t, q) => Racing(t, q)'
        BY <1>7, <3>2, <3>4, <3>6 DEF Racing
      <4>3. Racing(q - 1, q)' \/ Racing(q, q)'
        BY <1>4, <3>1, <3>3, <4>1, <4>2
      <4> QED BY <2>4, <3>2, <4>3 DEF MaxKept
    <3>7. CASE stats[q].max # c /\ ~(o > stats[q].max)
      <4>1. stats'[q].max = stats[q].max
        BY <1>5, <3>7
      <4>2. Racing(t, q) => stats[q].max = peak[q]
        BY <1>3, <1>4, <3>1, <3>4, <3>7
      <4>3. stats'[q].max = peak'[q] \/ Racing(q - 1, q)' \/ Racing(q, q)'
        BY <1>4, <3>1, <3>2, <3>3, <4>1, <4>2
      <4> QED BY <2>4, <3>2, <4>3 DEF MaxKept
    <3> QED BY <3>5, <3>6, <3>7
  <2> QED BY <2>3, <2>4
<1>16. Timed'
  BY <1>1, TimedKept DEF IndInv
<1>17. Reported'
  BY <1>1, <1>3, NotReported DEF IndInv
<1> QED BY <1>8, <1>9, <1>14, <1>15, <1>16, <1>17 DEF IndInv

(* main reads what the threads have left, and a step that changes nothing  *)
(* of theirs keeps the rest.                                               *)
LEMMA MainKeeps ==
  ASSUME IndInv, mode' = mode, pc' = pc, hand' = hand, queue' = queue, lagPush' = lagPush,
         lagPop' = lagPop, due' = due, stats' = stats, latencies' = latencies, peak' = peak,
         result' = result \/ (Joined /\ result' = finalize_result)
  PROVE  IndInv'
<1>1. TypeOK'
  BY DEF IndInv, TypeOK
<1>2. \A t \in Threads : HandOK(t)' /\ DueOK(t)'
  BY DEF IndInv, HandOK, Place, Busy, DueOK
<1>3. \A t : Pushed(t)' = Pushed(t) /\ Popped(t)' = Popped(t)
  BY DEF Pushed, Popped, Busy
<1>4. \A t, q : Owed(t, q)' = Owed(t, q) /\ Racing(t, q)' = Racing(t, q)
  BY DEF Owed, Racing
<1>5. ASSUME NEW q \in Queues PROVE (QueueOK(q) /\ Sampled(q) /\ MaxKept(q) /\ SumBelow(q))'
  <2>1. QueueOK(q) /\ Sampled(q) /\ MaxKept(q) /\ SumBelow(q)
    BY DEF IndInv
  <2>2. QueueOK(q)'
    BY <1>3, <2>1, QueueKept
  <2>3. Sampled(q)'
    BY <1>3, <1>4, <2>1, SampledKept
  <2>4. MaxKept(q)'
    BY <1>4, <2>1, MaxUnmoved
  <2>5. SumBelow(q)'
    BY <2>1, SumUnmoved
  <2> QED BY <2>2, <2>3, <2>4, <2>5
<1>6. Timed'
  BY TimedKept DEF IndInv
<1>7. Reported'
  <2>1. finalize_result' = finalize_result /\ (Joined' <=> Joined)
    BY DEF finalize_result, SumOf, Joined
  <2> QED BY <2>1 DEF IndInv, Reported
<1> QED BY <1>1, <1>2, <1>5, <1>6, <1>7 DEF IndInv

(* Every step preserves the invariant.                                     *)
LEMMA IndInvNext == IndInv /\ [Next]_vars => IndInv'
<1> SUFFICES ASSUME IndInv, [Next]_vars PROVE IndInv'
  OBVIOUS
<1>1. ASSUME NEW t \in Threads, Run(t) PROVE IndInv'
  <2>1. CASE t # Sink /\ Push(t)
    BY <2>1, PushKeeps
  <2>2. CASE t # Sink /\ PushBlock(t)
    BY <2>2, PushBlockKeeps
  <2>3. CASE t # Sink /\ PushFull(t)
    BY <2>3, PushFullKeeps
  <2>4. CASE t # Producer /\ Pop(t)
    BY <2>4, PopKeeps
  <2>5. CASE Observe(t)
    BY <2>5, ObserveKeeps
  <2>6. CASE CompareExchange(t)
    BY <2>6, CompareExchangeKeeps
  <2> QED BY <1>1, <2>1, <2>2, <2>3, <2>4, <2>5, <2>6 DEF Run
<1>2. CASE Finalize
  BY <1>2, MainKeeps DEF Finalize
<1>3. CASE Finished
  BY <1>3, MainKeeps DEF Finished, vars
<1>4. CASE UNCHANGED vars
  BY <1>4, MainKeeps DEF vars
<1> QED BY <1>1, <1>2, <1>3, <1>4 DEF Next

(* The inductive invariant holds of every behaviour of both pipelines,     *)
(* whatever their length, their capacity and the number of events.         *)
THEOREM Invariance == Spec => []IndInv
BY IndInvInit, IndInvNext, PTL DEF Spec

(* No thread ever samples an occupancy outside 0..capacity, however old    *)
(* the cursor it reads: every variable stays in its type.                  *)
THEOREM TypeCorrect == Spec => []TypeOK
<1>1. IndInv => TypeOK
  BY DEF IndInv
<1> QED BY <1>1, Invariance, PTL
-----------------------------------------------------------------------------
(* The queues are as many as N says.                                       *)
LEMMA QueuesFinite == IsFiniteSet(Queues) /\ Cardinality(Queues) = N /\ Queues # {}
<1>1. N \in Nat /\ N >= 1 /\ Queues = 1..N
  BY Numbers DEF Queues
<1>2. IsFiniteSet(1..N) /\ Cardinality(1..N) = IF 1 > N THEN 0 ELSE N - 1 + 1
  BY <1>1, FS_Interval
<1> QED BY <1>1, <1>2

(* Once everybody has gone, the maximum of each queue is its peak and      *)
(* every call has been sampled.                                            *)
LEMMA AtTheEnd ==
  ASSUME IndInv, Joined
  PROVE  /\ hand[Sink].seq = Events
         /\ \A q \in Queues :
              /\ stats[q].max = peak[q]
              /\ stats[q].samples = 2 * (Events + 1) + (IF mode = "spsc" THEN stats[q].full ELSE 0)
<1>1. \A t \in Threads : hand[t].seq = Events /\ pc[t] = "stopped" /\ due[t] = Nothing
  BY DEF IndInv, HandOK, Place, Joined
<1>2. \A t \in Threads : /\ Pushed(t) = Events + 1 /\ Popped(t) = Events + 1
                         /\ \A q : Owed(t, q) = 0 /\ ~Racing(t, q)
  <2> TAKE t \in Threads
  <2>1. Pushed(t) = Events + 1 /\ Popped(t) = Events + 1
    BY <1>1 DEF Pushed, Popped, Busy
  <2>2. due[t] = Nothing /\ due[t].step = "none"
    BY <1>1, DueKinds
  <2>3. \A q : Owed(t, q) = 0
    BY <2>2, OwedNothing
  <2>4. \A q : ~Racing(t, q)
    BY <2>2 DEF Racing
  <2> QED BY <2>1, <2>3, <2>4
<1>3. ASSUME NEW q \in Queues
      PROVE  /\ stats[q].max = peak[q]
             /\ stats[q].samples = 2 * (Events + 1) + (IF mode = "spsc" THEN stats[q].full ELSE 0)
  <2>1. q \in Threads /\ q - 1 \in Threads /\ Events \in Nat
    BY Numbers
  <2>2. Sampled(q) /\ MaxKept(q)
    BY DEF IndInv
  <2>3. stats[q].max = peak[q]
    BY <1>2, <2>1, <2>2 DEF MaxKept
  <2> DEFINE f == IF mode = "spsc" THEN stats[q].full ELSE 0
  <2>4. stats[q].samples + 0 + 0 = (Events + 1) + (Events + 1) + f
    BY <1>2, <2>1, <2>2 DEF Sampled
  <2>5. stats[q].samples \in Int /\ f \in Int
    BY Types DEF IndInv
  <2> HIDE DEF f
  <2>6. stats[q].samples = 2 * (Events + 1) + f
    BY <2>1, <2>4, <2>5
  <2> QED BY <2>3, <2>6 DEF f
<1> QED BY <1>1, <1>3, Numbers

(* The events timed, with the work of every stage.                         *)
LEMMA AllTimed ==
  ASSUME IndInv, hand[Sink].seq = Events
  PROVE  latencies = [k \in 1..Events |->
                        [seq |-> k - 1, work |-> [s \in 1..N |-> s], stop |-> FALSE]]
<1>1. Len(latencies) = Events /\ \A k \in 1..Events : latencies[k] = Event(N, k - 1)
  BY DEF IndInv, Timed
<1>2. latencies \in Seq(EventRecord) /\ Events \in Nat
  BY Numbers DEF IndInv, TypeOK
<1>3. latencies = [k \in 1..Events |-> latencies[k]]
  BY <1>1, <1>2, LenProperties
<1>4. ASSUME NEW k \in 1..Events
      PROVE  Event(N, k - 1) = [seq |-> k - 1, work |-> [s \in 1..N |-> s], stop |-> FALSE]
  <2>1. k - 1 # Events
    BY <1>2
  <2> QED BY <2>1 DEF Event
<1>5. \A k \in 1..Events :
        latencies[k] = [seq |-> k - 1, work |-> [s \in 1..N |-> s], stop |-> FALSE]
  BY <1>1, <1>4
<1> QED BY <1>3, <1>5

(* The report follows from the invariant: the sums are those of what each  *)
(* queue has counted.                                                      *)
LEMMA ReportFollows ==
  ASSUME IndInv
  PROVE  ReportExact
<1> SUFFICES ASSUME result # NoResult
             PROVE  /\ latencies = [k \in 1..Events |->
                         [seq |-> k - 1, work |-> [s \in 1..N |-> s], stop |-> FALSE]]
                    /\ result.max = Max({peak[q] : q \in Queues})
                    /\ result.samples = 2 * N * (Events + 1) + (IF mode = "spsc" THEN result.full ELSE 0)
                    /\ result.sum <= result.samples * result.max
  BY DEF ReportExact
<1> DEFINE samples == [q \in Queues |-> stats[q].samples]
           sums == [q \in Queues |-> stats[q].sum]
           fulls == [q \in Queues |-> stats[q].full]
           M == {peak[q] : q \in Queues}
<1>1. Joined /\ result = finalize_result
  BY DEF IndInv, Reported
<1>2. /\ hand[Sink].seq = Events
      /\ \A q \in Queues :
           /\ stats[q].max = peak[q]
           /\ stats[q].samples = 2 * (Events + 1) + (IF mode = "spsc" THEN stats[q].full ELSE 0)
  BY <1>1, AtTheEnd
<1>3. latencies = [k \in 1..Events |->
                     [seq |-> k - 1, work |-> [s \in 1..N |-> s], stop |-> FALSE]]
  BY <1>2, AllTimed
<1>4. {stats[q].max : q \in Queues} = M
  BY <1>2
<1>5. /\ result.max = Max(M)
      /\ result.samples = SumFunctionOnSet(samples, Queues)
      /\ result.sum = SumFunctionOnSet(sums, Queues)
      /\ result.full = SumFunctionOnSet(fulls, Queues)
  <2>1. result.max = Max({stats[q].max : q \in Queues})
    BY <1>1 DEF finalize_result
  <2>2. result.max = Max(M)
    <3> HIDE DEF M
    <3> QED BY <1>4, <2>1
  <2>3. /\ result.samples = SumFunctionOnSet(samples, Queues)
        /\ result.sum = SumFunctionOnSet(sums, Queues)
        /\ result.full = SumFunctionOnSet(fulls, Queues)
    BY <1>1 DEF finalize_result, SumOf
  <2> QED BY <2>2, <2>3
<1>6. \A q \in Queues : /\ samples[q] \in Nat /\ sums[q] \in Nat /\ fulls[q] \in Nat
                        /\ samples[q] = stats[q].samples /\ fulls[q] = stats[q].full
                        /\ sums[q] <= samples[q] * peak[q] /\ peak[q] \in Nat
  <2>1. \A q \in Queues : /\ stats[q].samples \in Nat /\ stats[q].sum \in Nat
                          /\ stats[q].full \in Nat /\ peak[q] \in Nat
    BY Types, Numbers DEF IndInv
  <2>2. \A q \in Queues : stats[q].sum <= stats[q].samples * peak[q]
    BY DEF IndInv, SumBelow
  <2> QED BY <2>1, <2>2
<1>7. Max(M) \in Nat /\ \A q \in Queues : peak[q] <= Max(M)
  <2>1. IsFiniteSet(M) /\ M # {} /\ M \subseteq Nat
    <3>1. M # {} /\ M \subseteq Nat
      BY <1>6, QueuesFinite
    <3>2. IsFiniteSet(M)
      <4>1. M \subseteq 0..Capacity /\ Capacity \in Nat
        BY Types, Numbers DEF IndInv
      <4>2. IsFiniteSet(0..Capacity)
        BY <4>1, FS_Interval
      <4> QED BY <4>1, <4>2, FS_Subset
    <3> QED BY <3>1, <3>2
  <2>2. Max(M) \in M /\ \A y \in M : y <= Max(M)
    <3>1. M \subseteq Int
      BY <2>1
    <3> HIDE DEF M
    <3> QED BY <2>1, <3>1, MaxMin
  <2>3. \A q \in Queues : peak[q] \in M
    OBVIOUS
  <2> HIDE DEF M
  <2> QED BY <2>1, <2>2, <2>3
<1> HIDE DEF samples, sums, fulls, M
<1>8. result.samples = 2 * N * (Events + 1) + (IF mode = "spsc" THEN result.full ELSE 0)
  <2> DEFINE c == 2 * (Events + 1)
  <2>1. c \in Int /\ N \in Nat /\ Events \in Nat /\ c * N = 2 * N * (Events + 1)
    BY Numbers
  <2>2. CASE mode = "spsc"
    <3>1. \A q \in Queues : fulls[q] \in Int /\ samples[q] = c + fulls[q]
      BY <1>2, <1>6, <2>2
    <3>2. SumFunctionOnSet(samples, Queues) = c * N + SumFunctionOnSet(fulls, Queues)
      <4>1. c \in Int
        BY <2>1
      <4>2. \A q \in Queues : fulls[q] \in Int /\ samples[q] = c + fulls[q]
        BY <3>1
      <4> HIDE DEF c
      <4>3. SumFunctionOnSet(samples, Queues)
            = c * Cardinality(Queues) + SumFunctionOnSet(fulls, Queues)
        BY ONLY <4>1, <4>2, QueuesFinite, SumShift
      <4> QED BY <4>3, QueuesFinite
    <3> QED BY <1>5, <2>1, <2>2, <3>2
  <2>3. CASE mode # "spsc"
    <3> DEFINE z == [q \in Queues |-> 0]
    <3>1. \A q \in Queues : z[q] \in Int /\ samples[q] = c + z[q] /\ z[q] \in 0..0
      BY <1>2, <1>6, <2>1, <2>3
    <3>2. SumFunctionOnSet(samples, Queues) = c * N + SumFunctionOnSet(z, Queues)
      <4>1. c \in Int
        BY <2>1
      <4>2. \A q \in Queues : z[q] \in Int /\ samples[q] = c + z[q]
        BY <3>1
      <4> HIDE DEF c, z
      <4>3. SumFunctionOnSet(samples, Queues)
            = c * Cardinality(Queues) + SumFunctionOnSet(z, Queues)
        BY ONLY <4>1, <4>2, QueuesFinite, SumShift
      <4> QED BY <4>3, QueuesFinite
    <3>3. SumFunctionOnSet(z, Queues) = 0
      <4>1. SumFunctionOnSet(z, Queues) \in 0..(0 * Cardinality(Queues))
        <5> HIDE DEF z
        <5> QED BY <3>1, QueuesFinite, SumRange
      <4> HIDE DEF z
      <4> QED BY <2>1, <4>1, QueuesFinite
    <3> HIDE DEF z, c
    <3> QED BY <1>5, <2>1, <2>3, <3>2, <3>3
  <2> QED BY <2>2, <2>3
<1>9. result.sum <= result.samples * result.max
  <2>1. ASSUME NEW q \in Queues
        PROVE  sums[q] \in Int /\ samples[q] \in Int /\ sums[q] <= samples[q] * Max(M)
    <3>1. samples[q] \in Nat /\ sums[q] \in Nat /\ peak[q] \in Nat /\ Max(M) \in Nat
          /\ sums[q] <= samples[q] * peak[q] /\ peak[q] <= Max(M)
      BY <1>6, <1>7
    <3> DEFINE m == Max(M)
               p == peak[q]
               n == samples[q]
               s == sums[q]
    <3>2. n * m = n * p + n * (m - p) /\ n * (m - p) >= 0 /\ n * m \in Int /\ n * p \in Int
      <4>1. n \in Nat /\ p \in Nat /\ m \in Nat /\ m - p \in Nat
        BY <3>1
      <4> HIDE DEF n, p, m
      <4> QED BY <4>1
    <3>3. s <= n * m
      <4> DEFINE a == n * m
                 b == n * p
                 d == n * (m - p)
      <4>1. s \in Int /\ s <= b /\ a = b + d /\ d >= 0 /\ a \in Int /\ b \in Int /\ d \in Int
        <5>1. s \in Int /\ s <= b /\ n \in Nat /\ p \in Nat /\ m \in Nat
          BY <3>1
        <5> HIDE DEF s, n, p, m
        <5> QED BY <3>2, <5>1
      <4>2. s <= a
        <5> HIDE DEF a, b, d, s
        <5> QED BY ONLY <4>1
      <4> QED BY <4>2
    <3> QED BY <3>1, <3>3
  <2>2. \A q \in Queues : sums[q] \in Int /\ samples[q] \in Int /\ sums[q] <= samples[q] * Max(M)
    BY <2>1
  <2>3. SumFunctionOnSet(sums, Queues) <= SumFunctionOnSet(samples, Queues) * Max(M)
    BY <1>7, <2>2, QueuesFinite, SumScale
  <2> QED BY <1>5, <2>3
<1> QED BY <1>3, <1>5, <1>8, <1>9 DEF M

(* The report is exact for any number of queues and events: no event is    *)
(* missed by the sink or by a stage, the race for max_occupancy loses no   *)
(* maximum, and no sample is lost or taken twice.                          *)
THEOREM Exact == Spec => []ReportExact
<1>1. IndInv => ReportExact
  BY ReportFollows
<1> QED BY <1>1, Invariance, PTL
-----------------------------------------------------------------------------
(* What FlattenSeq computes, step by step.                                 *)
Flattens(f, seqs, n) ==
  f = [i \in 1..n |-> IF i = 1 THEN seqs[i] ELSE f[i - 1] \o seqs[i]]

LEMMA FlattenIs ==
  ASSUME NEW n \in Nat, n >= 1, NEW seqs, Len(seqs) = n, NEW g, Flattens(g, seqs, n)
  PROVE  FlattenSeq(seqs) = g[n]
<1> DEFINE h == CHOOSE f : Flattens(f, seqs, n)
           P == {i \in Nat : i + 1 <= n => h[i + 1] = g[i + 1]}
<1>1. FlattenSeq(seqs) = h[n]
  BY DEF FlattenSeq, Flattens
<1>2. Flattens(h, seqs, n)
  OBVIOUS
<1> HIDE DEF h
<1>3. 0 \in P
  BY <1>2 DEF Flattens
<1>4. ASSUME NEW i \in Nat, i \in P PROVE i + 1 \in P
  <2> SUFFICES ASSUME (i + 1) + 1 <= n PROVE h[(i + 1) + 1] = g[(i + 1) + 1]
    OBVIOUS
  <2>1. h[i + 1] = g[i + 1]
    BY <1>4
  <2> DEFINE j == (i + 1) + 1
  <2>2. j \in 1..n /\ j # 1 /\ j - 1 = i + 1
    OBVIOUS
  <2> HIDE DEF j
  <2>3. h[j] = h[j - 1] \o seqs[j] /\ g[j] = g[j - 1] \o seqs[j]
    BY <1>2, <2>2 DEF Flattens
  <2>4. h[j] = g[j]
    BY <2>1, <2>2, <2>3
  <2> QED BY <2>4 DEF j
<1>5. Nat \subseteq P
  <2> HIDE DEF P
  <2> QED BY <1>3, <1>4, InductionOnNat
<1>6. n - 1 \in P
  BY <1>5
<1>7. (n - 1) + 1 = n
  OBVIOUS
<1> QED BY <1>1, <1>6, <1>7

(* The values of the events a + 1 to b.                                    *)
Window(a, b) == [k \in 1..(b - a) |-> <<Producer, (a + k) + 1>>]
Pairs == {Producer} \X Int

LEMMA WindowFacts ==
  ASSUME NEW a \in Int, NEW b \in Int, a <= b
  PROVE  /\ Window(a, b) \in Seq(Pairs) /\ Len(Window(a, b)) = b - a
         /\ \A k \in 1..(b - a) : Window(a, b)[k] = <<Producer, (a + k) + 1>>
<1>1. b - a \in Nat
  OBVIOUS
<1>2. \A k \in 1..(b - a) : <<Producer, (a + k) + 1>> \in Pairs
  BY DEF Pairs
<1>3. Window(a, b) \in [1..(b - a) -> Pairs]
  BY <1>2 DEF Window
<1>4. Window(a, b) \in Seq(Pairs) /\ Len(Window(a, b)) = b - a
  BY <1>1, <1>3
<1>5. \A k \in 1..(b - a) : Window(a, b)[k] = <<Producer, (a + k) + 1>>
  BY DEF Window
<1> QED BY <1>4, <1>5

(* A sequence that counts on is a window.                                  *)
LEMMA IsWindow ==
  ASSUME NEW a \in Int, NEW b \in Int, a <= b, NEW s \in Seq(Pairs), Len(s) = b - a,
         \A k \in 1..(b - a) : s[k] = <<Producer, (a + k) + 1>>
  PROVE  s = Window(a, b)
<1> PICK w : w = Window(a, b)
  OBVIOUS
<1>1. /\ w \in Seq(Pairs) /\ Len(w) = b - a
      /\ \A k \in 1..(b - a) : w[k] = <<Producer, (a + k) + 1>>
  BY WindowFacts
<1> PICK n : n = b - a
  OBVIOUS
<1>2. Len(s) = n /\ Len(w) = n /\ \A k \in 1..n : s[k] = w[k]
  BY <1>1
<1>3. s = w
  BY ONLY s \in Seq(Pairs), <1>1, <1>2, SeqEqual
<1> QED BY <1>3

(* Windows that meet make one.                                             *)
LEMMA WindowConcat ==
  ASSUME NEW a \in Int, NEW b \in Int, NEW c \in Int, a <= b, b <= c
  PROVE  Window(a, b) \o Window(b, c) = Window(a, c)
<1> DEFINE u == Window(a, b)
           v == Window(b, c)
<1>1. /\ u \in Seq(Pairs) /\ Len(u) = b - a
      /\ \A k \in 1..(b - a) : u[k] = <<Producer, (a + k) + 1>>
  BY WindowFacts
<1>2. /\ v \in Seq(Pairs) /\ Len(v) = c - b
      /\ \A k \in 1..(c - b) : v[k] = <<Producer, (b + k) + 1>>
  BY WindowFacts
<1> HIDE DEF u, v
<1>3. /\ u \o v \in Seq(Pairs) /\ Len(u \o v) = c - a
      /\ \A k \in 1..(c - a) : (u \o v)[k] = IF k <= b - a THEN u[k] ELSE v[k - (b - a)]
  BY <1>1, <1>2, ConcatProperties
<1>4. ASSUME NEW k \in 1..(c - a) PROVE (u \o v)[k] = <<Producer, (a + k) + 1>>
  <2>1. CASE k <= b - a
    BY <1>1, <1>3, <2>1
  <2>2. CASE ~(k <= b - a)
    <3>1. k - (b - a) \in 1..(c - b) /\ (b + (k - (b - a))) + 1 = (a + k) + 1
      BY <2>2
    <3> QED BY <1>2, <1>3, <2>2, <3>1
  <2> QED BY <2>1, <2>2
<1>5. u \o v = Window(a, c)
  <2> PICK s : s = u \o v
    OBVIOUS
  <2>1. s \in Seq(Pairs) /\ Len(s) = c - a
    BY <1>3
  <2>2. \A k \in 1..(c - a) : s[k] = <<Producer, (a + k) + 1>>
    BY <1>4
  <2>3. a <= c
    OBVIOUS
  <2>4. s = Window(a, c)
    BY ONLY a \in Int, c \in Int, <2>1, <2>2, <2>3, IsWindow
  <2> QED BY <2>4
<1> QED BY <1>5 DEF u, v

(* A push lengthens the window and a pop shortens it.                      *)
LEMMA WindowMoves ==
  ASSUME NEW a \in Int, NEW b \in Int, a <= b
  PROVE  /\ Window(a, b + 1) = Append(Window(a, b), <<Producer, (b + 1) + 1>>)
         /\ a < b => /\ Window(a, b) # <<>> /\ Head(Window(a, b)) = <<Producer, (a + 1) + 1>>
                     /\ Tail(Window(a, b)) = Window(a + 1, b)
<1> DEFINE w == Window(a, b)
           e == <<Producer, (b + 1) + 1>>
<1>1. /\ w \in Seq(Pairs) /\ Len(w) = b - a
      /\ \A k \in 1..(b - a) : w[k] = <<Producer, (a + k) + 1>>
  BY WindowFacts
<1>2. e \in Pairs
  BY DEF Pairs
<1> HIDE DEF w
<1>3. Append(w, e) = Window(a, b + 1)
  <2> DEFINE s == Append(w, e)
  <2>1. /\ s \in Seq(Pairs) /\ Len(s) = (b + 1) - a
        /\ \A k \in 1..(b - a) : s[k] = w[k]
        /\ s[(b - a) + 1] = e
    <3> HIDE DEF e
    <3> QED BY <1>1, <1>2, AppendProperties
  <2> HIDE DEF s
  <2>2. ASSUME NEW k \in 1..((b + 1) - a) PROVE s[k] = <<Producer, (a + k) + 1>>
    <3>1. CASE k \in 1..(b - a)
      BY <1>1, <2>1, <3>1
    <3>2. CASE k = (b - a) + 1
      <4>1. a + k = b + 1
        BY <3>2
      <4> QED BY <2>1, <3>2, <4>1
    <3> QED BY <3>1, <3>2
  <2>3. s = Window(a, b + 1)
    <3>1. b + 1 \in Int /\ a <= b + 1
      OBVIOUS
    <3> QED BY ONLY a \in Int, <2>1, <2>2, <3>1, IsWindow
  <2> QED BY <2>3 DEF s
<1>4. ASSUME a < b
      PROVE  w # <<>> /\ Head(w) = <<Producer, (a + 1) + 1>> /\ Tail(w) = Window(a + 1, b)
  <2>1. w # <<>>
    BY <1>1, <1>4, EmptySeq
  <2>2. Head(w) = w[1] /\ w[1] = <<Producer, (a + 1) + 1>>
    BY <1>1, <1>4, <2>1
  <2> DEFINE s == Tail(w)
  <2>3. /\ s \in Seq(Pairs) /\ Len(s) = b - (a + 1)
        /\ \A k \in 1..(b - (a + 1)) : s[k] = w[k + 1]
    BY <1>1, <1>4, <2>1, HeadTailProperties
  <2> HIDE DEF s
  <2>4. ASSUME NEW k \in 1..(b - (a + 1)) PROVE s[k] = <<Producer, ((a + 1) + k) + 1>>
    <3>1. k + 1 \in 1..(b - a) /\ a + (k + 1) = (a + 1) + k
      OBVIOUS
    <3> QED BY <1>1, <2>3, <3>1
  <2>5. s = Window(a + 1, b)
    BY <1>4, <2>3, <2>4, IsWindow
  <2> QED BY <2>1, <2>2, <2>5 DEF s
<1> QED BY <1>3, <1>4 DEF w
-----------------------------------------------------------------------------
(* Events that count on have the values of a window.                       *)
LEMMA ValuesOf ==
  ASSUME NEW v \in Seq(EventRecord), NEW a \in Int, \A k \in 1..Len(v) : v[k].seq = a + k
  PROVE  Values(v) = Window(a, a + Len(v))
<1> DEFINE n == Len(v)
<1>1. n \in Nat /\ DOMAIN v = 1..n
  OBVIOUS
<1>2. Values(v) = [k \in 1..n |-> <<Producer, v[k].seq + 1>>]
  BY <1>1 DEF Values
<1>3. \A k \in 1..n : <<Producer, v[k].seq + 1>> = <<Producer, (a + k) + 1>>
  OBVIOUS
<1> HIDE DEF n
<1>4. Values(v) = [k \in 1..n |-> <<Producer, (a + k) + 1>>]
  BY <1>2, <1>3
<1>5. (a + n) - a = n
  BY <1>1
<1>6. Window(a, a + n) = [k \in 1..n |-> <<Producer, (a + k) + 1>>]
  BY <1>5 DEF Window
<1> QED BY <1>4, <1>6 DEF n

(* The last event that has gone into queue q or into the hand that feeds   *)
(* it.                                                                     *)
Edge(q) == IF q = 1 THEN Pushed(0) - 1 ELSE hand[q - 1].seq

(* A queue and the hand that feeds it hold the events after the one its    *)
(* thread has in hand.                                                     *)
LEMMA PartIs ==
  ASSUME IndInv, NEW q \in Queues
  PROVE  /\ hand[q].seq \in Int /\ Edge(q) \in Int
         /\ hand[q].seq <= Edge(q) /\ Edge(q) <= hand[q].seq + (Capacity + 1)
         /\ Values(queue[q] \o InHand(q - 1)) = Window(hand[q].seq, Edge(q))
<1> DEFINE a == hand[q].seq
           n == Len(queue[q])
           t == q - 1
           v == queue[q] \o InHand(t)
<1>1. TypeOK /\ QueueOK(q) /\ q \in Threads /\ t \in Threads /\ (q = 1 <=> t = Producer)
      /\ HandOK(t) /\ Capacity \in Nat /\ q \in Nat
  BY Numbers DEF IndInv, Producer
<1>2. /\ queue[q] \in Seq(EventRecord) /\ n \in Nat /\ a \in Int
      /\ hand[t] \in EventRecord /\ hand[t].seq \in Int
  BY <1>1, Types
<1>3. n <= Capacity
  <2>1. lagPop[q] \in Nat /\ lagPop[q] <= Capacity - Len(queue[q])
    BY <1>1 DEF TypeOK
  <2> QED BY <1>1, <1>2, <2>1
<1>4. Pushed(t) = (a + 1) + n /\ \A k \in 1..n : queue[q][k] = Event(t, a + k)
  BY <1>1 DEF QueueOK, Popped
<1>5. \A k \in 1..n : queue[q][k].seq = a + k
  <2>1. t \in Nat
    BY <1>1, Numbers
  <2>2. ASSUME NEW k \in 1..n PROVE Event(t, a + k).seq = a + k
    <3>1. a + k \in Int
      BY <1>2
    <3> QED BY <2>1, <3>1, EventFacts
  <2> QED BY <1>4, <2>2
<1>6. Edge(q) = IF t = Producer THEN Pushed(t) - 1 ELSE hand[t].seq
  BY <1>1 DEF Edge, Producer
<1>7. CASE t # Producer /\ Busy(t)
  <2>1. InHand(t) = <<hand[t]>> /\ Pushed(t) = hand[t].seq
    BY <1>7 DEF InHand, Pushed, Busy
  <2>2. Edge(q) = a + (n + 1)
    <3> HIDE DEF a, n, t
    <3> QED BY <1>2, <1>4, <1>6, <1>7, <2>1
  <2>3. v \in Seq(EventRecord) /\ Len(v) = n + 1
        /\ (\A k \in 1..n : v[k] = queue[q][k]) /\ v[n + 1] = hand[t]
    <3> PICK e : e = hand[t]
      OBVIOUS
    <3>1. e \in EventRecord /\ v = queue[q] \o <<e>>
      BY <1>2, <2>1
    <3> PICK s \in Seq(EventRecord) : s = queue[q]
      BY <1>2
    <3>2. <<e>> \in Seq(EventRecord) /\ Len(<<e>>) = 1 /\ <<e>>[1] = e
      BY <3>1
    <3> PICK w : w = <<e>>
      OBVIOUS
    <3> PICK m \in Nat : m = Len(s)
      OBVIOUS
    <3>3. /\ s \o w \in Seq(EventRecord) /\ Len(s \o w) = m + 1
          /\ \A k \in 1..(m + 1) : (s \o w)[k] = IF k <= m THEN s[k] ELSE w[k - m]
      BY <3>2, ConcatProperties
    <3>4. (m + 1) - m = 1 /\ m + 1 \in 1..(m + 1) /\ ~(m + 1 <= m)
          /\ \A k \in 1..m : k \in 1..(m + 1) /\ k <= m
      OBVIOUS
    <3>5. (s \o w)[m + 1] = e /\ \A k \in 1..m : (s \o w)[k] = s[k]
      BY <3>2, <3>3, <3>4
    <3> QED BY <3>1, <3>3, <3>5
  <2>4. hand[t].seq = a + (n + 1)
    BY <1>6, <1>7, <2>2
  <2> HIDE DEF v
  <2>5. \A k \in 1..Len(v) : v[k].seq = a + k
    <3>1. ASSUME NEW k \in 1..(n + 1) PROVE v[k].seq = a + k
      <4>1. CASE k \in 1..n
        BY <1>5, <2>3, <4>1
      <4>2. CASE k = n + 1
        BY <2>3, <2>4, <4>2
      <4> QED BY <1>2, <4>1, <4>2
    <3> QED BY <2>3, <3>1
  <2>6. Values(v) = Window(a, a + Len(v))
    BY <1>2, <2>3, <2>5, ValuesOf
  <2>7. Values(v) = Window(a, Edge(q))
    BY <2>2, <2>3, <2>6
  <2>8. Edge(q) \in Int /\ a <= Edge(q) /\ Edge(q) <= a + (Capacity + 1)
    <3> HIDE DEF a, n
    <3> QED BY <1>1, <1>2, <1>3, <2>2
  <2> QED BY <1>2, <2>7, <2>8 DEF v
<1>8. CASE ~(t # Producer /\ Busy(t))
  <2>1. InHand(t) = <<>>
    BY <1>8 DEF InHand, Busy
  <2>2. Edge(q) = a + n
    <3>1. t # Producer => Pushed(t) = hand[t].seq + 1
      BY <1>8 DEF Pushed
    <3> HIDE DEF a, n, t
    <3> QED BY <1>2, <1>4, <1>6, <3>1
  <2>3. v = queue[q]
    BY <1>2, <2>1, ConcatEmptySeq
  <2>4. Values(queue[q]) = Window(a, a + Len(queue[q]))
    BY <1>2, <1>5, ValuesOf
  <2>5. Values(v) = Window(a, Edge(q))
    <3> HIDE DEF v
    <3> QED BY <2>2, <2>3, <2>4
  <2>6. Edge(q) \in Int /\ a <= Edge(q) /\ Edge(q) <= a + (Capacity + 1)
    <3> HIDE DEF a, n
    <3> QED BY <1>1, <1>2, <1>3, <2>2
  <2> QED BY <1>2, <2>5, <2>6
<1> QED BY <1>7, <1>8

(* No thread is ahead of one before it, and between two neighbours there   *)
(* is at most a full queue and a hand.                                     *)
LEMMA Spread ==
  ASSUME IndInv, NEW q \in Queues
  PROVE  /\ hand[N].seq \in Int /\ hand[q].seq \in Int
         /\ hand[N].seq <= hand[q].seq
         /\ hand[q].seq <= hand[N].seq + (N - q) * (Capacity + 1)
<1> DEFINE P == {k \in Nat : k <= N - 1 =>
                   /\ hand[N].seq <= hand[N - k].seq
                   /\ hand[N - k].seq <= hand[N].seq + k * (Capacity + 1)}
<1>1. N \in Nat /\ N >= 1 /\ Queues = 1..N /\ Capacity + 1 \in Nat /\ N \in Queues
  BY Numbers DEF Queues
<1>2. \A r \in Queues : hand[r].seq \in Int
  BY PartIs
<1>3. 0 \in P
  <2>1. N - 0 = N /\ 0 * (Capacity + 1) = 0
    BY <1>1
  <2> QED BY <1>1, <1>2, <2>1
<1>4. ASSUME NEW k \in Nat, k \in P PROVE k + 1 \in P
  <2> SUFFICES ASSUME k + 1 <= N - 1
               PROVE  /\ hand[N].seq <= hand[N - (k + 1)].seq
                      /\ hand[N - (k + 1)].seq <= hand[N].seq + (k + 1) * (Capacity + 1)
    OBVIOUS
  <2> DEFINE r == N - k
  <2>1. r \in Queues /\ r # 1 /\ r - 1 = N - (k + 1) /\ r - 1 \in Queues /\ k <= N - 1
    BY <1>1
  <2>2. Edge(r) = hand[r - 1].seq
    BY <2>1 DEF Edge
  <2> HIDE DEF r
  <2>3. hand[r].seq <= hand[r - 1].seq /\ hand[r - 1].seq <= hand[r].seq + (Capacity + 1)
    BY <2>1, <2>2, PartIs
  <2>4. hand[N].seq <= hand[r].seq /\ hand[r].seq <= hand[N].seq + k * (Capacity + 1)
    BY <1>4, <2>1 DEF r
  <2>5. (k + 1) * (Capacity + 1) = k * (Capacity + 1) + (Capacity + 1)
        /\ k * (Capacity + 1) \in Int
    BY <1>1
  <2>6. hand[N].seq \in Int /\ hand[r].seq \in Int /\ hand[r - 1].seq \in Int
    BY <1>1, <1>2, <2>1
  <2> DEFINE c == k * (Capacity + 1)
  <2>c. c \in Int /\ hand[N].seq <= hand[r].seq /\ hand[r].seq <= hand[N].seq + c
    BY ONLY <2>4, <2>5
  <2> HIDE DEF c
  <2>7. hand[N].seq <= hand[r - 1].seq /\ hand[r - 1].seq <= hand[N].seq + (c + (Capacity + 1))
    BY ONLY <1>1, <2>3, <2>c, <2>6
  <2> DEFINE d == (k + 1) * (Capacity + 1)
  <2>e. d = c + (Capacity + 1)
    BY ONLY <2>5 DEF c
  <2> HIDE DEF d
  <2>8. hand[r - 1].seq <= hand[N].seq + d
    BY ONLY <2>e, <2>7
  <2> QED BY ONLY <2>1, <2>7, <2>8 DEF d
<1>5. Nat \subseteq P
  <2> HIDE DEF P
  <2> QED BY <1>3, <1>4, InductionOnNat
<1>6. N - q \in P /\ N - q \in Nat /\ N - q <= N - 1 /\ N - (N - q) = q
  <2> HIDE DEF P
  <2> QED BY <1>1, <1>5
<1> QED BY <1>1, <1>2, <1>6

(* Between the producer and the sink are the events after the one the sink *)
(* has in hand, in order.                                                  *)
LEMMA InFlightIs ==
  ASSUME IndInv
  PROVE  InFlight = Window(hand[N].seq, Pushed(0) - 1)
<1> DEFINE part(k) == Values(queue[N + 1 - k] \o InHand(N - k))
           seqs == [k \in 1..N |-> part(k)]
           a == hand[N].seq
           g == [k \in 1..N |-> Window(a, Edge(N + 1 - k))]
<1>1. N \in Nat /\ N >= 1 /\ Queues = 1..N /\ N \in Queues
  BY Numbers DEF Queues
<1>2. ASSUME NEW k \in 1..N
      PROVE  /\ N + 1 - k \in Queues /\ (N + 1 - k) - 1 = N - k
             /\ seqs[k] = Window(hand[N + 1 - k].seq, Edge(N + 1 - k))
  <2>1. N + 1 - k \in Queues /\ (N + 1 - k) - 1 = N - k
    BY <1>1
  <2> PICK q \in Queues : q = N + 1 - k
    BY <2>1
  <2>2. Values(queue[q] \o InHand(q - 1)) = Window(hand[q].seq, Edge(q))
    BY PartIs
  <2>3. q - 1 = N - k
    BY <2>1
  <2>4. part(k) = Window(hand[q].seq, Edge(q))
    BY <2>2, <2>3
  <2> QED BY <2>1, <2>4
<1>3. Len(seqs) = N
  <2> HIDE DEF part
  <2> QED BY <1>1
<1>4. InFlight = FlattenSeq(seqs)
  BY DEF InFlight
<1> HIDE DEF part, seqs
<1>5. ASSUME NEW k \in 1..N
      PROVE  g[k] = IF k = 1 THEN seqs[k] ELSE g[k - 1] \o seqs[k]
  <2>1. g[k] = Window(a, Edge(N + 1 - k))
    OBVIOUS
  <2>2. CASE k = 1
    <3>1. N + 1 - k = N
      BY <1>1, <2>2
    <3>2. seqs[k] = Window(hand[N].seq, Edge(N))
      BY <1>2, <3>1
    <3> QED BY <2>1, <2>2, <3>1, <3>2
  <2>3. CASE k # 1
    <3> DEFINE q == N + 1 - k
    <3>1. /\ k - 1 \in 1..N /\ N + 1 - (k - 1) = q + 1 /\ q + 1 # 1 /\ (q + 1) - 1 = q
          /\ q \in Queues /\ q + 1 \in Queues
      BY <1>1, <2>3
    <3>2. seqs[k] = Window(hand[q].seq, Edge(q))
      BY <1>2
    <3>3. g[k - 1] = Window(a, Edge(N + 1 - (k - 1)))
      BY <3>1
    <3> HIDE DEF q, g
    <3>4. Edge(q + 1) = hand[q].seq
      BY <3>1 DEF Edge
    <3>5. g[k - 1] = Window(a, hand[q].seq)
      BY <3>1, <3>3, <3>4
    <3>6. a \in Int /\ hand[q].seq \in Int /\ a <= hand[q].seq
      BY <3>1, Spread
    <3>7. Edge(q) \in Int /\ hand[q].seq <= Edge(q)
      BY <3>1, PartIs
    <3>8. Window(a, hand[q].seq) \o Window(hand[q].seq, Edge(q)) = Window(a, Edge(q))
      <4> HIDE DEF a
      <4> QED BY <3>6, <3>7, WindowConcat
    <3>9. g[k] = Window(a, Edge(q))
      BY <2>1 DEF q
    <3> QED BY <2>3, <3>2, <3>5, <3>8, <3>9
  <2> QED BY <2>2, <2>3
<1>6. Flattens(g, seqs, N)
  <2>1. g = [k \in 1..N |-> g[k]]
    OBVIOUS
  <2> HIDE DEF g
  <2> QED BY <1>5, <2>1 DEF Flattens
<1>7. g[N] = Window(a, Pushed(0) - 1)
  <2>1. N + 1 - N = 1 /\ N \in 1..N
    BY <1>1
  <2> QED BY <2>1 DEF Edge
<1>8. FlattenSeq(seqs) = g[N]
  <2> HIDE DEF g, a
  <2> QED BY <1>1, <1>3, <1>6, FlattenIs
<1> QED BY <1>4, <1>7, <1>8

(* What the abstract channel has sent and handed out.                      *)
LEMMA Ends ==
  ASSUME IndInv
  PROVE  /\ hand[N].seq \in -1..Events /\ Pushed(0) \in Nat
         /\ hand[N].seq <= Pushed(0) - 1
         /\ (IF pc[0] = "stopped" THEN Events + 1 ELSE hand[0].seq) = Pushed(0)
         /\ hand[N] = NoEvent <=> hand[N].seq = -1
<1>1. /\ TypeOK /\ HandOK(0) /\ HandOK(N) /\ N \in Queues /\ 0 \in Threads /\ N \in Threads
      /\ N \in Nat /\ N >= 1 /\ 1 \in Queues /\ Events \in Nat
      /\ pc[0] \in {"push", "waiting", "pop", "stopped"}
  <2>1. /\ N \in Queues /\ 0 \in Threads /\ N \in Threads
        /\ N \in Nat /\ N >= 1 /\ 1 \in Queues /\ Events \in Nat
    BY Numbers DEF Producer, Sink, Queues
  <2>2. TypeOK /\ HandOK(0) /\ HandOK(N)
    BY <2>1 DEF IndInv
  <2>3. pc[0] \in {"push", "waiting", "pop", "stopped"}
    BY <2>1, <2>2 DEF TypeOK
  <2> QED BY <2>1, <2>2, <2>3
<1>2. hand[0].seq \in -1..Events /\ hand[N].seq \in -1..Events
  BY <1>1 DEF HandOK
<1>3. (IF pc[0] = "stopped" THEN Events + 1 ELSE hand[0].seq) = Pushed(0) /\ Pushed(0) \in Nat
  <2>1. Place(0)
    BY <1>1 DEF HandOK
  <2>2. pc[0] # "pop" /\ (Busy(0) => hand[0].seq >= 0) /\ (pc[0] = "stopped" => hand[0].seq = Events)
    BY <2>1 DEF Place, Producer
  <2> QED BY <1>1, <1>2, <2>2 DEF Pushed, Busy
<1>4. hand[N].seq <= Pushed(0) - 1
  <2>1. hand[1].seq <= Edge(1) /\ Edge(1) = Pushed(0) - 1 /\ hand[1].seq \in Int
    BY <1>1, PartIs DEF Edge
  <2>2. hand[N].seq <= hand[1].seq
    BY <1>1, Spread
  <2> QED BY <1>2, <1>3, <2>1, <2>2
<1>5. hand[N] = NoEvent <=> hand[N].seq = -1
  <2>1. NoEvent.seq = -1
    BY DEF NoEvent
  <2>2. hand[N].seq = -1 => hand[N] = NoEvent
    BY <1>1 DEF HandOK
  <2> QED BY <2>1, <2>2
<1> QED BY <1>2, <1>3, <1>4, <1>5

(* The producer finds room only while the pipeline has room.               *)
LEMMA RoomLeft ==
  ASSUME IndInv, Push(0)
  PROVE  (Pushed(0) - 1) - hand[N].seq < N * Capacity + N - 1
<1>1. /\ N \in Nat /\ N >= 1 /\ Capacity \in Nat /\ 1 \in Queues /\ N \in Queues
      /\ TypeOK /\ QueueOK(1)
  BY Numbers DEF IndInv, Queues
<1>2. /\ hand[1].seq \in Int /\ hand[N].seq \in Int /\ queue[1] \in Seq(EventRecord)
      /\ lagPop[1] \in Nat
  BY <1>1, Types, Numbers
<1>3. Len(queue[1]) \in Nat /\ Len(queue[1]) < Capacity
  <2>1. PICK lag \in 0..lagPop[0 + 1] : HasRoom(0 + 1, lag)
    BY DEF Push
  <2>2. 0 + 1 = 1
    OBVIOUS
  <2>3. lag \in Nat /\ Len(queue[1]) + lag < Capacity
    BY <1>2, <2>1, <2>2 DEF HasRoom
  <2> QED BY <1>1, <1>2, <2>3
<1>4. Pushed(0) = (hand[1].seq + 1) + Len(queue[1])
  <2>1. 1 - 1 = 0
    OBVIOUS
  <2> QED BY <1>1, <2>1 DEF QueueOK, Popped
<1>5. hand[1].seq <= hand[N].seq + (N - 1) * (Capacity + 1)
  BY <1>1, Spread
<1>6. (N - 1) * (Capacity + 1) = N * Capacity + N - Capacity - 1 /\ N * Capacity \in Int
  BY <1>1
<1> DEFINE x == hand[1].seq
           y == hand[N].seq
           n == Len(queue[1])
           c == N * Capacity
           d == (N - 1) * (Capacity + 1)
<1>7. /\ x \in Int /\ y \in Int /\ n \in Nat /\ n < Capacity /\ c \in Int /\ x <= y + d
      /\ d = c + N - Capacity - 1 /\ Pushed(0) = (x + 1) + n
  BY ONLY <1>2, <1>3, <1>4, <1>5, <1>6
<1> HIDE DEF x, y, n, c, d
<1>8. (Pushed(0) - 1) - y < c + N - 1
  BY ONLY <1>1, <1>7
<1> QED BY ONLY <1>8 DEF y, c
-----------------------------------------------------------------------------
(* What the abstract channel has sent, holds and has handed out, in terms  *)
(* of the event the sink has in hand and of those the producer has pushed. *)
Channel ==
  /\ hand[N].seq \in Int /\ hand[N].seq >= -1 /\ Pushed(0) \in Nat
  /\ hand[N].seq <= Pushed(0) - 1
  /\ InFlight = Window(hand[N].seq, Pushed(0) - 1)
  /\ (IF pc[0] = "stopped" THEN Events + 1 ELSE hand[0].seq) = Pushed(0)
  /\ hand[N] = NoEvent <=> hand[N].seq = -1

LEMMA ChannelHolds == IndInv => Channel
<1> SUFFICES ASSUME IndInv PROVE Channel
  OBVIOUS
<1>1. hand[N].seq \in Int /\ hand[N].seq >= -1
  BY Ends, Numbers
<1> QED BY <1>1, Ends, InFlightIs DEF Channel

(* A step that neither hands an event in nor takes one out.                *)
LEMMA ChannelKept ==
  ASSUME Channel, Channel', Pushed(0)' = Pushed(0), hand'[N] = hand[N]
  PROVE  UNCHANGED Fifo!vars
<1>1. InFlight' = InFlight
  BY DEF Channel, Window
<1>2. (IF pc'[0] = "stopped" THEN Events + 1 ELSE hand'[0].seq)
        = IF pc[0] = "stopped" THEN Events + 1 ELSE hand[0].seq
  BY DEF Channel
<1> QED BY <1>1, <1>2 DEF Fifo!vars, Producer, Sink

(* The producer's push is the channel's.                                   *)
LEMMA PushIsFifo ==
  ASSUME IndInv, Channel, Channel', Push(0)
  PROVE  Fifo!Push(0)
<1> DEFINE a == hand[N].seq
           p == Pushed(0)
<1>1. 0 \in Threads /\ N \in Threads /\ 0 # N /\ Sink = N /\ Producer = 0
  BY Numbers DEF Producer, Sink
<1>2. Pushed(0)' = p + 1 /\ hand'[N] = hand[N]
  BY <1>1, PushHand
<1>3. a \in Int /\ p \in Nat /\ p - 1 \in Int /\ a <= p - 1 /\ InFlight = Window(a, p - 1)
  BY DEF Channel
<1>4. InFlight' = Window(a, (p - 1) + 1)
  <2>1. InFlight' = Window(hand[N].seq, Pushed(0) - 1)'
    BY DEF Channel
  <2>2. (p + 1) - 1 = (p - 1) + 1
    BY <1>3
  <2> QED BY <1>2, <2>1, <2>2 DEF Window
<1>5. /\ Len(InFlight) = (p - 1) - a
      /\ InFlight' = Append(InFlight, <<Producer, ((p - 1) + 1) + 1>>)
  <2> HIDE DEF a, p
  <2> QED BY <1>3, <1>4, WindowFacts, WindowMoves
<1>6. Len(InFlight) < N * Capacity + N - 1
  BY <1>5, RoomLeft
<1>7. ((p - 1) + 1) + 1 = p + 1
  BY <1>3
<1>8. /\ (IF pc[0] = "stopped" THEN Events + 1 ELSE hand[0].seq) = p
      /\ (IF pc'[0] = "stopped" THEN Events + 1 ELSE hand'[0].seq) = p + 1
  BY <1>2 DEF Channel
<1> HIDE DEF a, p
<1> QED BY <1>1, <1>2, <1>5, <1>6, <1>7, <1>8 DEF Fifo!Push

(* The sink's pop is the channel's.                                        *)
LEMMA PopIsFifo ==
  ASSUME IndInv, Channel, Channel', Pop(N)
  PROVE  Fifo!Pop(N)
<1> DEFINE a == hand[N].seq
           p == Pushed(0)
<1>1. 0 \in Threads /\ N \in Threads /\ 0 # N /\ Sink = N /\ Producer = 0
  BY Numbers DEF Producer, Sink
<1>2. hand'[N].seq = a + 1 /\ hand'[0] = hand[0] /\ pc'[0] = pc[0]
  BY <1>1, PopHand
<1>3. Pushed(0)' = p
  BY <1>2 DEF Pushed, Busy
<1>4. a \in Int /\ a >= -1 /\ p \in Nat /\ p - 1 \in Int /\ a <= p - 1 /\ InFlight = Window(a, p - 1)
  BY DEF Channel
<1>5. a < p - 1
  <2>1. hand'[N].seq <= Pushed(0)' - 1
    BY DEF Channel
  <2> HIDE DEF a, p
  <2> QED BY <1>2, <1>3, <1>4, <2>1
<1>6. InFlight' = Window(a + 1, p - 1)
  <2>1. InFlight' = Window(hand[N].seq, Pushed(0) - 1)'
    BY DEF Channel
  <2> QED BY <1>2, <1>3, <2>1 DEF Window
<1>7. /\ InFlight # <<>> /\ Head(InFlight) = <<Producer, (a + 1) + 1>>
      /\ InFlight' = Tail(InFlight)
  <2> HIDE DEF a, p
  <2> QED BY <1>4, <1>5, <1>6, WindowMoves
<1>8. hand'[N] # NoEvent
  <2>1. hand'[N].seq # -1
    <3> HIDE DEF a
    <3> QED BY <1>2, <1>4
  <2> QED BY <2>1 DEF Channel
<1> HIDE DEF a, p
<1> QED BY <1>1, <1>2, <1>7, <1>8 DEF Fifo!Pop

(* Every step of a pipeline is a step of the channel or leaves it alone.   *)
LEMMA StepIsFifo ==
  ASSUME IndInv, Channel, Channel', [Next]_vars
  PROVE  [Fifo!Next]_Fifo!vars
<1>1. 0 \in Threads /\ N \in Threads /\ 0 # N /\ Sink = N /\ Producer = 0
  BY Numbers DEF Producer, Sink
<1>2. ASSUME hand'[0] = hand[0], pc'[0] = pc[0], hand'[N] = hand[N]
      PROVE  UNCHANGED Fifo!vars
  BY <1>2, ChannelKept DEF Pushed, Busy
<1>3. ASSUME NEW t \in Threads, Run(t) PROVE [Fifo!Next]_Fifo!vars
  <2>1. CASE t # Sink /\ Push(t)
    <3>1. CASE t = 0
      BY <1>1, <2>1, <3>1, PushIsFifo DEF Fifo!Next
    <3>2. CASE t # 0
      BY <1>1, <1>2, <2>1, <3>2, PushHand
    <3> QED BY <3>1, <3>2
  <2>2. CASE t # Sink /\ PushBlock(t)
    <3>1. /\ pc[t] = "push" /\ pc' = [pc EXCEPT ![t] = "waiting"] /\ hand' = hand
          /\ pc \in [Threads -> {"push", "waiting", "pop", "stopped"}]
      BY <2>2 DEF PushBlock, IndInv, TypeOK
    <3>2. Pushed(0)' = Pushed(0)
      BY <1>1, <3>1 DEF Pushed, Busy
    <3> QED BY <3>1, <3>2, ChannelKept
  <2>3. CASE t # Sink /\ PushFull(t)
    BY <1>2, <2>3 DEF PushFull
  <2>4. CASE t # Producer /\ Pop(t)
    <3>1. CASE t = N
      BY <1>1, <2>4, <3>1, PopIsFifo DEF Fifo!Next
    <3>2. CASE t # N
      BY <1>1, <1>2, <2>4, <3>2, PopHand
    <3> QED BY <3>1, <3>2
  <2>5. CASE Observe(t)
    BY <1>2, <2>5 DEF Observe
  <2>6. CASE CompareExchange(t)
    BY <1>2, <2>6 DEF CompareExchange
  <2> QED BY <1>3, <2>1, <2>2, <2>3, <2>4, <2>5, <2>6 DEF Run
<1>4. CASE Finalize
  BY <1>2, <1>4 DEF Finalize
<1>5. CASE Finished
  BY <1>2, <1>5 DEF Finished, vars
<1>6. CASE UNCHANGED vars
  BY <1>2, <1>6 DEF vars
<1> QED BY <1>3, <1>4, <1>5, <1>6 DEF Next

(* A whole pipeline implements BoundedFifo with N * Capacity + N - 1       *)
(* places: the producer's push_wait or try_push is the channel's push, the *)
(* sink's pop_wait or try_pop its pop, and whatever else the threads do to *)
(* the events between them, none is lost, overtaken or handed on twice.    *)
THEOREM Refinement == Spec => PipelineIsFifo
<1>1. Init => Fifo!Init
  <2> SUFFICES ASSUME Init PROVE Fifo!Init
    OBVIOUS
  <2>1. Channel
    BY IndInvInit, ChannelHolds
  <2>2. Producer = 0 /\ Sink = N /\ 0 \in Threads /\ N \in Threads /\ N # 0
    BY Numbers DEF Producer, Sink
  <2>3. hand[N] = NoEvent /\ pc[0] = "push" /\ hand[0] = NewEvent(0)
    BY <2>2 DEF Init
  <2>4. hand[N].seq = -1 /\ hand[0].seq = 0
    BY <2>3 DEF NoEvent, NewEvent
  <2>5. Pushed(0) = 0
    BY <2>3, <2>4 DEF Pushed, Busy
  <2>6. InFlight = Window(-1, -1)
    <3>1. 0 - 1 = -1
      OBVIOUS
    <3> QED BY <2>1, <2>4, <2>5, <3>1 DEF Channel
  <2>7. Window(-1, -1) = <<>>
    <3>1. Window(-1, -1) \in Seq(Pairs) /\ Len(Window(-1, -1)) = (-1) - (-1)
      BY WindowFacts
    <3>2. (-1) - (-1) = 0
      OBVIOUS
    <3> QED BY <3>1, <3>2, EmptySeq
  <2> QED BY <2>2, <2>3, <2>4, <2>6, <2>7 DEF Fifo!Init, Fifo!Nothing
<1>2. (IndInv => Channel)'
  BY ChannelHolds, PTL
<1>3. IndInv /\ IndInv' /\ [Next]_vars => [Fifo!Next]_Fifo!vars
  BY <1>2, ChannelHolds, StepIsFifo
<1> QED BY <1>1, <1>3, Invariance, PTL DEF Spec, PipelineIsFifo
=============================================================================
