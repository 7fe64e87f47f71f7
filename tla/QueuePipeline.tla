---------------------------- MODULE QueuePipeline ----------------------------
(***************************************************************************)
(* The two pipelines of bench_queue_pipeline: a producer, a worker between *)
(* each queue and the next, and a sink, over bounded blocking queues       *)
(* (run_normal_queue_pipeline) or over SPSC rings on which the threads     *)
(* spin (run_spsc_pipeline), with the statistics both threads of a queue   *)
(* update without a lock.                                                  *)
(*                                                                         *)
(* Thread t pops from queue t, does stage t's work and pushes to queue     *)
(* t + 1.  A queue is what BoundedBlockingQueue and SpscRingBuffer show it *)
(* to be, a bounded FIFO; of the ring's cursors is kept how far each       *)
(* thread's view lags behind the other's.  Clocks and percentiles are left *)
(* out.                                                                    *)
(***************************************************************************)
EXTENDS Integers, Sequences, SequencesExt

CONSTANTS
  N,          \* kQueuesInPipeline
  Capacity,   \* places of a queue; one less than the slots of a ring
  Events,     \* events the producer sends before the stop event
  MaxSpins    \* bound: failed try_push calls per ring

ASSUME PipelineAssumption ==
  /\ N \in Nat \ {0} /\ Capacity \in Nat \ {0} /\ Events \in Nat /\ MaxSpins \in Nat

VARIABLES
  mode,       \* which of the two pipelines runs
  pc,         \* where each thread is
  hand,       \* the event each thread holds; the last one it held
  queue,      \* the events in each queue
  lagPush,    \* pushes the popping thread has not seen yet
  lagPop,     \* pops the pushing thread has not seen yet
  due,        \* what each thread has left of its call of observe
  stats,      \* QueueStats
  latencies,  \* the events the sink has timed
  result,     \* BenchmarkResult
  peak        \* history: the largest occupancy observe was called with

vars == <<mode, pc, hand, queue, lagPush, lagPop, due, stats, latencies, result, peak>>

Threads == 0..N
Queues == 1..N
Producer == 0
Sink == N

NewEvent(i) == [seq |-> i, work |-> <<>>, stop |-> i = Events]
NoEvent == [seq |-> -1, work |-> <<>>, stop |-> FALSE]
do_stage_work(e, stage) == [e EXCEPT !.work = Append(@, stage)]

NewStats == [full |-> 0, samples |-> 0, sum |-> 0, max |-> 0]
Nothing == [step |-> "none"]
Sample(q) == [step |-> "sample", queue |-> q]
NoResult == [state |-> "running"]

Init ==
  /\ mode \in {"normal", "spsc"}
  /\ pc = [t \in Threads |-> IF t = Producer THEN "push" ELSE "pop"]
  /\ hand = [t \in Threads |-> IF t = Producer THEN NewEvent(0) ELSE NoEvent]
  /\ queue = [q \in Queues |-> <<>>]
  /\ lagPush = [q \in Queues |-> 0] /\ lagPop = [q \in Queues |-> 0]
  /\ due = [t \in Threads |-> Nothing]
  /\ stats = [q \in Queues |-> NewStats]
  /\ latencies = <<>>
  /\ result = NoResult
  /\ peak = [q \in Queues |-> 0]
-----------------------------------------------------------------------------
(* A store to a ring's cursor may stay unseen; the mutex hides nothing.    *)
Unseen(lag) == IF mode = "spsc" THEN lag + 1 ELSE lag

(* Where a thread goes once its event is in the next queue.  The stop      *)
(* event is the last one.                                                  *)
AfterPush(t) ==
  IF hand[t].stop THEN "stopped" ELSE IF t = Producer THEN "push" ELSE "pop"

AfterPopKeepsStop(t, e) ==
  IF e.stop THEN "stopped" ELSE IF t # Sink THEN "push" ELSE "pop"
AfterPop(t, e) ==   \* a worker hands the stop event on before it leaves
  IF t # Sink THEN "push" ELSE IF e.stop THEN "stopped" ELSE "pop"

HasRoomOffByOne(q, lag) == Len(queue[q]) + lag <= Capacity
HasRoom(q, lag) == Len(queue[q]) + lag < Capacity

(* push_wait after its wait, or a try_push that succeeds: some value the   *)
(* thread may read of the other's cursor leaves room.                      *)
Push(t) ==
  LET q == t + 1
  IN  /\ pc[t] \in {"push", "waiting"} /\ due[t] = Nothing
      /\ \E lag \in 0..lagPop[q] :
           /\ HasRoom(q, lag)
           /\ lagPop' = [lagPop EXCEPT ![q] = lag]
      /\ queue' = [queue EXCEPT ![q] = Append(@, hand[t])]
      /\ lagPush' = [lagPush EXCEPT ![q] = Unseen(@)]
      /\ stats' = IF pc[t] = "waiting" THEN [stats EXCEPT ![q].full = @ + 1] ELSE stats
      /\ hand' = IF t = Producer /\ ~hand[t].stop
                 THEN [hand EXCEPT ![t] = NewEvent(@.seq + 1)] ELSE hand
      /\ pc' = [pc EXCEPT ![t] = AfterPush(t)]
      /\ due' = [due EXCEPT ![t] = Sample(q)]
      /\ UNCHANGED <<mode, latencies, result, peak>>

(* push_wait finds the queue full and sleeps, remembering had_to_wait.     *)
PushBlock(t) ==
  LET q == t + 1
  IN  /\ mode = "normal" /\ pc[t] = "push" /\ due[t] = Nothing
      /\ ~HasRoom(q, 0)
      /\ pc' = [pc EXCEPT ![t] = "waiting"]
      /\ UNCHANGED <<mode, hand, queue, lagPush, lagPop, due, stats, latencies, result, peak>>

(* push_spin: try_push fails and leaves the event where it is.  After      *)
(* MaxSpins failures the other thread's cursor is no longer read stale.    *)
PushFullMoves(t) ==
  LET q == t + 1
  IN  /\ mode = "spsc" /\ pc[t] = "push" /\ due[t] = Nothing
      /\ ~HasRoom(q, lagPop[q]) /\ stats[q].full < MaxSpins
      /\ stats' = [stats EXCEPT ![q].full = @ + 1]
      /\ hand' = [hand EXCEPT ![t] = NoEvent]
      /\ UNCHANGED <<mode, pc, due, queue, lagPush, lagPop, latencies, result, peak>>
PushFull(t) ==
  LET q == t + 1
  IN  /\ mode = "spsc" /\ pc[t] = "push" /\ due[t] = Nothing
      /\ ~HasRoom(q, lagPop[q]) /\ stats[q].full < MaxSpins
      /\ stats' = [stats EXCEPT ![q].full = @ + 1]
      /\ due' = [due EXCEPT ![t] = Sample(q)]
      /\ UNCHANGED <<mode, pc, hand, queue, lagPush, lagPop, latencies, result, peak>>

(* pop_wait, or the try_pop that succeeds, and what the thread does with   *)
(* the event before it touches a queue again.  A failed try_pop changes    *)
(* nothing.                                                                *)
Pop(t) ==
  LET e == Head(queue[t])
  IN  /\ pc[t] = "pop" /\ due[t] = Nothing
      /\ queue[t] # <<>>
      /\ \E lag \in 0..lagPush[t] :
           /\ lag < Len(queue[t])
           /\ lagPush' = [lagPush EXCEPT ![t] = lag]
      /\ queue' = [queue EXCEPT ![t] = Tail(@)]
      /\ lagPop' = [lagPop EXCEPT ![t] = Unseen(@)]
      /\ hand' = [hand EXCEPT ![t] = IF e.stop THEN e ELSE do_stage_work(e, t)]
      /\ latencies' = IF t = Sink /\ ~e.stop THEN Append(latencies, hand'[t]) ELSE latencies
      /\ pc' = [pc EXCEPT ![t] = AfterPop(t, e)]
      /\ due' = [due EXCEPT ![t] = Sample(t)]
      /\ UNCHANGED <<mode, stats, result, peak>>
-----------------------------------------------------------------------------
(* size_approx as the pushing and as the popping thread of a queue may see *)
(* it: its own cursor is exact, the other's may be old.                    *)
size_approx(t, q) ==
  IF t = q THEN {Len(queue[q]) - lag : lag \in 0..lagPush[q]}
           ELSE {Len(queue[q]) + lag : lag \in 0..lagPop[q]}

(* observe: the sample, the two fetch_adds and the load of max_occupancy.  *)
Observe(t) ==
  LET q == due[t].queue
  IN  /\ due[t].step = "sample"
      /\ \E occupancy \in size_approx(t, q) :
           /\ lagPush' = IF t = q THEN [lagPush EXCEPT ![q] = Len(queue[q]) - occupancy] ELSE lagPush
           /\ lagPop' = IF t = q THEN lagPop ELSE [lagPop EXCEPT ![q] = occupancy - Len(queue[q])]
           /\ stats' = [stats EXCEPT ![q].samples = @ + 1, ![q].sum = @ + occupancy]
           /\ peak' = [peak EXCEPT ![q] = Max({@, occupancy})]
           /\ due' = [due EXCEPT ![t] =
                        IF occupancy > stats[q].max
                        THEN [step |-> "cas", queue |-> q, occupancy |-> occupancy,
                              current |-> stats[q].max]
                        ELSE Nothing]
      /\ UNCHANGED <<mode, pc, hand, queue, latencies, result>>

(* One turn of the compare_exchange_weak loop.                             *)
StoreMax(t) ==
  LET d == due[t]
  IN  /\ d.step = "cas"
      /\ stats' = [stats EXCEPT ![d.queue].max = d.occupancy]
      /\ due' = [due EXCEPT ![t] = Nothing]
      /\ UNCHANGED <<mode, pc, hand, queue, lagPush, lagPop, latencies, result, peak>>
CompareExchange(t) ==
  LET d == due[t]
      max == stats[d.queue].max
  IN  /\ d.step = "cas"
      /\ stats' = IF max = d.current THEN [stats EXCEPT ![d.queue].max = d.occupancy] ELSE stats
      /\ due' = [due EXCEPT ![t] = IF max # d.current /\ d.occupancy > max
                                   THEN [d EXCEPT !.current = max] ELSE Nothing]
      /\ UNCHANGED <<mode, pc, hand, queue, lagPush, lagPop, latencies, result, peak>>

(* The main thread joins the others and adds the statistics up.            *)
SumOf(f) == SumFunctionOnSet(f, Queues)

Joined == \A t \in Threads : pc[t] = "stopped" /\ due[t] = Nothing

finalize_result ==
  [state |-> "done", timed |-> Len(latencies),
   sum |-> SumOf([q \in Queues |-> stats[q].sum]),
   samples |-> SumOf([q \in Queues |-> stats[q].samples]),
   max |-> Max({stats[q].max : q \in Queues}),
   full |-> SumOf([q \in Queues |-> stats[q].full])]

Finalize ==
  /\ result = NoResult
  /\ Joined
  /\ result' = finalize_result
  /\ UNCHANGED <<mode, pc, hand, queue, lagPush, lagPop, due, stats, latencies, peak>>
-----------------------------------------------------------------------------
Run(t) ==
  \/ t # Sink /\ (Push(t) \/ PushBlock(t) \/ PushFull(t))
  \/ t # Producer /\ Pop(t)
  \/ Observe(t)
  \/ CompareExchange(t)

Finished == result # NoResult /\ UNCHANGED vars

Next == (\E t \in Threads : Run(t)) \/ Finalize \/ Finished

(* Threads run until they block, and main waits for them.                  *)
Spec == Init /\ [][Next]_vars /\ (\A t \in Threads : WF_vars(Run(t))) /\ WF_vars(Finalize)
-----------------------------------------------------------------------------
EventRecord == [seq : Int, work : Seq(Nat), stop : BOOLEAN]
QueueStats == [full : Nat, samples : Nat, sum : Nat, max : 0..Capacity]
Dues ==
  {Nothing} \cup {Sample(q) : q \in Queues} \cup
  [step : {"cas"}, queue : Queues, occupancy : 0..Capacity, current : 0..Capacity]

(* Every variable stays in its type; a view never lags behind by more than *)
(* the queue holds or has room for, so no sample leaves 0..Capacity.       *)
TypeOK ==
  /\ mode \in {"normal", "spsc"}
  /\ pc \in [Threads -> {"push", "waiting", "pop", "stopped"}]
  /\ hand \in [Threads -> EventRecord]
  /\ queue \in [Queues -> Seq(EventRecord)]
  /\ lagPush \in [Queues -> Nat] /\ lagPop \in [Queues -> Nat]
  /\ \A q \in Queues :
       /\ lagPush[q] <= Len(queue[q]) /\ lagPop[q] <= Capacity - Len(queue[q])
       /\ mode = "normal" => lagPush[q] = 0 /\ lagPop[q] = 0
  /\ due \in [Threads -> Dues]
  /\ stats \in [Queues -> QueueStats]
  /\ latencies \in Seq(EventRecord)
  /\ peak \in [Queues -> 0..Capacity]

(* The events between the producer and the sink, oldest first: those of    *)
(* each queue and the one in the hand of the thread that feeds it.         *)
InHand(t) == IF t # Producer /\ pc[t] \in {"push", "waiting"} THEN <<hand[t]>> ELSE <<>>
Values(events) == [k \in DOMAIN events |-> <<Producer, events[k].seq + 1>>]
InFlight ==
  FlattenSeq([k \in 1..N |-> Values(queue[N + 1 - k] \o InHand(N - k))])

Fifo == INSTANCE BoundedFifo WITH
  Producers <- {Producer}, Consumers <- {Sink}, Bound <- N * Capacity + N - 1,
  sent <- [t \in {Producer} |-> IF pc[t] = "stopped" THEN Events + 1 ELSE hand[t].seq],
  pending <- InFlight,
  taken <- [t \in {Sink} |-> IF hand[t] = NoEvent THEN <<>> ELSE <<Producer, hand[t].seq + 1>>]

(* A whole pipeline, stop event included, is again a bounded FIFO channel  *)
(* from the producer to the sink: whatever the stages do to an event, none *)
(* is lost, overtaken or handed on twice.                                  *)
PipelineIsFifo == Fifo!Init /\ [][Fifo!Next]_(Fifo!vars)

(* What the benchmark reports is what happened: every event was timed once *)
(* and after every stage's work, max_occupancy is the largest sample in    *)
(* spite of the race for it, and each push, pop and failed push was        *)
(* sampled once.                                                           *)
ReportExact ==
  result # NoResult =>
    /\ latencies = [k \in 1..Events |-> [seq |-> k - 1, work |-> [s \in 1..N |-> s], stop |-> FALSE]]
    /\ result.max = Max({peak[q] : q \in Queues})
    /\ result.samples = 2 * N * (Events + 1) + (IF mode = "spsc" THEN result.full ELSE 0)
    /\ result.sum <= result.samples * result.max

(* Every run ends: the stop event reaches every thread, nobody waits for a *)
(* thread that has gone, and main gets its result.                         *)
Terminates == <>(result # NoResult)
=============================================================================
