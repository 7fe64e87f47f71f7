------------------------ MODULE SpscRingBufferProofs ------------------------
(***************************************************************************)
(* Proofs about SpscRingBuffer for every capacity and any number of        *)
(* pushed values.                                                          *)
(***************************************************************************)
EXTENDS SpscRingBuffer, ArithmeticTheorems

(* The slot of the k-th value.                                             *)
SlotOf(k) == (k - 1) % Capacity

(* Values constructed, moved out and destroyed so far.                     *)
Constructed == IF pcP = "publish" THEN Pushed + 1 ELSE Pushed
Moved == IF pcC \in {"destroy", "release"} THEN Popped + 1 ELSE Popped
Destroyed == IF pcC = "release" THEN Popped + 1 ELSE Popped

(* The inductive invariant.  Entry j of a cursor's log is the slot of      *)
(* value j, a release store carries exactly the accesses before it, what a *)
(* thread has read bounds how far it may go, and each slot holds what the  *)
(* last push or pop of it left there.                                      *)
Cursors ==
  /\ \A j \in 1..Len(headLog) : headLog[j] = SlotOf(j)
  /\ \A j \in 1..Len(tailLog) : tailLog[j] = SlotOf(j)

Views == tailSync = tailSeen - 1 /\ headSync = headSeen - 1

Room ==
  /\ Pushed < tailSync + Capacity
  /\ pcP \in {"construct", "publish"} => Pushed + 1 < tailSync + Capacity
  /\ Popped <= headSync
  /\ pcC \in {"move", "destroy", "release"} => Popped + 1 <= headSync

Holds(k) ==
  /\ slots[SlotOf(k)].live <=> pcP # "joined"
  /\ slots[SlotOf(k)].n = k

Vacant(k) ==
  /\ ~slots[SlotOf(k)].live
  /\ slots[SlotOf(k)].n <= Later(0, k - Capacity)

Contents ==
  /\ \A k \in (Destroyed + 1)..Constructed : Holds(k)
  /\ \A k \in (Constructed + 1)..(Destroyed + Capacity) : Vacant(k)

Stopped == pcP = "joined" <=> pcC = "joined"

IndInv ==
  /\ TypeOK
  /\ Cursors
  /\ Views
  /\ Room
  /\ Contents
  /\ Stopped
  /\ out = Moved
-----------------------------------------------------------------------------
(* The slot of a value is a slot of the array, and increment() goes from   *)
(* the slot of one value to the slot of the next.                          *)
LEMMA SlotOfStep ==
  ASSUME NEW k \in Int
  PROVE  SlotOf(k) \in Indices /\ increment(SlotOf(k)) = SlotOf(k + 1)
<1>1. Capacity \in Nat /\ Capacity > 0 /\ k - 1 \in Int
  BY CapacityAssumption
<1>2. SlotOf(k) \in Indices
  BY <1>1, DivMod DEF SlotOf, Indices
<1> DEFINE a == k - 1
<1>3. a + 1 = (k + 1) - 1 /\ a \in Int
  OBVIOUS
<1> HIDE DEF a
<1>4. ((a % Capacity) + 1) % Capacity = (a + 1) % Capacity
  <2> DEFINE d == 1
  <2>1. d \in Int
    OBVIOUS
  <2> HIDE DEF d
  <2>2. ((a % Capacity) + d) % Capacity = (a + d) % Capacity
    BY <1>1, <1>3, <2>1, ModSum
  <2> QED BY <2>2 DEF d
<1> QED BY <1>2, <1>3, <1>4 DEF SlotOf, increment, a

(* Value k + Capacity reuses the slot of value k.                          *)
LEMMA SlotOfReuse ==
  ASSUME NEW k \in Int
  PROVE  SlotOf(k + Capacity) = SlotOf(k)
<1>1. Capacity \in Nat /\ Capacity > 0 /\ k - 1 \in Int
  BY CapacityAssumption
<1>2. ((k - 1) + Capacity) % Capacity = (k - 1) % Capacity
  BY <1>1, ModShift
<1>3. (k - 1) + Capacity = (k + Capacity) - 1
  BY <1>1
<1> QED BY <1>2, <1>3 DEF SlotOf

(* Two values less than Capacity apart are in different slots.             *)
LEMMA SlotOfDistinct ==
  ASSUME NEW k \in Int, NEW m \in Int, k # m, k - m < Capacity, m - k < Capacity
  PROVE  SlotOf(k) # SlotOf(m)
<1>1. Capacity \in Nat /\ Capacity > 0 /\ k - 1 \in Int /\ m - 1 \in Int
  BY CapacityAssumption
<1>2. CASE k > m
  BY <1>1, <1>2, ModInjective, 0 < (k - 1) - (m - 1), (k - 1) - (m - 1) < Capacity
     DEF SlotOf
<1>3. CASE m > k
  BY <1>1, <1>3, ModInjective, 0 < (m - 1) - (k - 1), (m - 1) - (k - 1) < Capacity
     DEF SlotOf
<1> QED BY <1>2, <1>3

(* The facts about the cursors that every step needs.                      *)
LEMMA CursorFacts ==
  ASSUME IndInv
  PROVE  /\ Pushed \in Nat /\ Popped \in Nat
         /\ Len(headLog) = Pushed + 1 /\ Len(tailLog) = Popped + 1
         /\ head = SlotOf(Pushed + 1) /\ tail = SlotOf(Popped + 1)
         /\ head \in Indices /\ tail \in Indices
         /\ increment(head) = SlotOf(Pushed + 2)
         /\ increment(tail) = SlotOf(Popped + 2)
         /\ tailSync \in 0..Popped /\ headSync \in 0..Pushed
<1>1. Len(headLog) \in Nat \ {0} /\ Len(tailLog) \in Nat \ {0}
  BY DEF IndInv, TypeOK
<1>2. /\ Pushed \in Nat /\ Popped \in Nat
      /\ Len(headLog) = Pushed + 1 /\ Len(tailLog) = Popped + 1
  BY <1>1 DEF Pushed, Popped
<1>3. head = SlotOf(Pushed + 1) /\ tail = SlotOf(Popped + 1)
  BY <1>1, <1>2 DEF IndInv, Cursors, head, tail
<1>4. /\ SlotOf(Pushed + 1) \in Indices /\ SlotOf(Popped + 1) \in Indices
      /\ increment(SlotOf(Pushed + 1)) = SlotOf((Pushed + 1) + 1)
      /\ increment(SlotOf(Popped + 1)) = SlotOf((Popped + 1) + 1)
  BY <1>2, SlotOfStep
<1>5. (Pushed + 1) + 1 = Pushed + 2 /\ (Popped + 1) + 1 = Popped + 2
  BY <1>2
<1>6. tailSync \in 0..Popped /\ headSync \in 0..Pushed
  BY <1>2 DEF IndInv, TypeOK, Views
<1> QED BY <1>2, <1>3, <1>4, <1>5, <1>6

(* The initial state satisfies the invariant: every slot is vacant.        *)
LEMMA IndInvInit == Init => IndInv
<1> SUFFICES ASSUME Init PROVE IndInv
  OBVIOUS
<1> USE CapacityAssumption
<1>1. Len(headLog) = 1 /\ Len(tailLog) = 1 /\ Pushed = 0 /\ Popped = 0
  BY DEF Init, Pushed, Popped
<1>2. 0 \in Indices
  BY DEF Indices
<1>3. TypeOK
  BY <1>2 DEF Init, TypeOK, Slot, Indices
<1>4. Cursors
  <2>1. SlotOf(1) = 0
    BY ModIs, 0 = Capacity * 0 + 0, Capacity > 0, 1 - 1 = 0 DEF SlotOf
  <2> QED BY <1>1, <2>1 DEF Init, Cursors
<1>5. Views /\ Room /\ Stopped /\ out = Moved
  BY <1>1 DEF Init, Views, Room, Stopped, Moved
<1>6. Contents
  <2>1. Constructed = 0 /\ Destroyed = 0
    BY <1>1 DEF Init, Constructed, Destroyed
  <2>2. ASSUME NEW k \in (Constructed + 1)..(Destroyed + Capacity)
        PROVE  Vacant(k)
    <3>1. SlotOf(k) \in Indices
      BY <2>1, SlotOfStep
    <3> QED BY <2>1, <3>1 DEF Init, Vacant, Later
  <2> QED BY <2>1, <2>2 DEF Contents
<1> QED BY <1>3, <1>4, <1>5, <1>6 DEF IndInv

(* A load of the other thread's cursor moves the reader's view forward     *)
(* only.                                                                   *)
LEMMA LoadFacts ==
  ASSUME IndInv
  PROVE  /\ \A j \in 1..Len(tailLog) : LoadTail(j) =>
              /\ tailSeen' = j /\ tailSync' = j - 1 /\ tailSync' >= tailSync
              /\ tailSeen' \in 1..Len(tailLog) /\ tailSync' \in Nat
         /\ \A j \in 1..Len(headLog) : LoadHead(j) =>
              /\ headSeen' = j /\ headSync' = j - 1 /\ headSync' >= headSync
              /\ headSeen' \in 1..Len(headLog) /\ headSync' \in Nat
<1>1. Len(headLog) \in Nat /\ Len(tailLog) \in Nat
  BY CursorFacts
<1> QED
  BY <1>1 DEF IndInv, TypeOK, Views, LoadTail, LoadHead, Later, TailView, HeadView

(* The masked distance of a counted position from another is a slot count. *)
LEMMA SizeInIndices ==
  ASSUME NEW h \in Indices, NEW t \in Indices
  PROVE  size_approx(h, t) \in Indices
<1>1. Capacity \in Nat /\ Capacity > 0 /\ h - t \in Int
  BY CapacityAssumption DEF Indices
<1> QED BY <1>1, DivMod DEF size_approx, Indices

(* Steps that only load a cursor or stutter.                               *)
LEMMA IndInvRead ==
  ASSUME IndInv,
         \/ PushFull \/ PopEmpty \/ ProducerSample \/ ConsumerSample
         \/ PushBegin \/ PopBegin
  PROVE  /\ TypeOK' /\ Views'
         /\ Pushed' = Pushed /\ Popped' = Popped
         /\ Cursors'
         /\ UNCHANGED <<headLog, tailLog, slots, out>>
         /\ tailSync' >= tailSync /\ headSync' >= headSync
<1> USE CursorFacts, LoadFacts
<1>1. CASE PushFull
  BY <1>1 DEF PushFull, consumerVars, IndInv, TypeOK, Views, Cursors, Pushed, Popped
<1>2. CASE PopEmpty
  BY <1>2 DEF PopEmpty, producerVars, IndInv, TypeOK, Views, Cursors, Pushed, Popped
<1>3. CASE ProducerSample
  <2>1. PICK j \in 1..Len(tailLog) :
               LoadTail(j) /\ sizeP' = size_approx(head, tailLog[j])
    BY <1>3 DEF ProducerSample
  <2>2. tailLog[j] \in Indices
    BY DEF IndInv, TypeOK
  <2>3. sizeP' \in Indices
    BY <2>1, <2>2, SizeInIndices
  <2>4. UNCHANGED <<consumerVars, slots, headLog, pcP>>
    BY <1>3 DEF ProducerSample
  <2> QED
    BY <2>1, <2>3, <2>4 DEF consumerVars, IndInv, TypeOK, Views, Cursors,
                            Pushed, Popped
<1>4. CASE ConsumerSample
  <2>1. PICK j \in 1..Len(headLog) :
               LoadHead(j) /\ sizeC' = size_approx(headLog[j], tail)
    BY <1>4 DEF ConsumerSample
  <2>2. headLog[j] \in Indices
    BY DEF IndInv, TypeOK
  <2>3. sizeC' \in Indices
    BY <2>1, <2>2, SizeInIndices
  <2>4. UNCHANGED <<producerVars, slots, tailLog, pcC, out>>
    BY <1>4 DEF ConsumerSample
  <2> QED
    BY <2>1, <2>3, <2>4 DEF producerVars, IndInv, TypeOK, Views, Cursors,
                            Pushed, Popped
<1>5. CASE PushBegin
  BY <1>5 DEF PushBegin, consumerVars, IndInv, TypeOK, Views, Cursors, Pushed, Popped
<1>6. CASE PopBegin
  BY <1>6, SMTT(40) DEF PopBegin, producerVars, IndInv, TypeOK, Views, Cursors, Pushed, Popped
<1> QED BY <1>1, <1>2, <1>3, <1>4, <1>5, <1>6

(* The occupied window is never wider than the ring: at most Capacity - 1  *)
(* values are constructed and not destroyed.                               *)
LEMMA Window ==
  ASSUME IndInv
  PROVE  /\ Constructed \in Nat /\ Destroyed \in Nat /\ Moved \in Nat
         /\ Popped <= Destroyed /\ Destroyed <= Moved /\ Moved <= Pushed
         /\ Pushed <= Constructed /\ Constructed < Popped + Capacity
         /\ Moved <= Popped + 1
BY CursorFacts, CapacityAssumption, SMTT(40)
   DEF IndInv, Room, Constructed, Destroyed, Moved

(* Both together, as one fact to cite.                                     *)
Geometry ==
  /\ Pushed \in Nat /\ Popped \in Nat
  /\ Len(headLog) = Pushed + 1 /\ Len(tailLog) = Popped + 1
  /\ head = SlotOf(Pushed + 1) /\ tail = SlotOf(Popped + 1)
  /\ head \in Indices /\ tail \in Indices
  /\ increment(head) = SlotOf(Pushed + 2) /\ increment(tail) = SlotOf(Popped + 2)
  /\ SlotOf(Pushed + 2) \in Indices /\ SlotOf(Popped + 2) \in Indices
  /\ tailSync \in 0..Popped /\ headSync \in 0..Pushed
  /\ Constructed \in Nat /\ Destroyed \in Nat /\ Moved \in Nat
  /\ Popped <= Destroyed /\ Destroyed <= Moved /\ Moved <= Pushed
  /\ Pushed <= Constructed /\ Constructed < Popped + Capacity
  /\ Moved <= Popped + 1

LEMMA GeometryHolds == IndInv => Geometry
<1> SUFFICES ASSUME IndInv PROVE Geometry
  OBVIOUS
<1>1. SlotOf(Pushed + 2) \in Indices /\ SlotOf(Popped + 2) \in Indices
  BY CursorFacts, SlotOfStep, SMTT(40)
<1> QED BY <1>1, CursorFacts, Window DEF Geometry

(* A failed call or a sample leaves everything but a view unchanged.       *)
LEMMA IndInvIdle ==
  ASSUME IndInv, PushFull \/ PopEmpty \/ ProducerSample \/ ConsumerSample
  PROVE  IndInv'
<1>1. pcP' = pcP /\ pcC' = pcC
  BY DEF PushFull, PopEmpty, ProducerSample, ConsumerSample, producerVars, consumerVars
<1>2. Constructed' = Constructed /\ Destroyed' = Destroyed /\ Moved' = Moved
  BY <1>1, IndInvRead DEF Constructed, Destroyed, Moved
<1>3. Room'
  <2>1. /\ Pushed' = Pushed /\ Popped' = Popped
        /\ tailSync' >= tailSync /\ headSync' >= headSync
        /\ tailSync' \in Nat /\ headSync' \in Nat
    BY IndInvRead DEF TypeOK
  <2> QED BY <1>1, <2>1, CursorFacts, CapacityAssumption, SMTT(40) DEF IndInv, Room
<1>4. Contents'
  BY <1>1, <1>2, IndInvRead DEF IndInv, Contents, Holds, Vacant
<1> QED BY <1>1, <1>2, <1>3, <1>4, IndInvRead DEF IndInv, Stopped

(* The full check leaves room for one more value: the tail_ that was read  *)
(* may be old, but an old tail_ only makes the check stricter.             *)
LEMMA IndInvPushBegin ==
  ASSUME IndInv, PushBegin
  PROVE  IndInv'
<1>1. pcP = "idle" /\ pcP' = "construct" /\ pcC' = pcC
  BY DEF PushBegin, consumerVars
<1>2. Constructed' = Constructed /\ Destroyed' = Destroyed /\ Moved' = Moved
  BY <1>1, IndInvRead DEF Constructed, Destroyed, Moved
<1>3. Pushed + 1 < tailSync' + Capacity
  <2>1. PICK j \in 1..Len(tailLog) : LoadTail(j) /\ tailLog[j] # increment(head)
    BY DEF PushBegin
  <2>2. tailSync' = j - 1 /\ tailSync' >= tailSync /\ j \in Int
    BY <2>1, LoadFacts, CursorFacts
  <2>3. SlotOf(j) # SlotOf(Pushed + 2)
    BY <2>1, CursorFacts DEF IndInv, Cursors
  <2>4. SlotOf(j + Capacity) = SlotOf(j)
    BY <2>2, SlotOfReuse
  <2>5. Pushed + 2 # j + Capacity
    BY <2>3, <2>4
  <2>6. Pushed < tailSync + Capacity
    BY <1>1, CursorFacts DEF IndInv, Room
  <2> QED BY <2>2, <2>5, <2>6, CursorFacts, CapacityAssumption, SMTT(40)
<1>4. Room'
  <2>1. /\ Pushed' = Pushed /\ Popped' = Popped
        /\ tailSync' >= tailSync /\ headSync' >= headSync
        /\ tailSync' \in Nat /\ headSync' \in Nat
    BY IndInvRead DEF TypeOK
  <2> QED BY <1>1, <1>3, <2>1, CursorFacts, CapacityAssumption, SMTT(40) DEF IndInv, Room
<1>5. Contents'
  BY <1>1, <1>2, IndInvRead DEF IndInv, Contents, Holds, Vacant
<1> QED BY <1>1, <1>2, <1>4, <1>5, IndInvRead DEF IndInv, Stopped

(* The empty check leaves a value to pop.                                  *)
LEMMA IndInvPopBegin ==
  ASSUME IndInv, PopBegin
  PROVE  IndInv'
<1>1. pcC = "idle" /\ pcC' = "move" /\ pcP' = pcP
  BY DEF PopBegin, producerVars
<1>2. Constructed' = Constructed /\ Destroyed' = Destroyed /\ Moved' = Moved
  BY <1>1, IndInvRead DEF Constructed, Destroyed, Moved
<1>3. Popped + 1 <= headSync'
  <2>1. PICK j \in 1..Len(headLog) : LoadHead(j) /\ headLog[j] # tail
    BY DEF PopBegin
  <2>2. headSync' = j - 1 /\ headSync' >= headSync /\ j \in Int
    BY <2>1, LoadFacts, CursorFacts
  <2>3. SlotOf(j) # SlotOf(Popped + 1)
    BY <2>1, CursorFacts DEF IndInv, Cursors
  <2>4. j # Popped + 1
    BY <2>3
  <2>5. Popped <= headSync
    BY <1>1, CursorFacts DEF IndInv, Room
  <2> QED BY <2>2, <2>4, <2>5, CursorFacts
<1>4. Room'
  <2>1. /\ Pushed' = Pushed /\ Popped' = Popped
        /\ tailSync' >= tailSync /\ headSync' >= headSync
        /\ tailSync' \in Nat /\ headSync' \in Nat
    BY IndInvRead DEF TypeOK
  <2> QED BY <1>1, <1>3, <2>1, CursorFacts, CapacityAssumption, SMTT(40) DEF IndInv, Room
<1>5. Contents'
  BY <1>1, <1>2, IndInvRead DEF IndInv, Contents, Holds, Vacant
<1> QED BY <1>1, <1>2, <1>4, <1>5, IndInvRead DEF IndInv, Stopped

(* construct_at fills a vacant slot, and no other value of the window is   *)
(* in that slot.                                                           *)
LEMMA IndInvPushConstruct ==
  ASSUME IndInv, PushConstruct
  PROVE  IndInv'
<1>0. Geometry /\ Capacity \in Nat /\ Capacity >= 2
  BY GeometryHolds, CapacityAssumption
<1> USE <1>0 DEF Geometry
<1>1. /\ pcP = "construct" /\ pcP' = "publish" /\ pcC' = pcC
      /\ UNCHANGED <<headLog, tailLog, tailSeen, headSeen, tailSync, headSync,
                     out, sizeP, sizeC>>
      /\ slots' = [slots EXCEPT ![SlotOf(Pushed + 1)] = [live |-> TRUE, n |-> Pushed + 1]]
  BY DEF PushConstruct, consumerVars
<1>2. /\ Pushed' = Pushed /\ Popped' = Popped /\ Destroyed' = Destroyed
      /\ Moved' = Moved /\ Constructed = Pushed /\ Constructed' = Pushed + 1
  BY <1>1 DEF Pushed, Popped, Constructed, Destroyed, Moved
<1>3. TypeOK' /\ Cursors' /\ Views' /\ Stopped' /\ out' = Moved'
  <2>1. [live |-> TRUE, n |-> Pushed + 1] \in Slot
    BY DEF Slot
  <2>2. slots' \in [Indices -> Slot]
    BY <1>1, <2>1 DEF IndInv, TypeOK
  <2> QED BY <1>1, <1>2, <2>2 DEF IndInv, TypeOK, Cursors, Views, Stopped
<1>4. Room'
  BY <1>1, <1>2 DEF IndInv, Room
<1>5. Contents'
  <2>0. /\ slots \in [Indices -> Slot] /\ SlotOf(Pushed + 1) \in Indices
        /\ Pushed + 1 < Popped + Capacity
    BY <1>1 DEF IndInv, TypeOK, Room
  <2>1. \A k \in (Destroyed + 1)..(Destroyed + Capacity) :
           k # Pushed + 1 => slots'[SlotOf(k)] = slots[SlotOf(k)]
    <3> SUFFICES ASSUME NEW k \in (Destroyed + 1)..(Destroyed + Capacity), k # Pushed + 1
                 PROVE  slots'[SlotOf(k)] = slots[SlotOf(k)]
      OBVIOUS
    <3>1. SlotOf(k) # SlotOf(Pushed + 1)
      BY <2>0, SlotOfDistinct
    <3>2. SlotOf(k) \in Indices
      BY SlotOfStep
    <3> QED BY <1>1, <2>0, <3>1, <3>2
  <2>2. ASSUME NEW k \in (Destroyed + 1)..(Pushed + 1)
        PROVE  Holds(k)'
    <3>1. CASE k = Pushed + 1
      BY <1>1, <2>0, <3>1 DEF Holds
    <3>2. CASE k # Pushed + 1
      <4>1. Holds(k)
        BY <1>2, <3>2 DEF IndInv, Contents
      <4> QED BY <1>1, <2>0, <2>1, <3>2, <4>1 DEF Holds
    <3> QED BY <3>1, <3>2
  <2>3. ASSUME NEW k \in (Pushed + 2)..(Destroyed + Capacity)
        PROVE  Vacant(k)'
    <3>1. Vacant(k)
      BY <1>2 DEF IndInv, Contents
    <3> QED BY <2>1, <3>1 DEF Vacant
  <2> QED BY <1>2, <2>2, <2>3 DEF Contents
<1> QED BY <1>3, <1>4, <1>5 DEF IndInv

(* Publishing appends the next cursor and touches no slot.                 *)
LEMMA IndInvPushPublish ==
  ASSUME IndInv, PushPublish
  PROVE  IndInv'
<1>0. Geometry /\ Capacity \in Nat /\ Capacity >= 2
  BY GeometryHolds, CapacityAssumption
<1> USE <1>0 DEF Geometry
<1>1. /\ pcP = "publish" /\ pcP' = "idle" /\ pcC' = pcC
      /\ UNCHANGED <<slots, tailLog, tailSeen, headSeen, tailSync, headSync,
                     out, sizeP, sizeC>>
      /\ headLog' = Append(headLog, SlotOf(Pushed + 2))
  BY DEF PushPublish, consumerVars
<1>2. headLog \in Seq(Indices) /\ SlotOf(Pushed + 2) \in Indices
  BY SlotOfStep DEF IndInv, TypeOK
<1>3. /\ headLog' \in Seq(Indices) /\ Len(headLog') = Pushed + 2
      /\ \A j \in 1..(Pushed + 1) : headLog'[j] = headLog[j]
      /\ headLog'[Pushed + 2] = SlotOf(Pushed + 2)
  BY <1>1, <1>2
<1>4. /\ Pushed' = Pushed + 1 /\ Popped' = Popped /\ Destroyed' = Destroyed
      /\ Moved' = Moved /\ Constructed = Pushed + 1 /\ Constructed' = Constructed
  BY <1>1, <1>3 DEF Pushed, Popped, Constructed, Destroyed, Moved
<1>5. TypeOK' /\ Views' /\ Stopped' /\ out' = Moved'
  BY <1>1, <1>3, <1>4 DEF IndInv, TypeOK, Views, Stopped
<1>6. Cursors'
  BY <1>1, <1>3, SMTT(40) DEF IndInv, Cursors
<1>7. Room'
  BY <1>1, <1>4 DEF IndInv, Room
<1>8. Contents'
  BY <1>1, <1>4 DEF IndInv, Contents, Holds, Vacant
<1> QED BY <1>5, <1>6, <1>7, <1>8 DEF IndInv

(* What is moved out is the oldest value not yet moved.                    *)
LEMMA IndInvPopMove ==
  ASSUME IndInv, PopMove
  PROVE  IndInv' /\ out' = Popped + 1
<1>0. Geometry /\ Capacity \in Nat /\ Capacity >= 2
  BY GeometryHolds, CapacityAssumption
<1> USE <1>0 DEF Geometry
<1>1. /\ pcC = "move" /\ pcC' = "destroy" /\ pcP' = pcP
      /\ UNCHANGED <<slots, headLog, tailLog, tailSeen, headSeen, tailSync, headSync,
                     sizeP, sizeC>>
      /\ out' = slots[SlotOf(Popped + 1)].n
  BY DEF PopMove, producerVars
<1>2. /\ Pushed' = Pushed /\ Popped' = Popped /\ Destroyed' = Destroyed
      /\ Moved' = Popped + 1 /\ Constructed' = Constructed /\ Destroyed = Popped
  BY <1>1 DEF Pushed, Popped, Constructed, Destroyed, Moved
<1>3. Popped + 1 \in (Destroyed + 1)..Constructed
  BY <1>1, <1>2 DEF IndInv, Room
<1>4. out' = Popped + 1
  <2>1. Holds(Popped + 1)
    BY <1>3 DEF IndInv, Contents
  <2> QED BY <1>1, <2>1 DEF Holds
<1>5. TypeOK' /\ Cursors' /\ Views' /\ Stopped'
  BY <1>1, <1>4 DEF IndInv, TypeOK, Cursors, Views, Stopped
<1>6. Room'
  BY <1>1, <1>2 DEF IndInv, Room
<1>7. Contents'
  BY <1>1, <1>2 DEF IndInv, Contents, Holds, Vacant
<1> QED BY <1>2, <1>4, <1>5, <1>6, <1>7 DEF IndInv

(* destroy_at leaves the slot vacant for the value Capacity later.         *)
LEMMA IndInvPopDestroy ==
  ASSUME IndInv, PopDestroy
  PROVE  IndInv'
<1>0. Geometry /\ Capacity \in Nat /\ Capacity >= 2
  BY GeometryHolds, CapacityAssumption
<1> USE <1>0 DEF Geometry
<1>1. /\ pcC = "destroy" /\ pcC' = "release" /\ pcP' = pcP
      /\ UNCHANGED <<headLog, tailLog, tailSeen, headSeen, tailSync, headSync,
                     out, sizeP, sizeC>>
      /\ slots' = [slots EXCEPT ![SlotOf(Popped + 1)] = [live |-> FALSE, n |-> Popped + 1]]
  BY DEF PopDestroy, producerVars
<1>2. /\ Pushed' = Pushed /\ Popped' = Popped /\ Constructed' = Constructed
      /\ Moved' = Moved /\ Destroyed = Popped /\ Destroyed' = Popped + 1
  BY <1>1 DEF Pushed, Popped, Constructed, Destroyed, Moved
<1>3. TypeOK' /\ Cursors' /\ Views' /\ Stopped' /\ out' = Moved'
  <2>1. [live |-> FALSE, n |-> Popped + 1] \in Slot
    BY DEF Slot
  <2>2. slots' \in [Indices -> Slot]
    BY <1>1, <2>1 DEF IndInv, TypeOK
  <2> QED BY <1>1, <1>2, <2>2 DEF IndInv, TypeOK, Cursors, Views, Stopped
<1>4. Room'
  BY <1>1, <1>2 DEF IndInv, Room
<1>5. Contents'
  <2>0. slots \in [Indices -> Slot] /\ SlotOf(Popped + 1) \in Indices
    BY DEF IndInv, TypeOK
  <2>1. \A k \in (Popped + 2)..(Popped + Capacity) :
           slots'[SlotOf(k)] = slots[SlotOf(k)]
    <3> SUFFICES ASSUME NEW k \in (Popped + 2)..(Popped + Capacity)
                 PROVE  slots'[SlotOf(k)] = slots[SlotOf(k)]
      OBVIOUS
    <3>1. SlotOf(k) # SlotOf(Popped + 1)
      BY SlotOfDistinct
    <3>2. SlotOf(k) \in Indices
      BY SlotOfStep
    <3> QED BY <1>1, <2>0, <3>1, <3>2
  <2>2. ASSUME NEW k \in (Popped + 2)..Constructed
        PROVE  Holds(k)'
    <3>1. Holds(k)
      BY <1>2 DEF IndInv, Contents
    <3> QED BY <1>1, <2>1, <3>1 DEF Holds
  <2>3. ASSUME NEW k \in (Constructed + 1)..((Popped + 1) + Capacity)
        PROVE  Vacant(k)'
    <3>1. CASE k = (Popped + 1) + Capacity
      <4>1. SlotOf(k) = SlotOf(Popped + 1)
        BY <3>1, SlotOfReuse
      <4> QED BY <1>1, <2>0, <3>1, <4>1 DEF Vacant, Later
    <3>2. CASE k # (Popped + 1) + Capacity
      <4>1. Vacant(k) /\ k \in (Popped + 2)..(Popped + Capacity)
        BY <1>1, <1>2, <3>2 DEF IndInv, Contents, Room, Constructed
      <4> QED BY <2>1, <4>1 DEF Vacant
    <3> QED BY <3>1, <3>2
  <2> QED BY <1>2, <2>2, <2>3 DEF Contents
<1> QED BY <1>3, <1>4, <1>5 DEF IndInv

(* Releasing appends the next cursor and touches no slot.                  *)
LEMMA IndInvPopRelease ==
  ASSUME IndInv, PopRelease
  PROVE  IndInv'
<1>0. Geometry /\ Capacity \in Nat /\ Capacity >= 2
  BY GeometryHolds, CapacityAssumption
<1> USE <1>0 DEF Geometry
<1>1. /\ pcC = "release" /\ pcC' = "idle" /\ pcP' = pcP
      /\ UNCHANGED <<slots, headLog, tailSeen, headSeen, tailSync, headSync,
                     out, sizeP, sizeC>>
      /\ tailLog' = Append(tailLog, SlotOf(Popped + 2))
  BY DEF PopRelease, producerVars
<1>2. tailLog \in Seq(Indices) /\ SlotOf(Popped + 2) \in Indices
  BY SlotOfStep DEF IndInv, TypeOK
<1>3. /\ tailLog' \in Seq(Indices) /\ Len(tailLog') = Popped + 2
      /\ \A j \in 1..(Popped + 1) : tailLog'[j] = tailLog[j]
      /\ tailLog'[Popped + 2] = SlotOf(Popped + 2)
  BY <1>1, <1>2
<1>4. /\ Popped' = Popped + 1 /\ Pushed' = Pushed /\ Constructed' = Constructed
      /\ Moved' = Moved /\ Destroyed = Popped + 1 /\ Destroyed' = Destroyed
  BY <1>1, <1>3 DEF Pushed, Popped, Constructed, Destroyed, Moved
<1>5. TypeOK' /\ Views' /\ Stopped' /\ out' = Moved'
  BY <1>1, <1>3, <1>4 DEF IndInv, TypeOK, Views, Stopped
<1>6. Cursors'
  BY <1>1, <1>3, SMTT(40) DEF IndInv, Cursors
<1>7. Room'
  BY <1>1, <1>4 DEF IndInv, Room
<1>8. Contents'
  BY <1>1, <1>4 DEF IndInv, Contents, Holds, Vacant
<1> QED BY <1>5, <1>6, <1>7, <1>8 DEF IndInv

(* destroy_remaining walks exactly the slots of the values pushed and not  *)
(* popped.                                                                 *)
LEMMA RemainingIs ==
  ASSUME IndInv, pcP = "idle", pcC = "idle"
  PROVE  Remaining = {SlotOf(k) : k \in (Popped + 1)..Pushed}
<1>0. Geometry /\ Capacity \in Nat /\ Capacity > 0
  BY GeometryHolds, CapacityAssumption
<1>1. ((Pushed % Capacity) - (Popped % Capacity)) % Capacity = Pushed - Popped
  <2>1. /\ Pushed \in Int /\ Popped \in Int
        /\ 0 <= Pushed - Popped /\ Pushed - Popped < Capacity
    BY <1>0 DEF Geometry
  <2> QED BY <1>0, <2>1, ModDifference
<1>2. head = Pushed % Capacity /\ tail = Popped % Capacity
  <2>1. (Pushed + 1) - 1 = Pushed /\ (Popped + 1) - 1 = Popped
    BY <1>0 DEF Geometry
  <2> QED BY <1>0, <2>1 DEF Geometry, SlotOf
<1>3. (head - tail) % Capacity = Pushed - Popped
  BY <1>1, <1>2
<1>4. \A d \in Int : (tail + d) % Capacity = SlotOf(Popped + 1 + d)
  <2> SUFFICES ASSUME NEW d \in Int
               PROVE  (tail + d) % Capacity = SlotOf(Popped + 1 + d)
    OBVIOUS
  <2>1. ((Popped % Capacity) + d) % Capacity = (Popped + d) % Capacity
    <3>1. Popped \in Int
      BY <1>0 DEF Geometry
    <3> QED BY <1>0, <3>1, ModSum
  <2>2. (Popped + 1 + d) - 1 = Popped + d
    BY <1>0 DEF Geometry
  <2> QED BY <1>2, <2>1, <2>2 DEF SlotOf
<1>5. Remaining = {SlotOf(Popped + 1 + d) : d \in 0..((Pushed - Popped) - 1)}
  <2>1. Remaining = {(tail + d) % Capacity : d \in 0..((Pushed - Popped) - 1)}
    BY <1>3 DEF Remaining
  <2>2. \A d \in 0..((Pushed - Popped) - 1) :
           (tail + d) % Capacity = SlotOf(Popped + 1 + d)
    BY <1>0, <1>4 DEF Geometry
  <2> QED BY <2>1, <2>2
<1>6. ASSUME NEW k \in (Popped + 1)..Pushed
      PROVE  \E d \in 0..((Pushed - Popped) - 1) : SlotOf(k) = SlotOf(Popped + 1 + d)
  <2>1. /\ k - (Popped + 1) \in 0..((Pushed - Popped) - 1)
        /\ Popped + 1 + (k - (Popped + 1)) = k
    BY <1>0 DEF Geometry
  <2> QED BY <2>1
<1>7. ASSUME NEW d \in 0..((Pushed - Popped) - 1)
      PROVE  Popped + 1 + d \in (Popped + 1)..Pushed
  BY <1>0 DEF Geometry
<1> QED BY <1>5, <1>6, <1>7

(* When both threads have stopped, the live slots are those of the values  *)
(* still in the window.                                                    *)
LEMMA LiveIs ==
  ASSUME IndInv, pcP # "joined", NEW i \in Indices
  PROVE  slots[i].live <=> \E k \in (Destroyed + 1)..Constructed : i = SlotOf(k)
<1>0. Geometry /\ Capacity \in Nat /\ Capacity > 0
  BY GeometryHolds, CapacityAssumption
<1>1. PICK d \in 0..(Capacity - 1) : (Destroyed + d) % Capacity = i
  <2>1. Destroyed \in Int /\ i \in 0..(Capacity - 1)
    BY <1>0 DEF Geometry, Indices
  <2> QED BY <1>0, <2>1, ModCover
<1> DEFINE m == Destroyed + 1 + d
<1>2. m \in (Destroyed + 1)..(Destroyed + Capacity) /\ m - 1 = Destroyed + d
  BY <1>0 DEF Geometry
<1>3. i = SlotOf(m)
  BY <1>1, <1>2 DEF SlotOf
<1> HIDE DEF m
<1>4. CASE m <= Constructed
  <2>1. Holds(m)
    BY <1>0, <1>2, <1>4 DEF IndInv, Contents, Geometry
  <2>2. m \in (Destroyed + 1)..Constructed
    BY <1>0, <1>2, <1>4 DEF Geometry
  <2> QED BY <1>3, <2>1, <2>2 DEF Holds
<1>5. CASE m > Constructed
  <2>1. Vacant(m)
    BY <1>0, <1>2, <1>5 DEF IndInv, Contents, Geometry
  <2>2. ASSUME NEW k \in (Destroyed + 1)..Constructed
        PROVE  i # SlotOf(k)
    BY <1>0, <1>2, <1>3, <1>5, SlotOfDistinct DEF Geometry
  <2> QED BY <1>3, <2>1, <2>2 DEF Vacant
<1> QED BY <1>0, <1>2, <1>4, <1>5 DEF Geometry

(* The destructor turns every value left into raw storage and keeps the    *)
(* rest of the invariant.                                                  *)
LEMMA IndInvDestructor ==
  ASSUME IndInv, Destructor
  PROVE  IndInv'
<1>0. Geometry /\ Capacity \in Nat /\ Capacity >= 2
  BY GeometryHolds, CapacityAssumption
<1>1. /\ pcP = "idle" /\ pcC = "idle" /\ pcP' = "joined" /\ pcC' = "joined"
      /\ UNCHANGED <<headLog, tailLog, tailSeen, headSeen, tailSync, headSync,
                     out, sizeP, sizeC>>
      /\ slots' = [i \in Indices |-> IF i \in Remaining
                                     THEN [slots[i] EXCEPT !.live = FALSE]
                                     ELSE slots[i]]
  BY DEF Destructor
<1>2. /\ Pushed' = Pushed /\ Popped' = Popped /\ Constructed' = Constructed
      /\ Destroyed' = Destroyed /\ Moved' = Moved
      /\ Constructed = Pushed /\ Destroyed = Popped
  BY <1>1 DEF Pushed, Popped, Constructed, Destroyed, Moved
<1>3. slots \in [Indices -> Slot]
  BY DEF IndInv, TypeOK
<1>4. slots' \in [Indices -> Slot]
  BY <1>1, <1>3 DEF Slot
<1>5. TypeOK' /\ Cursors' /\ Views' /\ Stopped' /\ out' = Moved'
  BY <1>1, <1>2, <1>4 DEF IndInv, TypeOK, Cursors, Views, Stopped
<1>6. Room'
  BY <1>0, <1>1, <1>2 DEF IndInv, Room, Geometry
<1>7. Contents'
  <2>1. ASSUME NEW k \in (Popped + 1)..Pushed
        PROVE  Holds(k)'
    <3>1. SlotOf(k) \in Remaining
      BY <1>1, RemainingIs
    <3>2. SlotOf(k) \in Indices
      BY <1>0, SlotOfStep DEF Geometry
    <3>3. Holds(k)
      BY <1>2 DEF IndInv, Contents
    <3>4. /\ slots'[SlotOf(k)].live = FALSE
          /\ slots'[SlotOf(k)].n = slots[SlotOf(k)].n
      BY <1>1, <1>3, <3>1, <3>2 DEF Slot
    <3> QED BY <1>1, <3>3, <3>4 DEF Holds
  <2>2. ASSUME NEW k \in (Pushed + 1)..(Popped + Capacity)
        PROVE  Vacant(k)'
    <3>1. SlotOf(k) \in Indices
      BY <1>0, SlotOfStep DEF Geometry
    <3>2. Vacant(k)
      BY <1>2 DEF IndInv, Contents
    <3>3. /\ slots'[SlotOf(k)].live = FALSE
          /\ slots'[SlotOf(k)].n = slots[SlotOf(k)].n
      BY <1>1, <1>3, <3>1, <3>2 DEF Vacant, Slot
    <3> QED BY <3>2, <3>3 DEF Vacant
  <2> QED BY <1>2, <2>1, <2>2 DEF Contents
<1> QED BY <1>5, <1>6, <1>7 DEF IndInv

(* Every step of either thread preserves the invariant.                    *)
LEMMA IndInvNext == IndInv /\ [Next]_vars => IndInv'
<1> SUFFICES ASSUME IndInv, [Next]_vars PROVE IndInv'
  OBVIOUS
<1>1. CASE Producer
  BY <1>1, IndInvPushBegin, IndInvIdle, IndInvPushConstruct, IndInvPushPublish
     DEF Producer
<1>2. CASE Consumer
  BY <1>2, IndInvPopBegin, IndInvIdle, IndInvPopMove, IndInvPopDestroy, IndInvPopRelease
     DEF Consumer
<1>3. CASE Destructor
  BY <1>3, IndInvDestructor
<1>4. CASE UNCHANGED vars
  BY <1>4 DEF vars, producerVars, consumerVars, IndInv, TypeOK, Cursors, Views, Room,
     Contents, Holds, Vacant, Stopped, Moved, Constructed, Destroyed, Pushed, Popped
<1> QED BY <1>1, <1>2, <1>3, <1>4 DEF Next, Terminated

(* The inductive invariant holds in every reachable state.                 *)
THEOREM Invariance == Spec => []IndInv
BY IndInvInit, IndInvNext, PTL DEF Spec
-----------------------------------------------------------------------------
(* The cursors never leave the slot array, for every capacity.             *)
THEOREM TypeCorrect == Spec => []TypeOK
<1>1. IndInv => TypeOK
  BY DEF IndInv
<1> QED BY <1>1, Invariance, PTL

(* try_emplace constructs only in raw storage the consumer has given back, *)
(* and try_pop reads only objects whose construction it has synchronised   *)
(* with: the ring has no data race and no lifetime error.                  *)
THEOREM RaceFree == Spec => []SlotOwnership
<1>1. IndInv => SlotOwnership
  <2> SUFFICES ASSUME IndInv PROVE SlotOwnership
    OBVIOUS
  <2>0. Geometry /\ Capacity \in Nat /\ Capacity >= 2
    BY GeometryHolds, CapacityAssumption
  <2>1. ASSUME pcP = "construct"
        PROVE  ~slots[head].live /\ slots[head].n <= tailSync
    <3>1. Constructed = Pushed /\ Pushed + 1 < tailSync + Capacity
      BY <2>1 DEF IndInv, Room, Constructed
    <3>2. Vacant(Pushed + 1)
      BY <2>0, <3>1 DEF IndInv, Contents, Geometry
    <3>3. slots[head].n \in Nat
      BY <2>0 DEF IndInv, TypeOK, Slot, Geometry
    <3> QED BY <2>0, <3>1, <3>2, <3>3 DEF Vacant, Later, Geometry
  <2>2. ASSUME pcC \in {"move", "destroy"}
        PROVE  slots[tail].live /\ slots[tail].n <= headSync
    <3>1. /\ Destroyed = Popped /\ Popped + 1 <= headSync
          /\ pcP # "joined"
      BY <2>2 DEF IndInv, Room, Destroyed, Stopped
    <3>2. Holds(Popped + 1)
      BY <2>0, <3>1 DEF IndInv, Contents, Geometry
    <3> QED BY <2>0, <3>1, <3>2 DEF Holds, Geometry
  <2> QED BY <2>1, <2>2 DEF SlotOwnership
<1> QED BY <1>1, Invariance, PTL

(* ~SpscRingBuffer destroys each object that is left exactly once.         *)
THEOREM NothingLeaked == Spec => []DestructorExact
<1>1. IndInv => DestructorExact
  <2> SUFFICES ASSUME IndInv PROVE DestructorExact
    OBVIOUS
  <2>0. Geometry /\ Capacity \in Nat /\ Capacity > 0
    BY GeometryHolds, CapacityAssumption
  <2>1. ASSUME pcP = "idle", pcC = "idle"
        PROVE  Remaining = {i \in Indices : slots[i].live}
    <3>1. Constructed = Pushed /\ Destroyed = Popped
      BY <2>1 DEF Constructed, Destroyed
    <3>2. \A i \in Indices :
             slots[i].live <=> \E k \in (Popped + 1)..Pushed : i = SlotOf(k)
      BY <2>1, <3>1, LiveIs
    <3>3. \A k \in (Popped + 1)..Pushed : SlotOf(k) \in Indices
      BY <2>0, SlotOfStep DEF Geometry
    <3> QED BY <2>1, <3>2, <3>3, RemainingIs
  <2>2. ASSUME pcP = "joined", NEW i \in Indices
        PROVE  ~slots[i].live
    <3>1. PICK d \in 0..(Capacity - 1) : (Destroyed + d) % Capacity = i
      <4>1. Destroyed \in Int /\ i \in 0..(Capacity - 1)
        BY <2>0 DEF Geometry, Indices
      <4> QED BY <2>0, <4>1, ModCover
    <3> DEFINE m == Destroyed + 1 + d
    <3>2. m \in (Destroyed + 1)..(Destroyed + Capacity) /\ m - 1 = Destroyed + d
      BY <2>0 DEF Geometry
    <3>3. i = SlotOf(m)
      BY <3>1, <3>2 DEF SlotOf
    <3> HIDE DEF m
    <3>4. \/ m \in (Destroyed + 1)..Constructed
          \/ m \in (Constructed + 1)..(Destroyed + Capacity)
      BY <2>0, <3>2 DEF Geometry
    <3>5. Holds(m) \/ Vacant(m)
      BY <3>4 DEF IndInv, Contents
    <3> QED BY <2>2, <3>3, <3>5 DEF Holds, Vacant
  <2> QED BY <2>1, <2>2 DEF DestructorExact
<1> QED BY <1>1, Invariance, PTL

(* A size_approx() sample errs on a known side: high for the producer, low *)
(* for the consumer.                                                       *)
THEOREM SamplesBounded == Spec => SampleBounds
<1>1. ASSUME IndInv, ProducerSample
      PROVE  sizeP' >= Pushed - Popped
  <2>0. Geometry /\ Capacity \in Nat /\ Capacity > 0
    BY <1>1, GeometryHolds, CapacityAssumption
  <2>1. PICK j \in 1..Len(tailLog) :
               LoadTail(j) /\ sizeP' = size_approx(head, tailLog[j])
    BY <1>1 DEF ProducerSample
  <2> DEFINE b == j - 1
  <2>2. b \in Int /\ b <= Popped /\ tailSync <= b /\ j = b + 1
    BY <1>1, <2>0, <2>1, LoadFacts DEF Geometry
  <2> HIDE DEF b
  <2>3. Pushed \in Int /\ 0 <= Pushed - b /\ Pushed - b < Capacity
    BY <1>1, <2>0, <2>2 DEF Geometry, IndInv, Room
  <2>4. ((Pushed % Capacity) - (b % Capacity)) % Capacity = Pushed - b
    BY <2>0, <2>2, <2>3, ModDifference
  <2>5. head = Pushed % Capacity /\ tailLog[j] = b % Capacity
    <3>1. (Pushed + 1) - 1 = Pushed /\ j - 1 = b
      BY <2>2, <2>3
    <3> QED BY <1>1, <2>0, <3>1 DEF Geometry, IndInv, Cursors, SlotOf
  <2>6. sizeP' = Pushed - b
    BY <2>1, <2>4, <2>5 DEF size_approx
  <2> QED BY <2>0, <2>2, <2>6 DEF Geometry
<1>2. ASSUME IndInv, ConsumerSample
      PROVE  sizeC' <= Pushed - Popped
  <2>0. Geometry /\ Capacity \in Nat /\ Capacity > 0
    BY <1>2, GeometryHolds, CapacityAssumption
  <2>1. PICK j \in 1..Len(headLog) :
               LoadHead(j) /\ sizeC' = size_approx(headLog[j], tail)
    BY <1>2 DEF ConsumerSample
  <2> DEFINE b == j - 1
  <2>2. b \in Int /\ b <= Pushed /\ headSync <= b /\ j = b + 1
    BY <1>2, <2>0, <2>1, LoadFacts DEF Geometry
  <2> HIDE DEF b
  <2>3. Popped \in Int /\ 0 <= b - Popped /\ b - Popped < Capacity
    BY <1>2, <2>0, <2>2 DEF Geometry, IndInv, Room
  <2>4. ((b % Capacity) - (Popped % Capacity)) % Capacity = b - Popped
    BY <2>0, <2>2, <2>3, ModDifference
  <2>5. tail = Popped % Capacity /\ headLog[j] = b % Capacity
    <3>1. (Popped + 1) - 1 = Popped /\ j - 1 = b
      BY <2>2, <2>3
    <3> QED BY <1>2, <2>0, <3>1 DEF Geometry, IndInv, Cursors, SlotOf
  <2>6. sizeC' = b - Popped
    BY <2>1, <2>4, <2>5 DEF size_approx
  <2> QED BY <2>0, <2>2, <2>6 DEF Geometry
<1>3. IndInv => [ /\ ProducerSample => sizeP' >= Pushed - Popped
                  /\ ConsumerSample => sizeC' <= Pushed - Popped ]_vars
  BY <1>1, <1>2
<1> QED BY <1>3, Invariance, PTL DEF SampleBounds
-----------------------------------------------------------------------------
(* The values after the a-th, up to the b-th.                              *)
Run(a, b) == [i \in 1..(b - a) |-> <<"producer", a + i>>]

(* What the mapping reads out of the slots: the values pushed and not yet  *)
(* moved out, in order.                                                    *)
LEMMA PendingIs ==
  ASSUME IndInv
  PROVE  Pending = Run(Moved, Pushed)
<1>0. Geometry /\ Capacity \in Nat /\ Capacity > 0
  BY GeometryHolds, CapacityAssumption
<1>1. Pushed \in Int /\ Moved \in Int /\ 0 <= Pushed - Moved /\ Pushed - Moved < Capacity
  BY <1>0 DEF Geometry
<1>2. head = Pushed % Capacity /\ First = Moved % Capacity
  <2>1. (Pushed + 1) - 1 = Pushed /\ (Popped + 1) - 1 = Popped /\ (Popped + 2) - 1 = Popped + 1
    BY <1>0 DEF Geometry
  <2> QED BY <1>0, <2>1 DEF Geometry, SlotOf, First, Moved
<1>3. (head - First) % Capacity = Pushed - Moved
  BY <1>0, <1>1, <1>2, ModDifference
<1>4. ASSUME NEW i \in 1..(Pushed - Moved)
      PROVE  slots[(First + (i - 1)) % Capacity].n = Moved + i
  <2>1. i - 1 \in Int /\ Moved + (i - 1) = (Moved + i) - 1
    BY <1>1
  <2>2. ((Moved % Capacity) + (i - 1)) % Capacity = (Moved + (i - 1)) % Capacity
    <3> DEFINE d == i - 1
    <3>1. d \in Int
      BY <2>1
    <3> HIDE DEF d
    <3>2. ((Moved % Capacity) + d) % Capacity = (Moved + d) % Capacity
      BY <1>0, <1>1, <3>1, ModSum
    <3> QED BY <3>2 DEF d
  <2>3. (First + (i - 1)) % Capacity = SlotOf(Moved + i)
    BY <1>2, <2>1, <2>2 DEF SlotOf
  <2>4. Moved + i \in (Destroyed + 1)..Constructed
    BY <1>0, <1>1 DEF Geometry
  <2>5. Holds(Moved + i)
    BY <2>4 DEF IndInv, Contents
  <2> QED BY <2>3, <2>5 DEF Holds
<1> QED BY <1>3, <1>4 DEF Pending, Run

(* Appending to and removing from such a run of values.                    *)
LEMMA RunOfValues ==
  ASSUME NEW a \in Nat, NEW b \in Nat, a <= b
  PROVE  /\ Len(Run(a, b)) = b - a
         /\ Run(a, b + 1) = Append(Run(a, b), <<"producer", b + 1>>)
         /\ a < b => /\ Run(a, b) # <<>>
                     /\ Head(Run(a, b)) = <<"producer", a + 1>>
                     /\ Tail(Run(a, b)) = Run(a + 1, b)
<1> DEFINE V == {"producer"} \X Nat
<1>1. \A c \in Nat, d \in Nat : c <= d => Run(c, d) \in Seq(V) /\ Len(Run(c, d)) = d - c
  <2> SUFFICES ASSUME NEW c \in Nat, NEW d \in Nat, c <= d
               PROVE  Run(c, d) \in Seq(V) /\ Len(Run(c, d)) = d - c
    OBVIOUS
  <2>1. d - c \in Nat /\ \A i \in 1..(d - c) : <<"producer", c + i>> \in V
    OBVIOUS
  <2> HIDE DEF V
  <2>2. Run(c, d) \in [1..(d - c) -> V]
    BY <2>1 DEF Run
  <2> QED BY <2>1, <2>2
<1>2. Run(a, b + 1) = Append(Run(a, b), <<"producer", b + 1>>)
  <2>0. <<"producer", b + 1>> \in V
    OBVIOUS
  <2> HIDE DEF V
  <2>1. /\ Run(a, b) \in Seq(V) /\ Len(Run(a, b)) = b - a /\ b - a \in Nat
        /\ Len(Append(Run(a, b), <<"producer", b + 1>>)) = (b - a) + 1
        /\ Append(Run(a, b), <<"producer", b + 1>>) \in Seq(V)
    <3>1. Run(a, b) \in Seq(V) /\ Len(Run(a, b)) = b - a /\ b - a \in Nat
      BY <1>1
    <3> DEFINE e == <<"producer", b + 1>>
    <3>2. e \in V
      BY <2>0
    <3> HIDE DEF e
    <3>3. Len(Append(Run(a, b), e)) = (b - a) + 1 /\ Append(Run(a, b), e) \in Seq(V)
      BY <3>1, <3>2
    <3> QED BY <3>1, <3>3 DEF e
  <2>2. Run(a, b + 1) \in Seq(V) /\ Len(Run(a, b + 1)) = (b - a) + 1
    BY <1>1, b + 1 \in Nat, a <= b + 1, (b + 1) - a = (b - a) + 1
  <2>3. \A i \in 1..((b - a) + 1) :
           Run(a, b + 1)[i] = Append(Run(a, b), <<"producer", b + 1>>)[i]
    <3> SUFFICES ASSUME NEW i \in 1..((b - a) + 1)
                 PROVE  Run(a, b + 1)[i] = Append(Run(a, b), <<"producer", b + 1>>)[i]
      OBVIOUS
    <3>1. Run(a, b + 1)[i] = <<"producer", a + i>>
      BY DEF Run
    <3>2. CASE i = (b - a) + 1
      <4>1. Append(Run(a, b), <<"producer", b + 1>>)[i] = <<"producer", b + 1>>
        BY <2>0, <2>1, <3>2
      <4>2. a + i = b + 1
        BY <3>2
      <4> QED BY <3>1, <4>1, <4>2
    <3>3. CASE i \in 1..(b - a)
      <4>1. Run(a, b)[i] = <<"producer", a + i>>
        BY <3>3 DEF Run
      <4>2. Append(Run(a, b), <<"producer", b + 1>>)[i] = Run(a, b)[i]
        BY <2>0, <2>1, <3>3
      <4> QED BY <3>1, <4>1, <4>2
    <3>4. i = (b - a) + 1 \/ i \in 1..(b - a)
      BY <2>1
    <3> QED BY <3>2, <3>3, <3>4
  <2> QED BY <2>1, <2>2, <2>3
<1>3. ASSUME a < b
      PROVE  /\ Run(a, b) # <<>>
             /\ Head(Run(a, b)) = <<"producer", a + 1>>
             /\ Tail(Run(a, b)) = Run(a + 1, b)
  <2>1. Run(a, b) \in Seq(V) /\ Len(Run(a, b)) = b - a
    BY <1>1
  <2>2. Run(a + 1, b) \in Seq(V) /\ Len(Run(a + 1, b)) = (b - a) - 1
    BY <1>1, <1>3, a + 1 \in Nat, a + 1 <= b, b - (a + 1) = (b - a) - 1
  <2> HIDE DEF V
  <2>3. Run(a, b)[1] = <<"producer", a + 1>>
    BY <1>3 DEF Run
  <2>4. Run(a, b) # <<>> /\ Head(Run(a, b)) = <<"producer", a + 1>>
    BY <1>3, <2>1, <2>3
  <2>5. Tail(Run(a, b)) \in Seq(V) /\ Len(Tail(Run(a, b))) = (b - a) - 1
    BY <1>3, <2>1, <2>4
  <2>6. \A i \in 1..((b - a) - 1) : Tail(Run(a, b))[i] = Run(a + 1, b)[i]
    <3> SUFFICES ASSUME NEW i \in 1..((b - a) - 1)
                 PROVE  Tail(Run(a, b))[i] = Run(a + 1, b)[i]
      OBVIOUS
    <3>1. Tail(Run(a, b))[i] = Run(a, b)[i + 1]
      BY <2>1, <2>4
    <3>2. Run(a, b)[i + 1] = <<"producer", a + (i + 1)>>
      BY DEF Run
    <3>3. Run(a + 1, b)[i] = <<"producer", (a + 1) + i>>
      BY DEF Run
    <3>4. a + (i + 1) = (a + 1) + i
      OBVIOUS
    <3> QED BY <3>1, <3>2, <3>3, <3>4
  <2> QED BY <2>2, <2>4, <2>5, <2>6
<1> QED BY <1>1, <1>2, <1>3

(* The ring implements BoundedFifo with bound Capacity - 1: publishing     *)
(* head_ is the push, moving the value out is the pop, and every other     *)
(* step leaves the queue as it is.  Nothing is lost, duplicated, reordered *)
(* or invented, and a push never succeeds on a full queue.                 *)
THEOREM Refinement == Spec => ImplementsFifo
<1> USE CapacityAssumption
<1>1. Init => Fifo!Init
  <2> SUFFICES ASSUME Init PROVE Fifo!Init
    OBVIOUS
  <2>1. Pushed = 0 /\ Moved = 0 /\ out = 0
    BY DEF Init, Pushed, Popped, Moved
  <2>2. Pending = Run(0, 0)
    BY <2>1, IndInvInit, PendingIs
  <2>3. Run(0, 0) = <<>>
    <3>1. Len(Run(0, 0)) = 0
      BY RunOfValues, 0 - 0 = 0
    <3>2. 1..(0 - 0) = {}
      OBVIOUS
    <3> QED BY <3>2 DEF Run
  <2> QED BY <2>1, <2>2, <2>3 DEF Fifo!Init, Fifo!Nothing
<1>p. IndInv => Pending = Run(Moved, Pushed)
  BY PendingIs
<1>q. (IndInv => Pending = Run(Moved, Pushed))'
  BY <1>p, PTL
<1>2. IndInv /\ IndInv' /\ [Next]_vars => [Fifo!Next]_Fifo!vars
  <2> SUFFICES ASSUME IndInv, IndInv', [Next]_vars
               PROVE  [Fifo!Next]_Fifo!vars
    OBVIOUS
  <2>0. Geometry
    BY GeometryHolds
  <2>1. Pending = Run(Moved, Pushed)
    BY PendingIs
  <2>2. Pending' = Run(Moved', Pushed')
    BY <1>q DEF Run
  <2>3. CASE PushPublish
    <3>1. /\ Pushed' = Pushed + 1 /\ Moved' = Moved /\ out' = out
      <4>1. UNCHANGED consumerVars /\ headLog' = Append(headLog, increment(head))
        BY <2>3 DEF PushPublish
      <4>2. Len(headLog') = Len(headLog) + 1
        BY <2>0, <4>1, SMTT(40) DEF IndInv, TypeOK, Geometry
      <4> QED BY <2>0, <4>1, <4>2 DEF consumerVars, Pushed, Popped, Moved, Geometry
    <3>2. Len(Pending) = Pushed - Moved /\ Pending' = Append(Pending, <<"producer", Pushed + 1>>)
      BY <2>0, <2>1, <2>2, <3>1, RunOfValues DEF Geometry
    <3>3. Len(Pending) < Capacity - 1
      BY <2>0, <2>3, <3>2 DEF Geometry, PushPublish, Constructed
    <3>4. Fifo!Push("producer")
      BY <3>1, <3>2, <3>3 DEF Fifo!Push
    <3> QED BY <3>4 DEF Fifo!Next
  <2>4. CASE PopMove
    <3>1. /\ Pushed' = Pushed /\ Moved = Popped /\ Moved' = Popped + 1
          /\ out' = Popped + 1
      BY <2>4, IndInvPopMove DEF PopMove, producerVars, Pushed, Popped, Moved
    <3>2. Popped < Pushed
      BY <2>0, <2>4 DEF Geometry, IndInv, Room, PopMove
    <3>3. /\ Pending # <<>> /\ Head(Pending) = <<"producer", Popped + 1>>
          /\ Pending' = Tail(Pending)
      BY <2>0, <2>1, <2>2, <3>1, <3>2, RunOfValues DEF Geometry
    <3>4. Fifo!Pop("consumer")
      BY <2>0, <3>1, <3>3, SMTT(40) DEF Fifo!Pop, Geometry
    <3> QED BY <3>4 DEF Fifo!Next
  <2>5. ASSUME Pushed' = Pushed, Moved' = Moved, out' = out
        PROVE  UNCHANGED Fifo!vars
    BY <2>1, <2>2, <2>5 DEF Fifo!vars
  <2>6. CASE Producer /\ ~PushPublish
    BY <2>5, <2>6 DEF Producer, PushBegin, PushFull, PushConstruct, ProducerSample,
       consumerVars, Pushed, Popped, Moved
  <2>7. CASE PopBegin \/ PopEmpty \/ PopDestroy \/ ConsumerSample
    BY <2>5, <2>7 DEF PopBegin, PopEmpty, PopDestroy, ConsumerSample,
       producerVars, Pushed, Popped, Moved
  <2>8. CASE PopRelease
    <3>1. UNCHANGED <<headLog, out>> /\ Moved = Popped + 1 /\ Moved' = Popped'
      BY <2>8 DEF PopRelease, producerVars, Moved
    <3>2. Len(tailLog') = Len(tailLog) + 1
      BY <2>0, <2>8 DEF PopRelease, IndInv, TypeOK, Geometry
    <3> QED BY <2>0, <2>5, <3>1, <3>2 DEF Pushed, Popped, Geometry
  <2>9. CASE Destructor
    BY <2>5, <2>9 DEF Destructor, Pushed, Popped, Moved
  <2>10. CASE UNCHANGED vars
    BY <2>5, <2>10 DEF vars, producerVars, consumerVars, Pushed, Popped, Moved
  <2> QED
    BY <2>3, <2>4, <2>6, <2>7, <2>8, <2>9, <2>10 DEF Next, Consumer, Terminated
<1> QED BY <1>1, <1>2, Invariance, PTL DEF Spec, ImplementsFifo, Fifo!Spec
=============================================================================
