--------------------------- MODULE OrderBookProofs ---------------------------
(* Theorems about OrderBook, for any finite sets of ids and prices and any *)
(* quantities.                                                             *)
EXTENDS OrderBook, ArithmeticTheorems

Levels == [Sides -> [AnyPrice -> Nat]]
Books == [level : Levels, orders : [Ids -> Orders]]

(* Every level is at most, and is exactly, what the index has at it.       *)
Covered(b) ==
  \A side \in Sides, px \in AnyPrice : b.level[side][px] <= Total(b.orders, side, px)
Exact(b) ==
  \A side \in Sides, px \in AnyPrice : b.level[side][px] = Total(b.orders, side, px)
-----------------------------------------------------------------------------
(* What one order counts at a level, and the total, are natural.           *)
LEMMA TotalType ==
  ASSUME NEW orders \in [Ids -> Orders], NEW side, NEW px
  PROVE  /\ \A id \in Ids : Share(orders, side, px)[id] \in 0..MaxQty
         /\ Total(orders, side, px) \in 0..(MaxQty * Cardinality(Ids))
         /\ Total(orders, side, px) \in Nat
         /\ Cardinality(Ids) \in Nat
<1> USE BookAssumption
<1>1. \A id \in Ids : Share(orders, side, px)[id] \in 0..MaxQty
  BY DEF Share, Orders, NoOrder, Qtys
<1>2. Cardinality(Ids) \in Nat
  BY FS_CardinalityType
<1>3. Total(orders, side, px) \in 0..(MaxQty * Cardinality(Ids))
  BY <1>1, SumRange DEF Total
<1>4. MaxQty * Cardinality(Ids) \in Int
  BY <1>2
<1> QED BY <1>1, <1>2, <1>3, <1>4

(* No level total is below the quantity of an order resting there.         *)
LEMMA TotalMember ==
  ASSUME NEW orders \in [Ids -> Orders], NEW id \in Ids, orders[id] # NoOrder
  PROVE  Total(orders, orders[id].side, orders[id].px) >= orders[id].qty
<1> USE BookAssumption
<1> DEFINE f == Share(orders, orders[id].side, orders[id].px)
<1>1. \A y \in Ids : f[y] \in 0..MaxQty
  BY TotalType
<1>2. f[id] = orders[id].qty
  BY DEF Share, Resting
<1>3. SumFunctionOnSet(f, Ids) >= f[id]
  <2> HIDE DEF f
  <2> QED BY <1>1, SumMember
<1> QED BY <1>2, <1>3 DEF Total

(* Rewriting one index entry moves its quantity between the totals.        *)
LEMMA TotalUpdate ==
  ASSUME NEW orders \in [Ids -> Orders], NEW id \in Ids, NEW o \in Orders,
         NEW side, NEW px
  PROVE  Total([orders EXCEPT ![id] = o], side, px)
           = Total(orders, side, px)
               - (IF orders[id].side = side /\ orders[id].px = px THEN orders[id].qty ELSE 0)
               + (IF o.side = side /\ o.px = px THEN o.qty ELSE 0)
<1> DEFINE new == [orders EXCEPT ![id] = o]
           f == Share(orders, side, px)
           h == Share(new, side, px)
<1>1. new \in [Ids -> Orders]
  OBVIOUS
<1>2. \A y \in Ids : f[y] \in Int /\ h[y] \in Int
  <2> HIDE DEF new
  <2>1. \A y \in Ids : f[y] \in 0..MaxQty
    BY TotalType
  <2>2. \A y \in Ids : h[y] \in 0..MaxQty
    BY <1>1, TotalType
  <2> QED BY <2>1, <2>2, BookAssumption
<1>3. \A y \in Ids \ {id} : h[y] = f[y]
  BY DEF Share, Resting
<1>4. /\ f[id] = IF orders[id].side = side /\ orders[id].px = px THEN orders[id].qty ELSE 0
      /\ h[id] = IF o.side = side /\ o.px = px THEN o.qty ELSE 0
  BY DEF Share, Resting
<1>5. SumFunctionOnSet(h, Ids) = SumFunctionOnSet(f, Ids) - f[id] + h[id]
  <2>1. IsFiniteSet(Ids)
    BY BookAssumption
  <2> HIDE DEF f, h, new
  <2> QED BY <1>2, <1>3, <2>1, SumUpdate
<1> QED BY <1>4, <1>5 DEF Total
-----------------------------------------------------------------------------
(* remove_from_level takes quantity off one level and never below 0.       *)
LEMMA RemoveFromLevel ==
  ASSUME NEW level \in Levels, NEW side \in Sides, NEW px \in AnyPrice, NEW qty \in Nat
  PROVE  /\ remove_from_level(level, side, px, qty) \in Levels
         /\ \A s \in Sides, p \in AnyPrice :
              remove_from_level(level, side, px, qty)[s][p] =
                IF s = side /\ p = px
                THEN IF level[s][p] > qty THEN level[s][p] - qty ELSE 0
                ELSE level[s][p]
<1>1. \A s \in Sides, p \in AnyPrice :
              remove_from_level(level, side, px, qty)[s][p] =
                IF s = side /\ p = px
                THEN IF level[s][p] > qty THEN level[s][p] - qty ELSE 0
                ELSE level[s][p]
  BY DEF remove_from_level, Levels
<1>2. remove_from_level(level, side, px, qty) \in Levels
  BY DEF remove_from_level, Levels
<1> QED BY <1>1, <1>2

(* A book that keeps its promises is valid, covered, and as exact as b.    *)
Keeps(b, new) == new \in Books /\ Covered(new) /\ (Exact(b) => Exact(new))

(* cancel takes the order out of the index and its quantity off its level. *)
LEMMA CancelKeeps ==
  ASSUME NEW b \in Books, Covered(b), NEW id \in Ids
  PROVE  /\ Keeps(b, cancel(b, id))
         /\ cancel(b, id).orders = [b.orders EXCEPT ![id] = NoOrder]
<1> DEFINE o == b.orders[id]
<1>1. CASE ~Known(b, id)
  <2>1. cancel(b, id) = b /\ b.orders[id] = NoOrder
    BY <1>1 DEF cancel, Known
  <2>2. b.orders = [b.orders EXCEPT ![id] = NoOrder]
    BY <2>1 DEF Books
  <2> QED BY <2>1, <2>2 DEF Keeps
<1>2. CASE Known(b, id)
  <2>1. o \in Orders /\ o # NoOrder /\ o.side \in Sides /\ o.px \in AnyPrice /\ o.qty \in Nat
    BY <1>2, BookAssumption DEF Known, Books, Orders, Qtys
  <2>2. cancel(b, id) = [level |-> remove_from_level(b.level, o.side, o.px, o.qty),
                         orders |-> [b.orders EXCEPT ![id] = NoOrder]]
    BY <1>2 DEF cancel
  <2> DEFINE level == remove_from_level(b.level, o.side, o.px, o.qty)
             orders == [b.orders EXCEPT ![id] = NoOrder]
  <2>3. b.level \in Levels /\ b.orders \in [Ids -> Orders] /\ NoOrder \in Orders
    BY DEF Books, Orders
  <2>4. /\ level \in Levels
        /\ \A s \in Sides, p \in AnyPrice :
             level[s][p] = IF s = o.side /\ p = o.px
                           THEN IF b.level[s][p] > o.qty THEN b.level[s][p] - o.qty ELSE 0
                           ELSE b.level[s][p]
    BY <2>1, <2>3, RemoveFromLevel
  <2>5. orders \in [Ids -> Orders]
    BY <2>3
  <2>6. ASSUME NEW s \in Sides, NEW p \in AnyPrice
        PROVE  /\ Total(orders, s, p) = Total(b.orders, s, p)
                    - (IF o.side = s /\ o.px = p THEN o.qty ELSE 0)
               /\ Total(b.orders, s, p) \in Nat /\ Total(orders, s, p) \in Nat
    <3>1. Total(orders, s, p) = Total(b.orders, s, p)
            - (IF o.side = s /\ o.px = p THEN o.qty ELSE 0)
            + (IF NoOrder.side = s /\ NoOrder.px = p THEN NoOrder.qty ELSE 0)
      BY <2>3, TotalUpdate
    <3>2. NoOrder.qty = 0
      BY DEF NoOrder
    <3>3. Total(b.orders, s, p) \in Nat /\ Total(orders, s, p) \in Nat
      <4> HIDE DEF orders
      <4> QED BY <2>3, <2>5, TotalType
    <3> HIDE DEF orders, o
    <3> QED BY <2>1, <3>1, <3>2, <3>3
  <2>7. ASSUME NEW s \in Sides, NEW p \in AnyPrice
        PROVE  /\ b.level[s][p] \in Nat /\ b.level[s][p] <= Total(b.orders, s, p)
               /\ level[s][p] <= Total(orders, s, p)
               /\ b.level[s][p] = Total(b.orders, s, p) => level[s][p] = Total(orders, s, p)
    <3>1. b.level[s][p] \in Nat /\ b.level[s][p] <= Total(b.orders, s, p)
      BY <2>3 DEF Levels, Covered
    <3> HIDE DEF orders, o, level
    <3> QED BY <2>1, <2>4, <2>6, <3>1
  <2>8. cancel(b, id).level = level /\ cancel(b, id).orders = orders
    BY <2>2
  <2>9. cancel(b, id) \in Books
    BY <2>2, <2>4, <2>5 DEF Books
  <2> HIDE DEF level, orders
  <2> QED BY <2>7, <2>8, <2>9 DEF Keeps, Covered, Exact, orders
<1> QED BY <1>1, <1>2

(* Putting a new order into the index and its quantity on its level.       *)
LEMMA PlaceKeeps ==
  ASSUME NEW b \in Books, Covered(b), NEW id \in Ids, b.orders[id] = NoOrder,
         NEW side \in Sides, NEW px \in AnyPrice, NEW qty \in Qtys
  PROVE  Keeps(b, Place(b, id, side, px, qty))
<1> DEFINE o == [side |-> side, px |-> px, qty |-> qty]
           level == [b.level EXCEPT ![side][px] = @ + qty]
           orders == [b.orders EXCEPT ![id] = o]
<1>1. /\ o \in Orders /\ b.level \in Levels /\ b.orders \in [Ids -> Orders]
      /\ qty \in Nat /\ o.side = side /\ o.px = px /\ o.qty = qty
  BY BookAssumption DEF Orders, Books, Qtys
<1>2. /\ level \in Levels
      /\ \A s \in Sides, p \in AnyPrice :
           level[s][p] = IF s = side /\ p = px THEN b.level[s][p] + qty ELSE b.level[s][p]
  BY <1>1 DEF Levels
<1>3. orders \in [Ids -> Orders]
  BY <1>1
<1>4. ASSUME NEW s \in Sides, NEW p \in AnyPrice
      PROVE  /\ Total(orders, s, p)
                  = Total(b.orders, s, p) + (IF side = s /\ px = p THEN qty ELSE 0)
             /\ Total(b.orders, s, p) \in Nat
  <2>1. Total(orders, s, p) = Total(b.orders, s, p)
          - (IF NoOrder.side = s /\ NoOrder.px = p THEN NoOrder.qty ELSE 0)
          + (IF o.side = s /\ o.px = p THEN o.qty ELSE 0)
    <3> HIDE DEF o
    <3> QED BY <1>1, TotalUpdate
  <2>2. NoOrder.qty = 0
    BY DEF NoOrder
  <2>3. Total(b.orders, s, p) \in Nat
    BY <1>1, TotalType
  <2> HIDE DEF orders, o
  <2> QED BY <1>1, <2>1, <2>2, <2>3
<1>5. ASSUME NEW s \in Sides, NEW p \in AnyPrice
      PROVE  /\ level[s][p] <= Total(orders, s, p)
             /\ b.level[s][p] = Total(b.orders, s, p) => level[s][p] = Total(orders, s, p)
  <2>1. b.level[s][p] \in Nat /\ b.level[s][p] <= Total(b.orders, s, p)
    BY <1>1 DEF Levels, Covered
  <2> HIDE DEF orders, o, level
  <2> QED BY <1>1, <1>2, <1>4, <2>1
<1>6. Place(b, id, side, px, qty) = [level |-> level, orders |-> orders]
  BY DEF Place
<1>7. /\ Place(b, id, side, px, qty).level = level /\ Place(b, id, side, px, qty).orders = orders
      /\ Place(b, id, side, px, qty) \in Books
  <2> HIDE DEF level, orders
  <2> QED BY <1>2, <1>3, <1>6 DEF Books
<1> HIDE DEF level, orders
<1> QED BY <1>5, <1>7 DEF Keeps, Covered, Exact

FeedInput(side, px, qty) == side \in FeedSides /\ px \in AnyPrice /\ qty \in FeedQtys

(* add, with the orders it leaves behind.                                  *)
LEMMA AddKeeps ==
  ASSUME NEW b \in Books, Covered(b), NEW id \in Ids,
         NEW side, NEW px, NEW qty, FeedInput(side, px, qty)
  PROVE  /\ Keeps(b, add(b, id, side, px, qty))
         /\ add(b, id, side, px, qty).orders =
              IF side = "Unknown" \/ px = 0 \/ qty = 0 THEN b.orders
              ELSE [b.orders EXCEPT ![id] = [side |-> side, px |-> px, qty |-> qty]]
<1>1. CASE side = "Unknown" \/ px = 0 \/ qty = 0
  BY <1>1 DEF add, Keeps
<1>2. CASE ~(side = "Unknown" \/ px = 0 \/ qty = 0)
  <2> DEFINE c == cancel(b, id)
  <2>1. side \in Sides /\ px \in AnyPrice /\ qty \in Qtys
    BY <1>2, BookAssumption DEF FeedInput, FeedSides, FeedQtys, Qtys
  <2>2. Keeps(b, c) /\ c.orders = [b.orders EXCEPT ![id] = NoOrder]
    BY CancelKeeps
  <2>3. c.orders[id] = NoOrder
    BY <2>2 DEF Books
  <2>4. add(b, id, side, px, qty) = Place(c, id, side, px, qty)
    BY <1>2 DEF add
  <2> HIDE DEF c
  <2>5. Keeps(c, Place(c, id, side, px, qty))
    BY <2>1, <2>2, <2>3, PlaceKeeps DEF Keeps
  <2>6. Place(c, id, side, px, qty).orders =
          [b.orders EXCEPT ![id] = [side |-> side, px |-> px, qty |-> qty]]
    BY <2>2 DEF Place, Books
  <2> QED BY <1>2, <2>2, <2>4, <2>5, <2>6 DEF Keeps
<1> QED BY <1>1, <1>2

(* modify, with the orders it leaves behind.                               *)
LEMMA ModifyKeeps ==
  ASSUME NEW b \in Books, Covered(b), NEW id \in Ids,
         NEW side, NEW px, NEW qty, FeedInput(side, px, qty)
  PROVE  /\ Keeps(b, modify(b, id, side, px, qty))
         /\ side \in Sides /\ px # 0 /\ qty # 0 =>
              modify(b, id, side, px, qty).orders =
                [b.orders EXCEPT ![id] = [side |-> side, px |-> px, qty |-> qty]]
<1>1. CASE ~Known(b, id)
  <2>1. modify(b, id, side, px, qty) = add(b, id, side, px, qty)
    BY <1>1 DEF modify
  <2>2. "Unknown" \notin Sides
    BY DEF Sides
  <2> QED BY <2>1, <2>2, AddKeeps
<1>2. CASE Known(b, id) /\ qty = 0
  BY <1>2, CancelKeeps DEF modify, Keeps
<1>3. CASE Known(b, id) /\ qty # 0
  <2> DEFINE c == cancel(b, id)
             final == IF side = "Unknown" THEN b.orders[id].side ELSE side
  <2>1. final \in Sides /\ px \in AnyPrice /\ qty \in Qtys
    BY <1>3, BookAssumption
    DEF FeedInput, FeedSides, FeedQtys, Qtys, Known, Books, Orders
  <2>2. Keeps(b, c) /\ c.orders = [b.orders EXCEPT ![id] = NoOrder]
    BY CancelKeeps
  <2>3. c.orders[id] = NoOrder
    BY <2>2 DEF Books
  <2>4. modify(b, id, side, px, qty) = Place(c, id, final, px, qty)
    BY <1>3 DEF modify
  <2>5. side \in Sides => final = side
    BY DEF Sides
  <2> HIDE DEF c, final
  <2>6. Keeps(c, Place(c, id, final, px, qty))
    BY <2>1, <2>2, <2>3, PlaceKeeps DEF Keeps
  <2>7. Place(c, id, final, px, qty).orders =
          [b.orders EXCEPT ![id] = [side |-> final, px |-> px, qty |-> qty]]
    BY <2>2 DEF Place, Books
  <2> QED BY <2>2, <2>4, <2>5, <2>6, <2>7 DEF Keeps
<1> QED BY <1>1, <1>2, <1>3

(* std::min.                                                               *)
LEMMA MinOfTwo ==
  ASSUME NEW a \in Int, NEW b \in Int
  PROVE  Min({a, b}) = IF a <= b THEN a ELSE b
BY DEF Min

(* What trade leaves of an order that is in the index.                     *)
Left(o, qty) == IF o.qty <= qty THEN NoOrder ELSE [o EXCEPT !.qty = @ - qty]

(* Taking quantity off an index entry and off its level alike.             *)
TakenOff(b, id, n) ==
  [level |-> remove_from_level(b.level, b.orders[id].side, b.orders[id].px, n),
   orders |-> [b.orders EXCEPT ![id] = Left(b.orders[id], n)]]

LEMMA TakeKeeps ==
  ASSUME NEW b \in Books, Covered(b), NEW id \in Ids, Known(b, id),
         NEW n \in 1..b.orders[id].qty
  PROVE  Keeps(b, TakenOff(b, id, n))
<1> DEFINE o == b.orders[id]
           level == remove_from_level(b.level, o.side, o.px, n)
           orders == [b.orders EXCEPT ![id] = Left(o, n)]
<1>1. /\ o \in Orders /\ o.side \in Sides /\ o.px \in AnyPrice /\ o.qty \in Qtys
      /\ o = [side |-> o.side, px |-> o.px, qty |-> o.qty]
  BY DEF Known, Books, Orders
<1>2. o.qty \in Nat /\ n \in Nat /\ n <= o.qty /\ n > 0 /\ o.qty <= MaxQty /\ MaxQty \in Nat
  BY <1>1, BookAssumption DEF Qtys
<1>3. /\ Left(o, n) \in Orders
      /\ Left(o, n).qty = o.qty - n
      /\ Left(o, n).qty > 0 => Left(o, n).side = o.side /\ Left(o, n).px = o.px
  <2> HIDE DEF o
  <2>1. CASE o.qty <= n
    BY <1>2, <2>1 DEF Left, NoOrder, Orders
  <2>2. CASE ~(o.qty <= n)
    <3>1. Left(o, n) = [side |-> o.side, px |-> o.px, qty |-> o.qty - n]
      BY <1>1, <2>2 DEF Left
    <3>2. o.qty - n \in Qtys
      BY <1>2, <2>2 DEF Qtys
    <3> QED BY <1>1, <3>1, <3>2 DEF Orders
  <2> QED BY <2>1, <2>2
<1>4. b.level \in Levels /\ b.orders \in [Ids -> Orders]
  BY DEF Books
<1>5. /\ level \in Levels
      /\ \A s \in Sides, p \in AnyPrice :
           level[s][p] = IF s = o.side /\ p = o.px
                         THEN IF b.level[s][p] > n THEN b.level[s][p] - n ELSE 0
                         ELSE b.level[s][p]
  <2> HIDE DEF o
  <2> QED BY <1>1, <1>2, <1>4, RemoveFromLevel, SMTT(30)
<1>6. orders \in [Ids -> Orders]
  BY <1>3, <1>4
<1>7. ASSUME NEW s \in Sides, NEW p \in AnyPrice
      PROVE  /\ Total(orders, s, p) = Total(b.orders, s, p)
                  - (IF o.side = s /\ o.px = p THEN n ELSE 0)
             /\ Total(b.orders, s, p) \in Nat /\ Total(orders, s, p) \in Nat
  <2>1. Total(orders, s, p) = Total(b.orders, s, p)
          - (IF o.side = s /\ o.px = p THEN o.qty ELSE 0)
          + (IF Left(o, n).side = s /\ Left(o, n).px = p THEN Left(o, n).qty ELSE 0)
    BY <1>3, <1>4, TotalUpdate
  <2>2. Total(b.orders, s, p) \in Nat /\ Total(orders, s, p) \in Nat
    <3> HIDE DEF orders
    <3> QED BY <1>4, <1>6, TotalType
  <2> HIDE DEF orders, o
  <2> QED BY <1>2, <1>3, <2>1, <2>2
<1>8. ASSUME NEW s \in Sides, NEW p \in AnyPrice
      PROVE  /\ level[s][p] <= Total(orders, s, p)
             /\ b.level[s][p] = Total(b.orders, s, p) => level[s][p] = Total(orders, s, p)
  <2>1. b.level[s][p] \in Nat /\ b.level[s][p] <= Total(b.orders, s, p)
    BY <1>4 DEF Levels, Covered
  <2> HIDE DEF orders, o, level
  <2> QED BY <1>2, <1>5, <1>7, <2>1
<1>9. /\ TakenOff(b, id, n).level = level /\ TakenOff(b, id, n).orders = orders
      /\ TakenOff(b, id, n) \in Books
  BY <1>5, <1>6 DEF Books, TakenOff
<1> HIDE DEF level, orders
<1> QED BY <1>8, <1>9 DEF Keeps, Covered, Exact

(* trade, with the orders it leaves behind.  Of an order that is not in    *)
(* the index only the level loses quantity.                                *)
LEMMA TradeKeeps ==
  ASSUME NEW b \in Books, Covered(b), NEW id \in Ids,
         NEW side, NEW px, NEW qty, FeedInput(side, px, qty)
  PROVE  /\ trade(b, id, side, px, qty) \in Books /\ Covered(trade(b, id, side, px, qty))
         /\ trade(b, id, side, px, qty).orders =
              IF Known(b, id) /\ qty > 0
              THEN [b.orders EXCEPT ![id] = Left(b.orders[id], qty)] ELSE b.orders
         /\ Known(b, id) => Keeps(b, trade(b, id, side, px, qty))
<1> DEFINE new == trade(b, id, side, px, qty)
           o == b.orders[id]
<1>1. qty \in Nat /\ px \in AnyPrice /\ side \in FeedSides
  BY BookAssumption DEF FeedInput, FeedQtys
<1>2. CASE qty = 0
  BY <1>2 DEF trade, Keeps
<1>3. CASE qty > 0 /\ Known(b, id)
  <2> DEFINE n == Min({qty, o.qty})
  <2>1. /\ o.qty \in Qtys /\ o.qty \in Nat /\ o.qty > 0
        /\ o = [side |-> o.side, px |-> o.px, qty |-> o.qty]
    BY <1>3, BookAssumption DEF Known, Books, Orders, Qtys
  <2>2. n = IF qty <= o.qty THEN qty ELSE o.qty
    BY <1>1, <2>1, MinOfTwo
  <2>3. n \in 1..o.qty /\ n \in Nat
    BY <1>1, <1>3, <2>1, <2>2
  <2>4. (IF o.qty = n THEN NoOrder ELSE [o EXCEPT !.qty = @ - n]) = Left(o, n)
    <3> HIDE DEF n, o
    <3> QED BY <2>1, <2>3 DEF Left
  <2>5. Left(o, n) = Left(o, qty)
    <3> HIDE DEF n, o
    <3> QED BY <1>1, <2>1, <2>2 DEF Left
  <2>6. new = TakenOff(b, id, n)
    BY <1>1, <1>3, <2>4 DEF trade, TakenOff
  <2>7. Keeps(b, new)
    <3> HIDE DEF n, new
    <3> QED BY <1>3, <2>3, <2>6, TakeKeeps
  <2>8. new.orders = [b.orders EXCEPT ![id] = Left(o, qty)]
    <3> HIDE DEF n, new
    <3> QED BY <2>5, <2>6 DEF TakenOff
  <2> HIDE DEF new, o
  <2> QED BY <1>3, <2>7, <2>8 DEF Keeps, new, o
<1>4. CASE qty > 0 /\ ~Known(b, id) /\ side # "Unknown" /\ px # 0
  <2> DEFINE level == remove_from_level(b.level, side, px, qty)
  <2>1. side \in Sides /\ b.level \in Levels /\ b.orders \in [Ids -> Orders]
    BY <1>1, <1>4 DEF FeedSides, Books
  <2>2. /\ level \in Levels
        /\ \A s \in Sides, p \in AnyPrice :
             level[s][p] = IF s = side /\ p = px
                           THEN IF b.level[s][p] > qty THEN b.level[s][p] - qty ELSE 0
                           ELSE b.level[s][p]
    BY <1>1, <2>1, RemoveFromLevel
  <2>3. new = [level |-> level, orders |-> b.orders]
    BY <1>1, <1>4 DEF trade, Books
  <2>4. new \in Books /\ new.level = level /\ new.orders = b.orders
    <3> HIDE DEF level, new
    <3> QED BY <2>1, <2>2, <2>3 DEF Books
  <2>5. Covered(new)
    <3> HIDE DEF level, new
    <3>1. ASSUME NEW s \in Sides, NEW p \in AnyPrice
          PROVE  level[s][p] <= Total(b.orders, s, p)
      <4>1. /\ b.level[s][p] \in Nat /\ b.level[s][p] <= Total(b.orders, s, p)
            /\ Total(b.orders, s, p) \in Nat
        BY <2>1, TotalType DEF Levels, Covered
      <4> QED BY <1>1, <2>2, <4>1
    <3> QED BY <2>4, <3>1 DEF Covered
  <2> HIDE DEF new
  <2> QED BY <1>4, <2>4, <2>5 DEF new
<1>5. CASE qty > 0 /\ ~Known(b, id) /\ ~(side # "Unknown" /\ px # 0)
  <2>1. new = b
    BY <1>1, <1>5 DEF trade
  <2> QED BY <1>5, <2>1
<1> QED BY <1>1, <1>2, <1>3, <1>4, <1>5

(* What consume_orders_at_price may take is what the orders at the price   *)
(* have.                                                                   *)
LEMMA TakesType ==
  ASSUME NEW orders \in [Ids -> Orders], NEW side \in Sides, NEW px \in AnyPrice,
         NEW qty \in Nat, NEW t \in Takes(orders, side, px, qty),
         qty <= Total(orders, side, px)
  PROVE  /\ DOMAIN t = Resting(orders, side, px)
         /\ \A id \in Resting(orders, side, px) :
              t[id] \in 0..MaxQty /\ t[id] <= orders[id].qty
         /\ SumFunctionOnSet(t, DOMAIN t) = qty
<1>1. Total(orders, side, px) \in Nat
  BY TotalType
<1>2. Min({qty, Total(orders, side, px)}) = qty
  BY <1>1, MinOfTwo
<1> QED BY <1>2 DEF Takes

(* The orders that rest at a price lose what was taken and stay orders.    *)
LEMMA DepleteOrders ==
  ASSUME NEW orders \in [Ids -> Orders], NEW side \in Sides, NEW px \in AnyPrice,
         NEW t, DOMAIN t = Resting(orders, side, px),
         \A id \in DOMAIN t : t[id] \in 0..MaxQty /\ t[id] <= orders[id].qty
  PROVE  /\ Deplete(orders, t) \in [Ids -> Orders]
         /\ \A id \in Ids :
              /\ Deplete(orders, t)[id] = orders[id] \/ id \in DOMAIN t
              /\ id \in DOMAIN t =>
                   Deplete(orders, t)[id].qty = orders[id].qty - t[id]
              /\ Deplete(orders, t)[id] # NoOrder =>
                   /\ Deplete(orders, t)[id].side = orders[id].side
                   /\ Deplete(orders, t)[id].px = orders[id].px
                   /\ Deplete(orders, t)[id].qty <= orders[id].qty
                   /\ orders[id] # NoOrder
<1> USE BookAssumption
<1>1. ASSUME NEW id \in Ids
      PROVE  /\ Deplete(orders, t)[id] \in Orders
             /\ Deplete(orders, t)[id] = orders[id] \/ id \in DOMAIN t
             /\ id \in DOMAIN t =>
                  Deplete(orders, t)[id].qty = orders[id].qty - t[id]
             /\ Deplete(orders, t)[id] # NoOrder =>
                  /\ Deplete(orders, t)[id].side = orders[id].side
                  /\ Deplete(orders, t)[id].px = orders[id].px
                  /\ Deplete(orders, t)[id].qty <= orders[id].qty
                  /\ orders[id] # NoOrder
  <2>1. orders[id] \in Orders
    OBVIOUS
  <2>2. orders[id].qty \in 0..MaxQty
    BY <2>1 DEF Orders, NoOrder, Qtys
  <2>3. CASE id \notin DOMAIN t
    BY <2>1, <2>2, <2>3 DEF Deplete
  <2>4. CASE id \in DOMAIN t /\ t[id] = orders[id].qty
    BY <2>2, <2>4 DEF Deplete, NoOrder, Orders
  <2>5. CASE id \in DOMAIN t /\ t[id] # orders[id].qty
    <3>1. /\ orders[id] # NoOrder /\ orders[id].side \in Sides /\ orders[id].px \in AnyPrice
          /\ orders[id] = [side |-> orders[id].side, px |-> orders[id].px, qty |-> orders[id].qty]
      BY <2>1, <2>5 DEF Resting, NoOrder, Sides, Orders
    <3>2. Deplete(orders, t)[id] =
            [side |-> orders[id].side, px |-> orders[id].px, qty |-> orders[id].qty - t[id]]
      BY <2>5, <3>1 DEF Deplete
    <3>3. orders[id].qty - t[id] \in Qtys
      BY <2>2, <2>5 DEF Qtys
    <3> QED BY <2>2, <2>5, <3>1, <3>2, <3>3 DEF Orders
  <2> QED BY <2>3, <2>4, <2>5
<1>2. Deplete(orders, t) = [id \in Ids |-> Deplete(orders, t)[id]]
  BY DEF Deplete
<1> QED BY <1>1, <1>2

(* The total of the price falls by what was taken, the others stay.        *)
LEMMA DepleteTotal ==
  ASSUME NEW orders \in [Ids -> Orders], NEW side \in Sides, NEW px \in AnyPrice,
         NEW t, DOMAIN t = Resting(orders, side, px),
         \A id \in DOMAIN t : t[id] \in 0..MaxQty /\ t[id] <= orders[id].qty,
         NEW s \in Sides, NEW p \in AnyPrice
  PROVE  Total(Deplete(orders, t), s, p) =
           IF s = side /\ p = px
           THEN Total(orders, s, p) - SumFunctionOnSet(t, DOMAIN t)
           ELSE Total(orders, s, p)
<1> DEFINE new == Deplete(orders, t)
           f == Share(orders, s, p)
           h == Share(new, s, p)
           g == [id \in Ids |-> IF id \in DOMAIN t THEN t[id] ELSE 0]
<1>1. IsFiniteSet(Ids) /\ MaxQty \in Nat
  BY BookAssumption
<1>2. new \in [Ids -> Orders]
  BY DepleteOrders
<1>3. \A id \in Ids : f[id] \in Int /\ h[id] \in Int /\ g[id] \in Int
  <2>1. \A id \in Ids : f[id] \in 0..MaxQty
    BY TotalType
  <2>2. \A id \in Ids : h[id] \in 0..MaxQty
    <3> HIDE DEF new
    <3> QED BY <1>2, TotalType
  <2> QED BY <1>1, <2>1, <2>2
<1>4. CASE s = side /\ p = px
  <2>1. \A id \in Ids : h[id] = f[id] - g[id]
    <3> SUFFICES ASSUME NEW id \in Ids PROVE h[id] = f[id] - g[id]
      OBVIOUS
    <3>1. orders[id].qty \in Int
      BY <1>1 DEF Orders, NoOrder, Qtys
    <3>2. CASE id \notin DOMAIN t
      <4>1. new[id] = orders[id] /\ id \notin Resting(orders, s, p)
        BY <1>4, <3>2, DepleteOrders
      <4>2. id \notin Resting(new, s, p)
        BY <4>1 DEF Resting
      <4> QED BY <3>2, <4>1, <4>2 DEF Share
    <3>3. CASE id \in DOMAIN t
      <4>1. new[id].qty = orders[id].qty - t[id] /\ id \in Resting(orders, s, p)
        BY <1>4, <3>3, DepleteOrders
      <4>2. f[id] = orders[id].qty /\ g[id] = t[id]
        BY <3>3, <4>1 DEF Share
      <4>3. CASE new[id] = NoOrder
        <5>1. h[id] = 0 /\ new[id].qty = 0
          BY <4>3 DEF Share, NoOrder
        <5> HIDE DEF f, g, h, new
        <5> QED BY <4>1, <4>2, <5>1
      <4>4. CASE new[id] # NoOrder
        <5>1. new[id].side = orders[id].side /\ new[id].px = orders[id].px
          BY <4>4, DepleteOrders
        <5>2. h[id] = new[id].qty
          BY <4>1, <5>1 DEF Share, Resting
        <5> HIDE DEF f, g, h, new
        <5> QED BY <4>1, <4>2, <5>2
      <4> QED BY <4>3, <4>4
    <3> QED BY <3>2, <3>3
  <2>2. SumFunctionOnSet(h, Ids) = SumFunctionOnSet(f, Ids) - SumFunctionOnSet(g, Ids)
    <3> HIDE DEF f, g, h
    <3> QED BY <1>1, <1>3, <2>1, SumDifference
  <2>3. SumFunctionOnSet(g, Ids) = SumFunctionOnSet(g, DOMAIN t)
    <3>1. DOMAIN t \in SUBSET Ids /\ \A id \in Ids \ DOMAIN t : g[id] = 0
      BY DEF Resting
    <3> HIDE DEF g
    <3> QED BY <1>1, <1>3, <3>1, SumOutside
  <2>4. SumFunctionOnSet(g, DOMAIN t) = SumFunctionOnSet(t, DOMAIN t)
    <3>1. IsFiniteSet(DOMAIN t)
      BY <1>1, FS_Subset DEF Resting
    <3>2. \A id \in DOMAIN t : t[id] \in Int /\ g[id] = t[id]
      BY <1>1 DEF Resting
    <3> HIDE DEF g
    <3> QED BY <3>1, <3>2, SumEqual
  <2> QED BY <1>4, <2>2, <2>3, <2>4 DEF Total
<1>5. CASE ~(s = side /\ p = px)
  <2>1. \A id \in Ids : f[id] \in Int /\ h[id] = f[id]
    <3> SUFFICES ASSUME NEW id \in Ids PROVE h[id] = f[id]
      BY <1>3
    <3>1. CASE id \notin DOMAIN t
      <4>1. new[id] = orders[id]
        BY <3>1, DepleteOrders
      <4> QED BY <4>1 DEF Share, Resting
    <3>2. CASE id \in DOMAIN t
      <4>1. id \notin Resting(orders, s, p) /\ f[id] = 0
        BY <1>5, <3>2 DEF Resting, Share
      <4>2. new[id] # NoOrder => id \notin Resting(new, s, p)
        <5>1. new[id] # NoOrder => new[id].side = orders[id].side /\ new[id].px = orders[id].px
          BY DepleteOrders
        <5> QED BY <4>1, <5>1 DEF Resting
      <4>3. h[id] = 0
        BY <4>2 DEF Share, NoOrder
      <4> QED BY <4>1, <4>3
    <3> QED BY <3>1, <3>2
  <2>2. SumFunctionOnSet(h, Ids) = SumFunctionOnSet(f, Ids)
    <3> HIDE DEF f, h
    <3> QED BY <1>1, <2>1, SumEqual
  <2> QED BY <1>5, <2>2 DEF Total
<1> QED BY <1>4, <1>5
-----------------------------------------------------------------------------
(* A disciplined exchange has no order without a price.                    *)
PricedExchange == disciplined => \A id \in Ids : Live(id) => exch[id].px # 0

(* Until an order of our own fills, the index is the exchange's and every  *)
(* level is exactly the sum of the index.                                  *)
Mirrored == disciplined /\ ~ownFill => book.orders = exch /\ Exact(book)

(* Of a call of match_ioc: what is gone from the levels is in its fills    *)
Accounted ==
  \A px \in AnyPrice :
    /\ book.level[Opposite(ioc.side)][px]
         = ioc.before[Opposite(ioc.side)][px] - FilledAt(ioc.fills, px)
    /\ book.level[ioc.side][px] = ioc.before[ioc.side][px]

Worse(side, px, p) == IF side = "Buy" THEN px < p ELSE px > p

(* ... it leaves nothing behind at a price it has passed                   *)
Swept ==
  \A j \in DOMAIN ioc.fills, p \in AnyPrice :
    book.level[Opposite(ioc.side)][p] > 0 =>
      \/ Worse(ioc.side, ioc.fills[j].px, p)
      \/ p = ioc.fills[j].px /\ ioc.left = 0

(* ... its prices get worse                                                *)
BestFirst ==
  \A j, k \in DOMAIN ioc.fills :
    j < k => Worse(ioc.side, ioc.fills[j].px, ioc.fills[k].px)

(* ... and what it has filled is what is gone within the limit.            *)
Spent ==
  ioc.qty - ioc.left = Eligible(ioc.side, ioc.limit, ioc.before)
                         - Eligible(ioc.side, ioc.limit, book.level)

Call == ioc # NoCall => Accounted /\ Swept /\ BestFirst /\ Spent

(* The inductive invariant.                                                *)
IndInv ==
  /\ TypeOK /\ LevelCovered /\ NoPhantomLiquidity
  /\ PricedExchange /\ Mirrored /\ Call

Bounded ==
  [level : [Sides -> [AnyPrice -> 0..(MaxQty * Cardinality(Ids))]], orders : [Ids -> Orders]]

(* A level that is covered by the index cannot outgrow it.                 *)
LEMMA BookType ==
  /\ \A b \in Bounded : b \in Books
  /\ \A b \in Books : Covered(b) => b \in Bounded
<1>1. MaxQty * Cardinality(Ids) \in Int
  BY BookAssumption, FS_CardinalityType
<1>2. ASSUME NEW b \in Bounded PROVE b \in Books
  BY <1>1 DEF Bounded, Books, Levels
<1>3. ASSUME NEW b \in Books, Covered(b) PROVE b \in Bounded
  <2>1. ASSUME NEW s \in Sides, NEW p \in AnyPrice
        PROVE  b.level[s][p] \in 0..(MaxQty * Cardinality(Ids))
    <3>1. Total(b.orders, s, p) \in 0..(MaxQty * Cardinality(Ids))
      BY TotalType DEF Books
    <3>2. b.level[s][p] \in Nat /\ b.level[s][p] <= Total(b.orders, s, p)
      BY <1>3 DEF Covered, Books, Levels
    <3> QED BY <1>1, <3>1, <3>2
  <2> QED BY <2>1 DEF Bounded, Books, Levels
<1> QED BY <1>2, <1>3

(* The index of an empty book covers nothing and is exact.                 *)
LEMMA EmptyIsExact == EmptyBook \in Books /\ Exact(EmptyBook) /\ Covered(EmptyBook)
<1>1. EmptyBook \in Books
  BY DEF EmptyBook, Books, Levels, NoOrders, Orders
<1>2. ASSUME NEW s \in Sides, NEW p \in AnyPrice
      PROVE  EmptyBook.level[s][p] = 0 /\ Total(EmptyBook.orders, s, p) = 0
  <2> DEFINE f == Share(NoOrders, s, p)
  <2>1. \A id \in Ids : f[id] \in Int /\ f[id] = 0
    BY DEF Share, Resting, NoOrders, NoOrder, Sides
  <2>2. SumFunctionOnSet(f, Ids) = SumFunctionOnSet(f, {})
    <3>1. IsFiniteSet(Ids) /\ {} \in SUBSET Ids
      BY BookAssumption
    <3> HIDE DEF f
    <3> QED BY <2>1, <3>1, SumOutside
  <2>3. SumFunctionOnSet(f, {}) = 0
    BY SumEmpty
  <2> QED BY <2>2, <2>3 DEF EmptyBook, Total
<1>3. \A s \in Sides, p \in AnyPrice : EmptyBook.level[s][p] = Total(EmptyBook.orders, s, p)
  BY <1>2
<1>4. \A s \in Sides, p \in AnyPrice : EmptyBook.level[s][p] <= Total(EmptyBook.orders, s, p)
  BY <1>2
<1> QED BY <1>1, <1>3, <1>4 DEF Exact, Covered

LEMMA Initially == Init => IndInv
<1> SUFFICES ASSUME Init PROVE IndInv
  OBVIOUS
<1> USE DEF Init
<1>1. book \in Bounded
  BY EmptyIsExact, BookType
<1>2. TypeOK
  BY <1>1 DEF TypeOK, Bounded, NoOrders, Orders
<1>3. LevelCovered
  BY EmptyIsExact DEF LevelCovered, Covered
<1>4. book.orders = NoOrders /\ exch = NoOrders
  BY DEF EmptyBook
<1>5. NoPhantomLiquidity /\ PricedExchange
  BY <1>4 DEF NoPhantomLiquidity, PricedExchange, Known, Live, NoOrders
<1>6. Mirrored
  BY <1>4, EmptyIsExact DEF Mirrored
<1> QED BY <1>2, <1>3, <1>5, <1>6 DEF IndInv, Call
-----------------------------------------------------------------------------
(* What every step owes the invariant about the book itself.               *)
LEMMA BookKept ==
  ASSUME TypeOK, book' \in Books, Covered(book'), exch' \in [Ids -> Orders],
         ioc' = ioc, ownFill' \in BOOLEAN, disciplined' = disciplined
  PROVE  TypeOK' /\ LevelCovered'
<1>1. book' \in Bounded
  BY BookType
<1>2. TypeOK'
  BY <1>1 DEF TypeOK, Bounded
<1>3. LevelCovered'
  BY DEF LevelCovered, Covered
<1> QED BY <1>2, <1>3

(* The book and the exchange agree on what the event makes of one order.   *)
LEMMA Follows ==
  ASSUME IndInv, NEW id \in Ids, NEW o \in Orders, o # NoOrder => o.px # 0,
         book' \in Books, Covered(book'), Exact(book) => Exact(book'),
         book'.orders = [book.orders EXCEPT ![id] = o],
         exch' = [exch EXCEPT ![id] = o],
         ioc = NoCall, UNCHANGED <<ioc, ownFill, disciplined>>
  PROVE  IndInv'
<1>1. TypeOK /\ book \in Books /\ exch \in [Ids -> Orders] /\ ownFill \in BOOLEAN
  BY BookType DEF IndInv, TypeOK, Bounded
<1>2. exch' \in [Ids -> Orders]
  BY <1>1
<1>3. TypeOK' /\ LevelCovered'
  BY <1>1, <1>2, BookKept
<1>4. NoPhantomLiquidity'
  <2> SUFFICES ASSUME disciplined', NEW i \in Ids, Known(book, i)'
               PROVE  /\ book'.orders[i].side = exch'[i].side
                      /\ book'.orders[i].px = exch'[i].px
                      /\ book'.orders[i].qty <= exch'[i].qty
    BY DEF NoPhantomLiquidity
  <2>1. CASE i = id
    <3>1. book'.orders[i] = o /\ exch'[i] = o
      BY <1>1, <2>1 DEF Books
    <3>2. o.qty \in Nat
      BY BookAssumption DEF Orders, NoOrder, Qtys
    <3> QED BY <3>1, <3>2
  <2>2. CASE i # id
    <3>1. book'.orders[i] = book.orders[i] /\ exch'[i] = exch[i] /\ Known(book, i)
      BY <1>1, <2>2 DEF Books, Known
    <3> QED BY <3>1 DEF IndInv, NoPhantomLiquidity
  <2> QED BY <2>1, <2>2
<1>5. PricedExchange'
  BY <1>1 DEF IndInv, PricedExchange, Live
<1>6. Mirrored'
  BY <1>1 DEF IndInv, Mirrored, Books
<1>7. Call'
  BY DEF Call
<1> QED BY <1>3, <1>4, <1>5, <1>6, <1>7 DEF IndInv

(* A feed that is not disciplined only moves the book.                     *)
LEMMA Undisciplined ==
  ASSUME IndInv, ~disciplined, book' \in Books, Covered(book'),
         ioc = NoCall, UNCHANGED <<exch, ioc, ownFill, disciplined>>
  PROVE  IndInv'
<1>1. TypeOK /\ exch \in [Ids -> Orders] /\ ownFill \in BOOLEAN
  BY DEF IndInv, TypeOK
<1>2. TypeOK' /\ LevelCovered'
  BY <1>1, BookKept
<1> QED BY <1>2 DEF IndInv, NoPhantomLiquidity, PricedExchange, Mirrored, Call

LEMMA AddStep ==
  ASSUME IndInv, NEW id \in Ids, NEW side, NEW px, NEW qty, FeedInput(side, px, qty),
         Add(id, side, px, qty)
  PROVE  IndInv'
<1> DEFINE o == [side |-> side, px |-> px, qty |-> qty]
<1>1. book \in Books /\ Covered(book) /\ ioc = NoCall /\ UNCHANGED <<ioc, ownFill, disciplined>>
  BY BookType DEF IndInv, TypeOK, Bounded, LevelCovered, Covered, Add
<1>2. Keeps(book, book')
  BY <1>1, AddKeeps DEF Add
<1>3. CASE disciplined
  <2>1. side # "Unknown" /\ px # 0 /\ qty # 0
    BY <1>3 DEF Add, SaysAdd
  <2>2. o \in Orders /\ o # NoOrder /\ o.px # 0
    BY <2>1, BookAssumption DEF FeedInput, FeedSides, FeedQtys, Qtys, Orders, NoOrder
  <2>3. book'.orders = [book.orders EXCEPT ![id] = o]
    BY <1>1, <2>1, AddKeeps DEF Add
  <2>4. exch' = [exch EXCEPT ![id] = o]
    BY <1>3, <2>1 DEF Add, Exchange
  <2> HIDE DEF o
  <2> QED BY <1>1, <1>2, <2>2, <2>3, <2>4, Follows DEF Keeps
<1>4. CASE ~disciplined
  <2>1. exch' = exch
    BY <1>4 DEF Add, Exchange
  <2> QED BY <1>1, <1>2, <1>4, <2>1, Undisciplined DEF Keeps
<1> QED BY <1>3, <1>4

LEMMA ModifyStep ==
  ASSUME IndInv, NEW id \in Ids, NEW side, NEW px, NEW qty, FeedInput(side, px, qty),
         Modify(id, side, px, qty)
  PROVE  IndInv'
<1> DEFINE o == [side |-> side, px |-> px, qty |-> qty]
<1>1. /\ book \in Books /\ Covered(book) /\ exch \in [Ids -> Orders]
      /\ ioc = NoCall /\ UNCHANGED <<ioc, ownFill, disciplined>>
  BY BookType DEF IndInv, TypeOK, Bounded, LevelCovered, Covered, Modify
<1>2. Keeps(book, book')
  BY <1>1, ModifyKeeps DEF Modify
<1>3. CASE disciplined
  <2>1. side \in Sides /\ px # 0 /\ qty # 0
    BY <1>1, <1>3 DEF Modify, SaysModify, Live, Orders
  <2>2. o \in Orders /\ o # NoOrder /\ o.px # 0
    BY <2>1, BookAssumption DEF FeedInput, FeedQtys, Qtys, Orders, NoOrder
  <2>3. book'.orders = [book.orders EXCEPT ![id] = o]
    <3>1. modify(book, id, side, px, qty).orders = [book.orders EXCEPT ![id] = o]
      BY <1>1, <2>1, ModifyKeeps, SMTT(30)
    <3>2. book' = modify(book, id, side, px, qty)
      BY DEF Modify
    <3> QED BY <3>1, <3>2
  <2>4. exch' = [exch EXCEPT ![id] = o]
    BY <1>3, <2>1 DEF Modify, Exchange
  <2> HIDE DEF o
  <2> QED BY <1>1, <1>2, <2>2, <2>3, <2>4, Follows DEF Keeps
<1>4. CASE ~disciplined
  <2>1. exch' = exch
    BY <1>4 DEF Modify, Exchange
  <2> QED BY <1>1, <1>2, <1>4, <2>1, Undisciplined DEF Keeps
<1> QED BY <1>3, <1>4

LEMMA CancelStep ==
  ASSUME IndInv, NEW id \in Ids, Cancel(id)
  PROVE  IndInv'
<1>1. book \in Books /\ Covered(book) /\ ioc = NoCall /\ UNCHANGED <<ioc, ownFill, disciplined>>
  BY BookType DEF IndInv, TypeOK, Bounded, LevelCovered, Covered, Cancel
<1>2. Keeps(book, book') /\ book'.orders = [book.orders EXCEPT ![id] = NoOrder]
  BY <1>1, CancelKeeps DEF Cancel
<1>3. CASE disciplined
  <2>1. exch' = [exch EXCEPT ![id] = NoOrder] /\ NoOrder \in Orders
    BY <1>3 DEF Cancel, Exchange, NoOrder, Orders
  <2> QED BY <1>1, <1>2, <2>1, Follows DEF Keeps
<1>4. CASE ~disciplined
  <2>1. exch' = exch
    BY <1>4 DEF Cancel, Exchange
  <2> QED BY <1>1, <1>2, <1>4, <2>1, Undisciplined DEF Keeps
<1> QED BY <1>3, <1>4

(* A trade takes from the order what the exchange takes from its own; the  *)
(* book may have less of it, never more.                                   *)
LEMMA TradeStep ==
  ASSUME IndInv, NEW id \in Ids, NEW side, NEW px, NEW qty, FeedInput(side, px, qty),
         Trade(id, side, px, qty)
  PROVE  IndInv'
<1>1. /\ book \in Books /\ Covered(book) /\ exch \in [Ids -> Orders] /\ TypeOK
      /\ ioc = NoCall /\ UNCHANGED <<ioc, ownFill, disciplined>> /\ ownFill \in BOOLEAN
  BY BookType DEF IndInv, TypeOK, Bounded, LevelCovered, Covered, Trade
<1>2. book' = trade(book, id, side, px, qty)
  BY DEF Trade
<1>3. /\ book' \in Books /\ Covered(book')
      /\ Known(book, id) => (Exact(book) => Exact(book'))
  BY <1>1, <1>2, TradeKeeps DEF Keeps
<1>4. CASE ~disciplined
  <2>1. exch' = exch
    BY <1>4 DEF Trade, Exchange
  <2> QED BY <1>1, <1>3, <1>4, <2>1, Undisciplined
<1>5. CASE disciplined
  <2> DEFINE e == exch[id]
             o == book.orders[id]
  <2>1. /\ e \in Orders /\ e # NoOrder /\ e.px # 0 /\ e.side \in Sides /\ e.px \in AnyPrice
        /\ e.qty \in Qtys /\ e = [side |-> e.side, px |-> e.px, qty |-> e.qty]
        /\ qty \in 1..e.qty
    BY <1>1, <1>5 DEF Trade, SaysTrade, Live, Orders, IndInv, PricedExchange
  <2>2. e.qty \in Nat /\ qty \in Nat /\ qty > 0 /\ qty <= e.qty /\ e.qty <= MaxQty /\ MaxQty \in Nat
    BY <2>1, BookAssumption DEF Qtys
  <2>3. /\ Left(e, qty) \in Orders /\ Left(e, qty).qty = e.qty - qty
        /\ Left(e, qty) # NoOrder => Left(e, qty).px = e.px /\ Left(e, qty).side = e.side
    <3> HIDE DEF e
    <3>1. CASE e.qty <= qty
      BY <2>2, <3>1 DEF Left, NoOrder, Orders
    <3>2. CASE ~(e.qty <= qty)
      <4>1. Left(e, qty) = [side |-> e.side, px |-> e.px, qty |-> e.qty - qty]
        BY <2>1, <3>2 DEF Left
      <4>2. e.qty - qty \in Qtys
        BY <2>2, <3>2 DEF Qtys
      <4> QED BY <2>1, <4>1, <4>2 DEF Orders
    <3> QED BY <3>1, <3>2
  <2>4. exch' = [exch EXCEPT ![id] = Left(e, qty)]
    <3>1. exch' = [exch EXCEPT ![id] = IF [e EXCEPT !.qty = @ - qty].qty = 0 THEN NoOrder
                                        ELSE [e EXCEPT !.qty = @ - qty]]
      BY <1>5 DEF Trade, Exchange
    <3>2. [e EXCEPT !.qty = @ - qty].qty = e.qty - qty
      <4> HIDE DEF e
      <4> QED BY <2>1
    <3>3. (IF [e EXCEPT !.qty = @ - qty].qty = 0 THEN NoOrder
           ELSE [e EXCEPT !.qty = @ - qty]) = Left(e, qty)
      <4> HIDE DEF e
      <4> QED BY <2>2, <3>2 DEF Left
    <3> QED BY <3>1, <3>3
  <2>5. exch' \in [Ids -> Orders]
    BY <1>1, <2>3, <2>4
  <2>6. TypeOK' /\ LevelCovered'
    BY <1>1, <1>3, <2>5, BookKept
  <2>7. book'.orders = IF Known(book, id)
                       THEN [book.orders EXCEPT ![id] = Left(o, qty)] ELSE book.orders
    <3>1. trade(book, id, side, px, qty).orders =
            IF Known(book, id) /\ qty > 0
            THEN [book.orders EXCEPT ![id] = Left(book.orders[id], qty)] ELSE book.orders
      BY <1>1, TradeKeeps
    <3> QED BY <1>2, <2>2, <3>1
  <2>8. NoPhantomLiquidity'
    <3> SUFFICES ASSUME NEW i \in Ids, Known(book, i)'
                 PROVE  /\ book'.orders[i].side = exch'[i].side
                        /\ book'.orders[i].px = exch'[i].px
                        /\ book'.orders[i].qty <= exch'[i].qty
      BY DEF NoPhantomLiquidity
    <3>1. CASE i = id
      <4>1. Known(book, id) /\ book'.orders[i] = Left(o, qty) /\ exch'[i] = Left(e, qty)
        BY <1>1, <2>4, <2>7, <3>1 DEF Books, Known
      <4>2. /\ o.side = e.side /\ o.px = e.px /\ o.qty <= e.qty /\ o.qty \in Nat
            /\ o = [side |-> o.side, px |-> o.px, qty |-> o.qty]
        BY <1>1, <1>5, <4>1, BookAssumption
        DEF IndInv, NoPhantomLiquidity, Known, Books, Orders, NoOrder, Qtys
      <4>3. Left(o, qty) # NoOrder
        BY <3>1, <4>1 DEF Known
      <4> HIDE DEF o, e
      <4>4. ~(o.qty <= qty) /\ ~(e.qty <= qty)
        BY <2>2, <4>2, <4>3 DEF Left
      <4>5. /\ Left(o, qty) = [side |-> o.side, px |-> o.px, qty |-> o.qty - qty]
            /\ Left(e, qty) = [side |-> e.side, px |-> e.px, qty |-> e.qty - qty]
        BY <2>1, <4>2, <4>4 DEF Left
      <4> QED BY <2>2, <4>1, <4>2, <4>5
    <3>2. CASE i # id
      <4>1. book'.orders[i] = book.orders[i] /\ exch'[i] = exch[i] /\ Known(book, i)
        BY <1>1, <2>4, <2>7, <3>2 DEF Books, Known
      <4> QED BY <1>5, <4>1 DEF IndInv, NoPhantomLiquidity
    <3> QED BY <3>1, <3>2
  <2>9. PricedExchange'
    BY <1>1, <1>5, <2>1, <2>3, <2>4 DEF IndInv, PricedExchange, Live
  <2>10. Mirrored'
    <3> SUFFICES ASSUME ~ownFill PROVE book'.orders = exch' /\ Exact(book')
      BY <1>1 DEF Mirrored
    <3>1. book.orders = exch /\ Exact(book)
      BY <1>5 DEF IndInv, Mirrored
    <3>2. Known(book, id)
      BY <2>1, <3>1 DEF Known
    <3> QED BY <1>3, <2>4, <2>7, <3>1, <3>2
  <2>11. Call'
    BY <1>1 DEF Call
  <2> QED BY <2>6, <2>8, <2>9, <2>10, <2>11 DEF IndInv
<1> QED BY <1>4, <1>5

(* clear.                                                                  *)
LEMMA ResetStep ==
  ASSUME IndInv, Reset
  PROVE  IndInv'
<1>1. /\ book' = EmptyBook /\ exch' = NoOrders /\ ownFill' = FALSE
      /\ ioc = NoCall /\ ioc' = ioc /\ disciplined' = disciplined
  BY DEF Reset
<1>2. TypeOK' /\ LevelCovered'
  <2>1. TypeOK /\ book' \in Books /\ Covered(book')
    BY <1>1, EmptyIsExact DEF IndInv
  <2>2. exch' \in [Ids -> Orders] /\ ownFill' \in BOOLEAN
    BY <1>1 DEF NoOrders, Orders
  <2> QED BY <1>1, <2>1, <2>2, BookKept
<1>3. book'.orders = NoOrders
  BY <1>1 DEF EmptyBook
<1>4. NoPhantomLiquidity' /\ PricedExchange'
  BY <1>1, <1>3 DEF NoPhantomLiquidity, PricedExchange, Known, Live, NoOrders
<1>5. Mirrored'
  BY <1>1, <1>3, EmptyIsExact DEF Mirrored
<1>6. Call'
  BY <1>1 DEF Call
<1> QED BY <1>2, <1>4, <1>5, <1>6 DEF IndInv
-----------------------------------------------------------------------------
(* The sums of a call are integers.                                        *)
LEMMA EligibleType ==
  ASSUME NEW side \in Sides, NEW limit, NEW level \in Levels
  PROVE  /\ IsFiniteSet(AnyPrice) /\ AnyPrice \subseteq Nat
         /\ Opposite(side) \in Sides /\ Opposite(side) # side
         /\ Eligible(side, limit, level) \in Int
<1>1. Opposite(side) \in Sides /\ Opposite(side) # side
  BY DEF Opposite, Sides
<1>2. IsFiniteSet(AnyPrice) /\ AnyPrice \subseteq Nat
  BY BookAssumption, FS_AddElement DEF AnyPrice
<1> DEFINE f == [p \in AnyPrice |-> IF Within(side, limit, p) THEN level[Opposite(side)][p] ELSE 0]
<1>3. \A p \in AnyPrice : f[p] \in Int
  BY <1>1 DEF Levels
<1>4. SumFunctionOnSet(f, AnyPrice) \in Int
  <2> HIDE DEF f
  <2> QED BY <1>2, <1>3, SumType
<1> QED BY <1>1, <1>2, <1>4 DEF Eligible

(* new is level with fill taken at one price of a side.                    *)
Taken(level, new, s, px, fill) ==
  \A p \in AnyPrice : new[s][p] = level[s][p] - (IF p = px THEN fill ELSE 0)

(* One more fill, at a price within the limit, takes its quantity out of   *)
(* what is eligible.                                                       *)
LEMMA EligibleStep ==
  ASSUME NEW side \in Sides, NEW limit, NEW level \in Levels, NEW new \in Levels,
         NEW px \in AnyPrice, NEW fill \in Int, Within(side, limit, px),
         Taken(level, new, Opposite(side), px, fill)
  PROVE  Eligible(side, limit, new) = Eligible(side, limit, level) - fill
<1> DEFINE s == Opposite(side)
           f == [p \in AnyPrice |-> IF Within(side, limit, p) THEN level[s][p] ELSE 0]
           h == [p \in AnyPrice |-> IF Within(side, limit, p) THEN new[s][p] ELSE 0]
<1>1. s \in Sides /\ IsFiniteSet(AnyPrice)
  BY EligibleType
<1>2. ASSUME NEW p \in AnyPrice
      PROVE  level[s][p] \in Int /\ new[s][p] = level[s][p] - (IF p = px THEN fill ELSE 0)
  BY <1>1 DEF Levels, Taken
<1> HIDE DEF s
<1>3. /\ \A p \in AnyPrice : f[p] \in Int /\ h[p] \in Int
      /\ h[px] = f[px] - fill
  BY <1>2
<1>3a. \A p \in AnyPrice \ {px} : h[p] = f[p]
  BY <1>2
<1>4. SumFunctionOnSet(h, AnyPrice) = SumFunctionOnSet(f, AnyPrice) - f[px] + h[px]
  <2> HIDE DEF f, h
  <2>1. \A p \in AnyPrice : f[p] \in Int /\ h[p] \in Int
    BY <1>3
  <2> QED BY <1>1, <2>1, <1>3a, SumUpdate
<1>5. SumFunctionOnSet(f, AnyPrice) \in Int
  <2> HIDE DEF f, h
  <2> QED BY <1>1, <1>3, SumType
<1>6. SumFunctionOnSet(h, AnyPrice) = SumFunctionOnSet(f, AnyPrice) - fill
  <2> HIDE DEF f, h
  <2> QED BY <1>3, <1>4, <1>5
<1> QED BY <1>6 DEF Eligible, s

LEMMA AppendElements ==
  ASSUME NEW S, NEW seq \in Seq(S), NEW x \in S
  PROVE  /\ Len(seq) \in Nat /\ DOMAIN seq = 1..Len(seq)
         /\ DOMAIN Append(seq, x) = 1..(Len(seq) + 1)
         /\ \A k \in 1..Len(seq) : seq[k] \in S /\ Append(seq, x)[k] = seq[k]
         /\ Append(seq, x)[Len(seq) + 1] = x
OBVIOUS

(* One more fill adds its quantity to what was filled at its price.        *)
LEMMA FilledStep ==
  ASSUME NEW fills \in Seq([px : AnyPrice, qty : Nat]), NEW x \in [px : AnyPrice, qty : Nat],
         NEW p \in AnyPrice
  PROVE  /\ FilledAt(fills, p) \in Int
         /\ FilledAt(Append(fills, x), p)
              = FilledAt(fills, p) + (IF x.px = p THEN x.qty ELSE 0)
<1> DEFINE n == Len(fills)
           more == Append(fills, x)
           f == [k \in DOMAIN fills |-> IF fills[k].px = p THEN fills[k].qty ELSE 0]
           h == [k \in DOMAIN more |-> IF more[k].px = p THEN more[k].qty ELSE 0]
<1>1. n \in Nat /\ DOMAIN fills = 1..n /\ DOMAIN more = 1..(n + 1)
  OBVIOUS
<1>2. /\ \A k \in 1..n : fills[k].px \in AnyPrice /\ fills[k].qty \in Nat /\ more[k] = fills[k]
      /\ more[n + 1] = x
  <2> DEFINE F == [px : AnyPrice, qty : Nat]
  <2>1. fills \in Seq(F) /\ x \in F
    OBVIOUS
  <2>2. /\ \A k \in 1..n : fills[k] \in F /\ more[k] = fills[k]
        /\ more[n + 1] = x
    <3> HIDE DEF F
    <3> QED BY <2>1, AppendElements
  <2> QED BY <2>2
<1>3. /\ \A k \in 1..n : f[k] \in Int /\ h[k] = f[k]
      /\ h[n + 1] = IF x.px = p THEN x.qty ELSE 0
      /\ h[n + 1] \in Int
  <2> HIDE DEF more, n
  <2> QED BY <1>1, <1>2
<1>4. IsFiniteSet(1..n) /\ IsFiniteSet(1..(n + 1))
  BY <1>1, FS_Interval
<1>5. n + 1 \in 1..(n + 1) /\ (1..(n + 1)) \ {n + 1} = 1..n
  <2> HIDE DEF n
  <2> QED BY <1>1
<1> HIDE DEF f, h, n, more
<1>6. \A k \in 1..(n + 1) : h[k] \in Int
  <2> SUFFICES ASSUME NEW k \in 1..(n + 1) PROVE h[k] \in Int
    OBVIOUS
  <2>1. CASE k \in 1..n
    BY <1>3, <2>1
  <2>2. CASE k = n + 1
    BY <1>3, <2>2
  <2> QED BY <1>5, <2>1, <2>2
<1>7. SumFunctionOnSet(h, 1..(n + 1)) = h[n + 1] + SumFunctionOnSet(h, 1..n)
  <2> DEFINE I == 1..(n + 1)
             m == n + 1
  <2>1. IsFiniteSet(I) /\ m \in I /\ \A k \in I : h[k] \in Int
    BY <1>4, <1>5, <1>6
  <2>2. SumFunctionOnSet(h, I) = h[m] + SumFunctionOnSet(h, I \ {m})
    <3> HIDE DEF I, m
    <3> QED BY <2>1, SumRemove
  <2> QED BY <1>5, <2>2
<1>8. SumFunctionOnSet(h, 1..n) = SumFunctionOnSet(f, 1..n)
  BY <1>3, <1>4, SumEqual
<1>9. SumFunctionOnSet(f, 1..n) \in Int
  BY <1>3, <1>4, SumType
<1>10. /\ FilledAt(fills, p) = SumFunctionOnSet(f, 1..n)
       /\ FilledAt(more, p) = SumFunctionOnSet(h, 1..(n + 1))
  BY <1>1 DEF FilledAt, f, h
<1> QED BY <1>3, <1>7, <1>8, <1>9, <1>10 DEF more

(* A call starts with nothing filled.                                      *)
LEMMA MatchBeginStep ==
  ASSUME IndInv, NEW side \in Sides, NEW limit \in Prices, NEW qty \in IocQtys,
         MatchBegin(side, limit, qty)
  PROVE  IndInv'
<1>1. /\ UNCHANGED <<book, exch, ownFill, disciplined>>
      /\ ioc' = [side |-> side, limit |-> limit, qty |-> qty, left |-> qty,
                 fills |-> <<>>, before |-> book.level]
      /\ book \in Books /\ qty \in Nat
  BY BookType, BookAssumption DEF MatchBegin, IndInv, TypeOK, Bounded
<1>2. ioc' \in Calls /\ ioc'.left <= ioc'.qty
  BY <1>1 DEF Calls, Books, Levels
<1>3. TypeOK' /\ LevelCovered' /\ NoPhantomLiquidity' /\ PricedExchange' /\ Mirrored'
  BY <1>1, <1>2 DEF IndInv, TypeOK, LevelCovered, NoPhantomLiquidity, Known,
                    PricedExchange, Live, Mirrored
<1>4. Accounted'
  <2>1. ASSUME NEW p \in AnyPrice PROVE FilledAt(<<>>, p) = 0
    BY SumEmpty DEF FilledAt
  <2>2. Opposite(side) \in Sides /\ book.level \in Levels
    BY <1>1 DEF Opposite, Sides, Books
  <2>3. \A p \in AnyPrice : book.level[Opposite(side)][p] \in Int
    BY <2>2 DEF Levels
  <2> QED BY <1>1, <2>1, <2>3 DEF Accounted
<1>5. Swept' /\ BestFirst'
  BY <1>1 DEF Swept, BestFirst
<1>6. Spent'
  <2>1. Eligible(side, limit, book.level) \in Int
    BY <1>1, EligibleType DEF Books
  <2> QED BY <1>1, <2>1 DEF Spent
<1> QED BY <1>3, <1>4, <1>5, <1>6 DEF IndInv, Call

LEMMA MatchEndStep ==
  ASSUME IndInv, MatchEnd
  PROVE  IndInv'
<1>1. UNCHANGED <<book, exch, ownFill, disciplined>> /\ ioc' = NoCall
  BY DEF MatchEnd
<1> QED BY <1>1 DEF IndInv, TypeOK, LevelCovered, NoPhantomLiquidity, Known,
                    PricedExchange, Live, Mirrored, Call
-----------------------------------------------------------------------------
(* The best level of a side has quantity and none with quantity is better. *)
LEMMA BestLevel ==
  ASSUME NEW level \in Levels, NEW side \in Sides, Depth(level, Opposite(side)) # {}
  PROVE  /\ best(level, Opposite(side)) \in AnyPrice
         /\ level[Opposite(side)][best(level, Opposite(side))] > 0
         /\ \A p \in AnyPrice : level[Opposite(side)][p] > 0 =>
              p = best(level, Opposite(side)) \/ Worse(side, best(level, Opposite(side)), p)
<1> DEFINE s == Opposite(side)
           D == Depth(level, s)
<1>1. IsFiniteSet(AnyPrice) /\ AnyPrice \subseteq Nat /\ s \in Sides
  BY EligibleType
<1>2. D \in SUBSET AnyPrice
  BY DEF Depth
<1>3. IsFiniteSet(D) /\ D \subseteq Int /\ D # {}
  <2>1. IsFiniteSet(D)
    <3> HIDE DEF D
    <3> QED BY <1>1, <1>2, FS_Subset
  <2>2. D # {}
    OBVIOUS
  <2>3. D \subseteq Int
    <3> HIDE DEF D
    <3> QED BY <1>1, <1>2
  <2> QED BY <2>1, <2>2, <2>3
<1>4. /\ Max(D) \in D /\ \A y \in D : y <= Max(D)
      /\ Min(D) \in D /\ \A y \in D : Min(D) <= y
  <2> HIDE DEF D
  <2> QED BY <1>3, MaxMin
<1>5. best(level, s) = IF side = "Buy" THEN Min(D) ELSE Max(D)
  <2>1. s = "Buy" <=> side # "Buy"
    BY DEF Opposite, Sides
  <2> HIDE DEF s
  <2> QED BY <2>1 DEF best
<1>6. best(level, s) \in D
  <2> HIDE DEF D, s
  <2> QED BY <1>4, <1>5
<1>7. ASSUME NEW p \in D
      PROVE  p = best(level, s) \/ Worse(side, best(level, s), p)
  <2> HIDE DEF D, s
  <2>1. p \in Int /\ Min(D) \in Int /\ Max(D) \in Int
    BY <1>3, <1>4
  <2>2. CASE side = "Buy"
    BY <1>4, <1>5, <2>1, <2>2 DEF Worse
  <2>3. CASE side # "Buy"
    BY <1>4, <1>5, <2>1, <2>3 DEF Worse
  <2> QED BY <2>2, <2>3
<1> QED BY <1>6, <1>7 DEF Depth

LEMMA WorseThan ==
  ASSUME NEW side, NEW a \in AnyPrice, NEW b \in AnyPrice, NEW c \in AnyPrice,
         Worse(side, a, b), Worse(side, b, c)
  PROVE  Worse(side, a, c)
<1>1. a \in Int /\ b \in Int /\ c \in Int
  BY BookAssumption DEF AnyPrice
<1> QED BY <1>1 DEF Worse

(* What one round of match_ioc takes, and from where.                      *)
Round(s, px, fill, t) ==
  /\ s = Opposite(ioc.side) /\ px = best(book.level, s)
  /\ fill = Min({ioc.left, book.level[s][px]})
  /\ t \in Takes(book.orders, s, px, fill)
  /\ book' = consume_orders_at_price(book, s, px, t)

(* A round takes the same positive quantity off the best level, off the    *)
(* orders that rest there and off what is left of the call.                *)
LEMMA RoundTakes ==
  ASSUME IndInv, MatchMore, NEW s, NEW px, NEW fill, NEW t, Round(s, px, fill, t)
  PROVE  /\ ioc \in Calls /\ ioc.left <= ioc.qty /\ ioc.side \in Sides
         /\ s \in Sides /\ s # ioc.side /\ px \in AnyPrice
         /\ book \in Books /\ Covered(book)
         /\ fill \in Nat /\ fill > 0 /\ fill <= ioc.left /\ fill <= book.level[s][px]
         /\ ioc.left - fill > 0 => book.level[s][px] = fill
         /\ DOMAIN t = Resting(book.orders, s, px)
         /\ \A id \in DOMAIN t : t[id] \in 0..MaxQty /\ t[id] <= book.orders[id].qty
         /\ SumFunctionOnSet(t, DOMAIN t) = fill
         /\ \A p \in AnyPrice : book.level[s][p] > 0 => p = px \/ Worse(ioc.side, px, p)
<1>1. ioc \in Calls /\ ioc.left <= ioc.qty /\ ioc.left > 0
  BY DEF IndInv, TypeOK, MatchMore
<1>2. book \in Books /\ Covered(book) /\ book.level \in Levels /\ book.orders \in [Ids -> Orders]
  BY BookType DEF IndInv, TypeOK, Bounded, LevelCovered, Covered, Books
<1>3. ioc.side \in Sides /\ ioc.left \in Nat
  BY <1>1 DEF Calls
<1>4. s = Opposite(ioc.side) /\ px = best(book.level, s) /\ fill = Min({ioc.left, book.level[s][px]})
  BY DEF Round
<1>5. s \in Sides /\ s # ioc.side
  BY <1>2, <1>3, <1>4, EligibleType
<1>6. /\ px \in AnyPrice /\ book.level[s][px] > 0
      /\ \A p \in AnyPrice : book.level[s][p] > 0 => p = px \/ Worse(ioc.side, px, p)
  <2>1. Depth(book.level, Opposite(ioc.side)) # {}
    BY DEF MatchMore
  <2> QED BY <1>2, <1>3, <1>4, <2>1, BestLevel
<1>7. book.level[s][px] \in Nat
  BY <1>2, <1>5, <1>6 DEF Levels
<1>8. /\ fill \in Nat /\ fill > 0 /\ fill <= ioc.left /\ fill <= book.level[s][px]
      /\ ioc.left - fill > 0 => book.level[s][px] = fill
  <2>1. fill = IF ioc.left <= book.level[s][px] THEN ioc.left ELSE book.level[s][px]
    BY <1>3, <1>4, <1>7, MinOfTwo
  <2> QED BY <1>1, <1>3, <1>6, <1>7, <2>1
<1>9. fill <= Total(book.orders, s, px)
  <2>1. Total(book.orders, s, px) \in Nat
    BY <1>2, TotalType
  <2>2. book.level[s][px] <= Total(book.orders, s, px)
    BY <1>2, <1>5, <1>6 DEF Covered
  <2> QED BY <1>7, <1>8, <2>1, <2>2
<1>10. t \in Takes(book.orders, s, px, fill)
  BY DEF Round
<1>11. /\ DOMAIN t = Resting(book.orders, s, px)
       /\ \A id \in Resting(book.orders, s, px) :
            t[id] \in 0..MaxQty /\ t[id] <= book.orders[id].qty
       /\ SumFunctionOnSet(t, DOMAIN t) = fill
  BY <1>2, <1>5, <1>6, <1>8, <1>9, <1>10, TakesType
<1> QED BY <1>1, <1>2, <1>3, <1>5, <1>6, <1>8, <1>11

(* ... so that the book stays covered, the opposite levels lose the fill   *)
(* and the orders only shrink.                                             *)
LEMMA RoundKeeps ==
  ASSUME IndInv, MatchMore, NEW s, NEW px, NEW fill, NEW t, Round(s, px, fill, t)
  PROVE  /\ book' \in Books /\ Covered(book')
         /\ Taken(book.level, book'.level, s, px, fill)
         /\ \A p \in AnyPrice : book'.level[ioc.side][p] = book.level[ioc.side][p]
         /\ \A id \in Ids : book'.orders[id] # NoOrder =>
              /\ book'.orders[id].side = book.orders[id].side
              /\ book'.orders[id].px = book.orders[id].px
              /\ book'.orders[id].qty <= book.orders[id].qty
              /\ book.orders[id] # NoOrder
<1>1. /\ s \in Sides /\ s # ioc.side /\ px \in AnyPrice /\ ioc.side \in Sides
      /\ book \in Books /\ Covered(book)
      /\ fill \in Nat /\ fill > 0 /\ fill <= book.level[s][px]
      /\ DOMAIN t = Resting(book.orders, s, px)
      /\ \A id \in DOMAIN t : t[id] \in 0..MaxQty /\ t[id] <= book.orders[id].qty
      /\ SumFunctionOnSet(t, DOMAIN t) = fill
  BY RoundTakes
<1>2. book.level \in Levels /\ book.orders \in [Ids -> Orders]
  BY <1>1 DEF Books
<1>3. /\ book'.level = remove_from_level(book.level, s, px, fill)
      /\ book'.orders = Deplete(book.orders, t)
      /\ book' = [level |-> book'.level, orders |-> book'.orders]
  BY <1>1 DEF Round, consume_orders_at_price
<1>4. /\ book'.level \in Levels
      /\ \A z \in Sides, p \in AnyPrice :
           book'.level[z][p] = IF z = s /\ p = px
                               THEN IF book.level[z][p] > fill THEN book.level[z][p] - fill ELSE 0
                               ELSE book.level[z][p]
  BY <1>1, <1>2, <1>3, RemoveFromLevel
<1>5. \A z \in Sides, p \in AnyPrice :
        book'.level[z][p] = book.level[z][p] - (IF z = s /\ p = px THEN fill ELSE 0)
  <2> SUFFICES ASSUME NEW z \in Sides, NEW p \in AnyPrice
               PROVE  book'.level[z][p] = book.level[z][p] - (IF z = s /\ p = px THEN fill ELSE 0)
    OBVIOUS
  <2>1. book.level[z][p] \in Nat
    BY <1>2 DEF Levels
  <2> QED BY <1>1, <1>4, <2>1
<1>6. /\ book'.orders \in [Ids -> Orders]
      /\ \A id \in Ids : book'.orders[id] # NoOrder =>
              /\ book'.orders[id].side = book.orders[id].side
              /\ book'.orders[id].px = book.orders[id].px
              /\ book'.orders[id].qty <= book.orders[id].qty
              /\ book.orders[id] # NoOrder
  BY <1>1, <1>2, <1>3, DepleteOrders
<1>7. book' \in Books
  BY <1>3, <1>4, <1>6 DEF Books
<1>8. Covered(book')
  <2> SUFFICES ASSUME NEW z \in Sides, NEW p \in AnyPrice
               PROVE  book'.level[z][p] <= Total(book'.orders, z, p)
    BY DEF Covered
  <2>1. Total(book'.orders, z, p) = IF z = s /\ p = px THEN Total(book.orders, z, p) - fill
                                                       ELSE Total(book.orders, z, p)
    BY <1>1, <1>2, <1>3, DepleteTotal
  <2>2. Total(book.orders, z, p) \in Nat
    BY <1>2, TotalType
  <2>3. book.level[z][p] \in Nat /\ book.level[z][p] <= Total(book.orders, z, p)
    BY <1>1, <1>2 DEF Levels, Covered
  <2> QED BY <1>1, <1>5, <2>1, <2>2, <2>3
<1>9. Taken(book.level, book'.level, s, px, fill)
  BY <1>1, <1>5 DEF Taken
<1>10. \A p \in AnyPrice : book'.level[ioc.side][p] = book.level[ioc.side][p]
  <2> SUFFICES ASSUME NEW p \in AnyPrice PROVE book'.level[ioc.side][p] = book.level[ioc.side][p]
    OBVIOUS
  <2>1. book.level[ioc.side][p] \in Nat
    BY <1>1, <1>2 DEF Levels
  <2> QED BY <1>1, <1>5, <2>1
<1> QED BY <1>6, <1>7, <1>8, <1>9, <1>10

LEMMA MatchLevelStep ==
  ASSUME IndInv, MatchLevel
  PROVE  IndInv'
<1> DEFINE s == Opposite(ioc.side)
           px == best(book.level, s)
           fill == Min({ioc.left, book.level[s][px]})
           x == [px |-> px, qty |-> fill]
<1>1. MatchMore
  BY DEF MatchLevel
<1>2. PICK t : Round(s, px, fill, t)
  BY DEF MatchLevel, Round
<1>3. /\ ioc' = [ioc EXCEPT !.left = @ - fill, !.fills = Append(@, x)]
      /\ ownFill' = TRUE /\ UNCHANGED <<exch, disciplined>>
  BY DEF MatchLevel
<1>4. s = Opposite(ioc.side) /\ x = [px |-> px, qty |-> fill]
  OBVIOUS
<1>5. Within(ioc.side, ioc.limit, px)
  BY <1>1 DEF MatchMore
<1> HIDE DEF s, px, fill, x
<1>6. /\ ioc \in Calls /\ ioc.left <= ioc.qty /\ ioc.side \in Sides
      /\ s \in Sides /\ s # ioc.side /\ px \in AnyPrice
      /\ book \in Books /\ Covered(book)
      /\ fill \in Nat /\ fill > 0 /\ fill <= ioc.left /\ fill <= book.level[s][px]
      /\ ioc.left - fill > 0 => book.level[s][px] = fill
      /\ \A p \in AnyPrice : book.level[s][p] > 0 => p = px \/ Worse(ioc.side, px, p)
  BY <1>1, <1>2, RoundTakes
<1>7. /\ book' \in Books /\ Covered(book')
      /\ Taken(book.level, book'.level, s, px, fill)
      /\ \A p \in AnyPrice : book'.level[ioc.side][p] = book.level[ioc.side][p]
  BY <1>1, <1>2, RoundKeeps
<1>8. \A id \in Ids : book'.orders[id] # NoOrder =>
              /\ book'.orders[id].side = book.orders[id].side
              /\ book'.orders[id].px = book.orders[id].px
              /\ book'.orders[id].qty <= book.orders[id].qty
              /\ book.orders[id] # NoOrder
  BY <1>1, <1>2, RoundKeeps
<1> DEFINE F == [px : AnyPrice, qty : Nat]
<1>9. /\ ioc.left \in Nat /\ ioc.qty \in Nat /\ ioc.fills \in Seq(F) /\ x \in F
      /\ x.px = px /\ x.qty = fill
  BY <1>4, <1>6, BookAssumption DEF Calls
<1>10. /\ ioc'.side = ioc.side /\ ioc'.limit = ioc.limit /\ ioc'.qty = ioc.qty
       /\ ioc'.before = ioc.before
       /\ ioc'.left = ioc.left - fill /\ ioc'.fills = Append(ioc.fills, x)
  BY <1>3, <1>6 DEF Calls
<1>11. ioc' \in Calls /\ ioc'.left <= ioc'.qty
  <2>1. Append(ioc.fills, x) \in Seq(F)
    <3> HIDE DEF F
    <3> QED BY <1>9
  <2>2. ioc.left - fill \in Nat
    BY <1>6, <1>9
  <2>3. ioc' \in Calls
    BY <1>3, <1>6, <2>1, <2>2 DEF Calls
  <2> QED BY <1>6, <1>9, <1>10, <2>3
<1>12. TypeOK' /\ LevelCovered'
  <2>1. book' \in Bounded
    BY <1>7, BookType
  <2> QED BY <1>3, <1>7, <1>11, <2>1 DEF IndInv, TypeOK, Bounded, LevelCovered, Covered
<1>13. NoPhantomLiquidity'
  <2> SUFFICES ASSUME disciplined, NEW id \in Ids, book'.orders[id] # NoOrder
               PROVE  /\ book'.orders[id].side = exch[id].side
                      /\ book'.orders[id].px = exch[id].px
                      /\ book'.orders[id].qty <= exch[id].qty
    BY <1>3 DEF NoPhantomLiquidity, Known
  <2>1. /\ book.orders[id].side = exch[id].side /\ book.orders[id].px = exch[id].px
        /\ book.orders[id].qty <= exch[id].qty
    BY <1>8 DEF IndInv, NoPhantomLiquidity, Known
  <2>2. /\ book'.orders[id] \in Orders /\ book.orders[id] \in Orders /\ exch[id] \in Orders
    BY <1>6, <1>7 DEF Books, IndInv, TypeOK
  <2>3. /\ book'.orders[id].qty \in Int /\ book.orders[id].qty \in Int /\ exch[id].qty \in Int
    BY <2>2, BookAssumption DEF Orders, NoOrder, Qtys
  <2>4. book'.orders[id].qty <= book.orders[id].qty
    BY <1>8
  <2>5. book'.orders[id].qty <= exch[id].qty
    BY <2>1, <2>3, <2>4
  <2> QED BY <1>8, <2>1, <2>5
<1>14. PricedExchange' /\ Mirrored'
  BY <1>3 DEF IndInv, PricedExchange, Live, Mirrored
<1>15. ioc # NoCall /\ Accounted /\ Swept /\ BestFirst /\ Spent
  BY <1>1 DEF MatchMore, IndInv, Call
<1>16. \A p \in AnyPrice : book.level[s][p] \in Nat /\ book'.level[s][p] \in Nat
  BY <1>6, <1>7 DEF Books, Levels
<1>17. \A p \in AnyPrice :
         book'.level[s][p] = book.level[s][p] - (IF p = px THEN fill ELSE 0)
  BY <1>7 DEF Taken
<1>18. Accounted'
  <2> SUFFICES ASSUME NEW p \in AnyPrice
               PROVE  /\ book'.level[s][p] = ioc.before[s][p] - FilledAt(ioc'.fills, p)
                      /\ book'.level[ioc.side][p] = ioc.before[ioc.side][p]
    BY <1>4, <1>10 DEF Accounted
  <2>1. /\ FilledAt(ioc.fills, p) \in Int
        /\ FilledAt(Append(ioc.fills, x), p)
              = FilledAt(ioc.fills, p) + (IF x.px = p THEN x.qty ELSE 0)
    BY <1>9, FilledStep
  <2>2. /\ book.level[s][p] = ioc.before[s][p] - FilledAt(ioc.fills, p)
        /\ book.level[ioc.side][p] = ioc.before[ioc.side][p]
    BY <1>4, <1>15 DEF Accounted
  <2>3. ioc.before[s][p] \in Nat
    BY <1>6 DEF Calls
  <2> QED BY <1>6, <1>7, <1>9, <1>10, <1>17, <2>1, <2>2, <2>3
<1> DEFINE n == Len(ioc.fills)
<1>19. /\ n \in Nat /\ DOMAIN ioc.fills = 1..n /\ DOMAIN ioc'.fills = 1..(n + 1)
       /\ \A k \in 1..n : ioc.fills[k] \in F /\ ioc'.fills[k] = ioc.fills[k]
       /\ ioc'.fills[n + 1] = x
  <2> HIDE DEF F
  <2>1. /\ n \in Nat /\ DOMAIN ioc.fills = 1..n
        /\ DOMAIN Append(ioc.fills, x) = 1..(n + 1)
        /\ \A k \in 1..n : ioc.fills[k] \in F /\ Append(ioc.fills, x)[k] = ioc.fills[k]
        /\ Append(ioc.fills, x)[n + 1] = x
    BY <1>9, AppendElements
  <2> QED BY <1>10, <2>1
<1>20. px \in AnyPrice
  BY <1>6
<1> HIDE DEF n
(* Nothing better than px was left: an earlier fill was at a better price. *)
<1>21. ASSUME NEW j \in 1..n PROVE Worse(ioc.side, ioc.fills[j].px, px)
  <2>1. book.level[s][px] > 0 /\ ioc.left > 0
    BY <1>6, <1>9, <1>16
  <2> QED BY <1>4, <1>6, <1>15, <1>19, <2>1, SMTT(30) DEF Swept
<1>22. Swept'
  <2> SUFFICES ASSUME NEW j \in 1..(n + 1), NEW p \in AnyPrice, book'.level[s][p] > 0
               PROVE  \/ Worse(ioc.side, ioc'.fills[j].px, p)
                      \/ p = ioc'.fills[j].px /\ ioc'.left = 0
    BY <1>4, <1>10, <1>19 DEF Swept
  <2>1. book.level[s][p] > 0
    BY <1>6, <1>16, <1>17
  <2>2. p = px \/ Worse(ioc.side, px, p)
    BY <1>6, <2>1
  <2>3. p = px => ioc'.left = 0
    BY <1>6, <1>9, <1>10, <1>16, <1>17
  <2>4. CASE j = n + 1
    BY <1>9, <1>19, <2>2, <2>3, <2>4
  <2>5. CASE j \in 1..n
    <3>1. Worse(ioc.side, ioc.fills[j].px, px) /\ ioc.fills[j].px \in AnyPrice
      BY <1>19, <1>21, <2>5
    <3>2. Worse(ioc.side, ioc.fills[j].px, p)
      BY <1>20, <2>2, <3>1, WorseThan
    <3> QED BY <1>19, <2>5, <3>2
  <2> QED BY <1>19, <2>4, <2>5
<1>23. BestFirst'
  <2> SUFFICES ASSUME NEW j \in 1..(n + 1), NEW k \in 1..(n + 1), j < k
               PROVE  Worse(ioc.side, ioc'.fills[j].px, ioc'.fills[k].px)
    BY <1>10, <1>19 DEF BestFirst
  <2>1. j \in 1..n
    BY <1>19
  <2>2. CASE k = n + 1
    <3>1. ioc'.fills[k].px = px
      BY <1>9, <1>19, <2>2
    <3>2. ioc'.fills[j] = ioc.fills[j]
      BY <1>19, <2>1
    <3> QED BY <1>21, <2>1, <3>1, <3>2
  <2>3. CASE k \in 1..n
    BY <1>15, <1>19, <2>1, <2>3 DEF BestFirst
  <2> QED BY <1>19, <2>2, <2>3
<1>24. Spent'
  <2>1. book.level \in Levels /\ book'.level \in Levels /\ ioc.before \in Levels
    BY <1>6, <1>7 DEF Books, Calls, Levels
  <2>2. Eligible(ioc.side, ioc.limit, book'.level)
          = Eligible(ioc.side, ioc.limit, book.level) - fill
    BY <1>4, <1>5, <1>6, <1>7, <2>1, EligibleStep
  <2>3. /\ Eligible(ioc.side, ioc.limit, book.level) \in Int
        /\ Eligible(ioc.side, ioc.limit, ioc.before) \in Int
    BY <1>6, <2>1, EligibleType
  <2>4. ioc.qty - ioc.left = Eligible(ioc.side, ioc.limit, ioc.before)
                               - Eligible(ioc.side, ioc.limit, book.level)
    BY <1>15 DEF Spent
  <2> DEFINE e == Eligible(ioc.side, ioc.limit, book.level)
             e1 == Eligible(ioc.side, ioc.limit, book'.level)
             e0 == Eligible(ioc.side, ioc.limit, ioc.before)
             q == ioc.qty
             r == ioc.left
  <2>5. q - (r - fill) = e0 - e1
    <3>1. q \in Int /\ r \in Int /\ fill \in Int /\ e0 \in Int /\ e \in Int
      BY <1>6, <1>9, <2>3
    <3>2. e1 = e - fill /\ q - r = e0 - e
      BY <2>2, <2>4
    <3> HIDE DEF e, e1, e0, q, r
    <3> QED BY <3>1, <3>2
  <2>6. ioc.qty - (ioc.left - fill) = Eligible(ioc.side, ioc.limit, ioc.before)
                                        - Eligible(ioc.side, ioc.limit, book'.level)
    BY <2>5
  <2> QED BY <1>10, <2>6 DEF Spent
<1> QED BY <1>12, <1>13, <1>14, <1>18, <1>22, <1>23, <1>24 DEF IndInv, Call
-----------------------------------------------------------------------------
(* A book whose best price is outside the limit has nothing to give.       *)
LEMMA NothingEligible ==
  ASSUME NEW side \in Sides, NEW limit \in Prices, NEW level \in Levels,
         \/ Depth(level, Opposite(side)) = {}
         \/ ~Within(side, limit, best(level, Opposite(side)))
  PROVE  Eligible(side, limit, level) = 0
<1> DEFINE s == Opposite(side)
           f == [p \in AnyPrice |-> IF Within(side, limit, p) THEN level[s][p] ELSE 0]
<1>1. IsFiniteSet(AnyPrice) /\ s \in Sides
  BY EligibleType
<1>2. ASSUME NEW p \in AnyPrice, Within(side, limit, p) PROVE level[s][p] = 0
  <2>1. level[s][p] \in Nat
    BY <1>1 DEF Levels
  <2>2. CASE Depth(level, s) = {}
    BY <2>1, <2>2 DEF Depth
  <2>3. CASE Depth(level, s) # {} /\ ~Within(side, limit, best(level, s))
    <3>1. /\ best(level, s) \in AnyPrice
          /\ level[s][p] > 0 => p = best(level, s) \/ Worse(side, best(level, s), p)
      BY <2>3, BestLevel
    <3>2. best(level, s) \in Int /\ p \in Int /\ limit \in Int
      BY <3>1, BookAssumption DEF AnyPrice
    <3>3. ~Worse(side, best(level, s), p) /\ p # best(level, s)
      <4> HIDE DEF s
      <4> QED BY <1>2, <2>3, <3>2 DEF Worse, Within
    <3> QED BY <2>1, <3>1, <3>3
  <2> QED BY <2>2, <2>3
<1>3. \A p \in AnyPrice : f[p] = 0
  BY <1>2
<1>4. SumFunctionOnSet(f, AnyPrice) = 0
  <2> HIDE DEF f
  <2>1. /\ \A p \in AnyPrice : f[p] \in Int
        /\ \A p \in AnyPrice \ {} : f[p] = 0
        /\ {} \in SUBSET AnyPrice
    BY <1>3
  <2>2. SumFunctionOnSet(f, AnyPrice) = SumFunctionOnSet(f, {})
    BY <1>1, <2>1, SumOutside
  <2> QED BY <2>2, SumEmpty
<1> QED BY <1>4 DEF Eligible

(* What is eligible is never negative.                                     *)
LEMMA EligibleNat ==
  ASSUME NEW side \in Sides, NEW limit, NEW b \in Bounded
  PROVE  Eligible(side, limit, b.level) \in Int /\ Eligible(side, limit, b.level) >= 0
<1> DEFINE s == Opposite(side)
           m == MaxQty * Cardinality(Ids)
           f == [p \in AnyPrice |-> IF Within(side, limit, p) THEN b.level[s][p] ELSE 0]
<1>1. IsFiniteSet(AnyPrice) /\ s \in Sides
  <2>1. b.level \in Levels
    BY BookType DEF Books
  <2> QED BY <2>1, EligibleType
<1>2. MaxQty \in Nat /\ Cardinality(Ids) \in Nat
  BY BookAssumption, FS_CardinalityType
<1>3. m \in Nat
  BY <1>2
<1>4. \A p \in AnyPrice : f[p] \in 0..m
  <2>1. \A p \in AnyPrice : b.level[s][p] \in 0..m
    BY <1>1 DEF Bounded
  <2> HIDE DEF m
  <2> QED BY <1>3, <2>1
<1>5. SumFunctionOnSet(f, AnyPrice) \in 0..(m * Cardinality(AnyPrice))
  <2> HIDE DEF f, m
  <2> QED BY <1>1, <1>3, <1>4, SumRange
<1>6. m * Cardinality(AnyPrice) \in Int
  <2>1. Cardinality(AnyPrice) \in Nat
    BY <1>1, FS_CardinalityType
  <2> HIDE DEF m
  <2> QED BY <1>3, <2>1
<1>7. SumFunctionOnSet(f, AnyPrice) \in Int /\ SumFunctionOnSet(f, AnyPrice) >= 0
  <2> DEFINE top == m * Cardinality(AnyPrice)
             sum == SumFunctionOnSet(f, AnyPrice)
  <2>1. top \in Int /\ sum \in 0..top
    BY <1>5, <1>6
  <2> HIDE DEF top, sum
  <2>2. sum \in Int /\ sum >= 0
    BY <2>1
  <2> QED BY <2>2 DEF sum
<1> QED BY <1>7 DEF Eligible

(* The inductive invariant implies the contract of match_ioc.              *)
LEMMA ContractFollows == IndInv => IocContract
<1> SUFFICES ASSUME IndInv, ioc # NoCall
             PROVE  /\ Accounted /\ BestFirst
                    /\ ~MatchMore => ioc.qty - ioc.left
                         = Min({ioc.qty, Eligible(ioc.side, ioc.limit, ioc.before)})
  BY DEF IocContract, Accounted, BestFirst, Worse
<1>1. Accounted /\ BestFirst /\ Spent
  BY DEF IndInv, Call
<1>2. ioc \in Calls /\ ioc.left <= ioc.qty /\ book \in Bounded /\ book.level \in Levels
  BY BookType DEF IndInv, TypeOK, Bounded, Books
<1>3. /\ ioc.side \in Sides /\ ioc.limit \in Prices /\ ioc.left \in Nat /\ ioc.qty \in Nat
      /\ ioc.before \in Levels
  BY <1>2, BookAssumption DEF Calls, Levels
<1> DEFINE e0 == Eligible(ioc.side, ioc.limit, ioc.before)
           e == Eligible(ioc.side, ioc.limit, book.level)
           q == ioc.qty
           r == ioc.left
<1>4. e0 \in Int /\ e \in Int /\ e >= 0
  BY <1>2, <1>3, EligibleType, EligibleNat
<1>5. q \in Int /\ r \in Int /\ r >= 0 /\ q - r = e0 - e
  BY <1>1, <1>3 DEF Spent
<1>6. ASSUME ~MatchMore PROVE r = 0 \/ e = 0
  <2> SUFFICES ASSUME r # 0 PROVE e = 0
    OBVIOUS
  <2>1. r > 0
    BY <1>3
  <2>2. \/ Depth(book.level, Opposite(ioc.side)) = {}
        \/ ~Within(ioc.side, ioc.limit, best(book.level, Opposite(ioc.side)))
    BY <1>6, <2>1 DEF MatchMore
  <2> QED BY <1>2, <1>3, <2>2, NothingEligible
<1>7. Min({q, e0}) = IF q <= e0 THEN q ELSE e0
  <2> HIDE DEF q, e0
  <2> QED BY <1>4, <1>5, MinOfTwo
<1>8. r = 0 \/ e = 0 => q - r = Min({q, e0})
  <2> DEFINE mn == Min({q, e0})
  <2>1. mn = IF q <= e0 THEN q ELSE e0
    BY <1>7
  <2> HIDE DEF q, r, e0, e, mn
  <2>2. r = 0 \/ e = 0 => q - r = mn
    BY <1>4, <1>5, <2>1
  <2> QED BY <2>2 DEF mn
<1> QED BY <1>1, <1>6, <1>8

(* ... and that a mirrored book passes invariant_ok.                       *)
LEMMA MirrorFollows == IndInv => MirrorsExchange
<1> SUFFICES ASSUME IndInv, disciplined, ~ownFill
             PROVE  book.orders = exch /\ invariant_ok
  BY DEF MirrorsExchange
<1>1. book.orders = exch /\ Exact(book)
  BY DEF IndInv, Mirrored
<1>2. book.orders \in [Ids -> Orders]
  BY DEF IndInv, TypeOK
<1>3. \A id \in Ids : book.orders[id] # NoOrder => book.orders[id].px # 0
  BY <1>1 DEF IndInv, PricedExchange, Live
<1>4. ASSUME NEW side \in Sides PROVE Total(book.orders, side, 0) = 0
  <2> DEFINE f == Share(book.orders, side, 0)
  <2>1. \A id \in Ids : f[id] = 0
    <3> SUFFICES ASSUME NEW id \in Ids PROVE f[id] = 0
      OBVIOUS
    <3>1. CASE book.orders[id] = NoOrder
      BY <3>1 DEF Share, Resting, NoOrder, Sides
    <3>2. CASE book.orders[id] # NoOrder
      BY <1>3, <3>2 DEF Share, Resting
    <3> QED BY <3>1, <3>2
  <2>2. SumFunctionOnSet(f, Ids) = 0
    <3>1. IsFiniteSet(Ids)
      BY BookAssumption
    <3> HIDE DEF f
    <3>2. /\ \A id \in Ids : f[id] \in Int
          /\ \A id \in Ids \ {} : f[id] = 0
          /\ {} \in SUBSET Ids
      BY <2>1
    <3>3. SumFunctionOnSet(f, Ids) = SumFunctionOnSet(f, {})
      BY <3>1, <3>2, SumOutside
    <3> QED BY <3>3, SumEmpty
  <2> QED BY <2>2 DEF Total
<1>5. GoodPrices
  <2>1. \A side \in Sides : book.level[side][0] = 0
    BY <1>1, <1>4 DEF Exact, AnyPrice
  <2> QED BY <1>3, <2>1 DEF GoodPrices, Known
<1>6. IndexMatches
  BY <1>1 DEF Exact, IndexMatches
<1> QED BY <1>1, <1>5, <1>6 DEF invariant_ok
-----------------------------------------------------------------------------
(* The invariant holds in every reachable state.                           *)
THEOREM Invariance == Spec => []IndInv
<1>1. Init => IndInv
  BY Initially
<1>2. IndInv /\ [Next]_vars => IndInv'
  <2> SUFFICES ASSUME IndInv, [Next]_vars PROVE IndInv'
    OBVIOUS
  <2>1. ASSUME NEW id \in Ids, NEW side \in FeedSides, NEW px \in AnyPrice, NEW qty \in FeedQtys,
               Add(id, side, px, qty) \/ Modify(id, side, px, qty) \/ Trade(id, side, px, qty)
        PROVE  IndInv'
    <3>1. FeedInput(side, px, qty)
      BY DEF FeedInput
    <3> QED BY <2>1, <3>1, AddStep, ModifyStep, TradeStep
  <2>2. ASSUME NEW id \in Ids, Cancel(id) PROVE IndInv'
    BY <2>2, CancelStep
  <2>3. CASE Reset
    BY <2>3, ResetStep
  <2>4. ASSUME NEW side \in Sides, NEW limit \in Prices, NEW qty \in IocQtys,
               MatchBegin(side, limit, qty)
        PROVE  IndInv'
    BY <2>4, MatchBeginStep
  <2>5. CASE MatchLevel
    BY <2>5, MatchLevelStep
  <2>6. CASE MatchEnd
    BY <2>6, MatchEndStep
  <2>7. CASE UNCHANGED vars
    BY <2>7 DEF vars, IndInv, TypeOK, LevelCovered, NoPhantomLiquidity, Known, PricedExchange,
                Live, Mirrored, Call, Accounted, Swept, BestFirst, Spent
  <2> QED BY <2>1, <2>2, <2>3, <2>4, <2>5, <2>6, <2>7 DEF Next, Feed, Match
<1> QED BY <1>1, <1>2, PTL DEF Spec

(* No level or order is ever negative, whatever the feed sends.            *)
THEOREM TypeCorrect == Spec => []TypeOK
<1>1. IndInv => TypeOK
  BY DEF IndInv
<1> QED BY <1>1, Invariance, PTL

(* A level never promises more than the orders indexed at it can deliver,  *)
(* whatever the feed sends and however match_ioc walks the index.          *)
THEOREM Coverage == Spec => []LevelCovered
<1>1. IndInv => LevelCovered
  BY DEF IndInv
<1> QED BY <1>1, Invariance, PTL

(* match_ioc takes exactly its fills off the opposite side, best price     *)
(* first, and when it returns it has filled all it could within the limit. *)
THEOREM IocHolds == Spec => []IocContract
BY ContractFollows, Invariance, PTL

(* Under a disciplined feed the book never shows an order the exchange     *)
(* does not have, or more of it, own fills or not.                         *)
THEOREM NoPhantom == Spec => []NoPhantomLiquidity
<1>1. IndInv => NoPhantomLiquidity
  BY DEF IndInv
<1> QED BY <1>1, Invariance, PTL

(* Until an order of our own fills, a disciplined feed keeps the index the *)
(* exchange's and OrderBook::invariant_ok true.                            *)
THEOREM Mirrors == Spec => []MirrorsExchange
BY MirrorFollows, Invariance, PTL
=============================================================================
