----------------------------- MODULE OrderBook -----------------------------
(***************************************************************************)
(* hft::OrderBook: the price levels and the order index of one instrument  *)
(* at one venue, driven by the market data feed and by the simulator's own *)
(* IOC orders, which take liquidity out of the same book.                  *)
(*                                                                         *)
(* A level or an index entry that the maps do not hold is one of quantity  *)
(* 0.  Price 0 stands for every price that is not positive.  Order id 0 is *)
(* never in the index; an event about it is an event about an unknown id.  *)
(***************************************************************************)
EXTENDS Integers, Sequences, FiniteSets, FiniteSetsExt

CONSTANTS
  Ids,          \* order ids of the feed
  Prices,       \* positive prices
  MaxQty,       \* bound: quantity of one order
  IocQtys,      \* quantities of the simulator's own IOC orders
  FeedKinds     \* which feeds: disciplined ones (TRUE), any (FALSE), or both

ASSUME BookAssumption ==
  /\ IsFiniteSet(Ids) /\ IsFiniteSet(Prices)
  /\ Prices \subseteq Nat \ {0} /\ MaxQty \in Nat \ {0}
  /\ IocQtys \subseteq Nat \ {0} /\ FeedKinds \subseteq BOOLEAN

VARIABLES
  book,   \* bids_ and asks_ (level) and orders_ (orders)
  ioc,    \* the match_ioc call under way, or NoCall
  exch,   \* the exchange's own view of its resting orders
  ownFill, \* history: an order of our own has filled since the book was empty
  disciplined \* the feed is that of an exchange which knows its orders

vars == <<book, ioc, exch, ownFill, disciplined>>

Sides == {"Buy", "Sell"}
AnyPrice == Prices \cup {0}
Qtys == 1..MaxQty

NoOrder == [side |-> "Unknown", px |-> 0, qty |-> 0]
Orders == {NoOrder} \cup [side : Sides, px : AnyPrice, qty : Qtys]
NoOrders == [id \in Ids |-> NoOrder]
EmptyBook == [level |-> [s \in Sides |-> [p \in AnyPrice |-> 0]], orders |-> NoOrders]
NoCall == [side |-> "none"]

Init ==
  /\ book = EmptyBook /\ ioc = NoCall /\ exch = NoOrders /\ ownFill = FALSE
  /\ disciplined \in FeedKinds
-----------------------------------------------------------------------------
(* The operations of the book, each from a book b to the next one.         *)

remove_from_levelKeep(level, side, px, qty) ==
  [level EXCEPT ![side][px] = IF @ = 0 THEN 0 ELSE @ - qty]
remove_from_level(level, side, px, qty) ==   \* an emptied level is erased
  [level EXCEPT ![side][px] = IF @ > qty THEN @ - qty ELSE 0]

Place(b, id, side, px, qty) ==
  [level |-> [b.level EXCEPT ![side][px] = @ + qty],
   orders |-> [b.orders EXCEPT ![id] = [side |-> side, px |-> px, qty |-> qty]]]

Known(b, id) == b.orders[id] # NoOrder

cancel(b, id) ==
  LET o == b.orders[id]
  IN  IF Known(b, id)
      THEN [level |-> remove_from_level(b.level, o.side, o.px, o.qty),
            orders |-> [b.orders EXCEPT ![id] = NoOrder]]
      ELSE b

add(b, id, side, px, qty) ==
  IF side = "Unknown" \/ px = 0 \/ qty = 0 THEN b
  ELSE Place(cancel(b, id), id, side, px, qty)

modifyInPlace(b, id, side, px, qty) ==   \* forgets the old level
  IF qty = 0 THEN cancel(b, id)
  ELSE Place(b, id, IF side = "Unknown" THEN "Buy" ELSE side, px, qty)
modify(b, id, side, px, qty) ==
  LET o == b.orders[id]
  IN  IF ~Known(b, id) THEN add(b, id, side, px, qty)
      ELSE IF qty = 0 THEN cancel(b, id)
      ELSE Place(cancel(b, id), id, IF side = "Unknown" THEN o.side ELSE side, px, qty)

(* A trade names the resting order; one that is not in the index still     *)
(* takes its quantity off the level the event names.                       *)
tradeIndexOnly(b, id, side, px, qty) ==
  LET o == b.orders[id]
  IN  [b EXCEPT !.orders[id] = IF o.qty > qty THEN [o EXCEPT !.qty = @ - qty] ELSE NoOrder]
tradeLevelOnly(b, id, side, px, qty) ==
  LET o == b.orders[id]
  IN  IF qty = 0 THEN b
      ELSE IF Known(b, id)
           THEN [b EXCEPT !.level = remove_from_level(@, o.side, o.px, Min({qty, o.qty}))]
      ELSE b
trade(b, id, side, px, qty) ==
  LET o == b.orders[id]
      consumed == Min({qty, o.qty})
  IN  IF qty = 0 THEN b
      ELSE IF Known(b, id)
           THEN [level |-> remove_from_level(b.level, o.side, o.px, consumed),
                 orders |-> [b.orders EXCEPT ![id] =
                               IF o.qty = consumed THEN NoOrder
                               ELSE [o EXCEPT !.qty = @ - consumed]]]
      ELSE IF side # "Unknown" /\ px # 0
           THEN [b EXCEPT !.level = remove_from_level(@, side, px, qty)]
      ELSE b
-----------------------------------------------------------------------------
(* What a disciplined feed may say: it adds new orders, modifies, cancels  *)
(* and trades live ones and names them by their own side and price.        *)
Live(id) == exch[id] # NoOrder

SaysAdd(id, side, px, qty) == side # "Unknown" /\ px # 0 /\ qty # 0 /\ ~Live(id)
SaysModify(id, side, px, qty) == Live(id) /\ side = exch[id].side /\ px # 0 /\ qty # 0
SaysCancel(id) == Live(id)
SaysTrade(id, side, px, qty) ==
  Live(id) /\ side = exch[id].side /\ px = exch[id].px /\ qty \in 1..exch[id].qty

Exchange(id, o) ==
  exch' = IF disciplined THEN [exch EXCEPT ![id] = IF o.qty = 0 THEN NoOrder ELSE o]
          ELSE exch

(* apply: one action per event type.  HEARTBEAT and unknown events change  *)
(* nothing here.                                                           *)
Add(id, side, px, qty) ==
  /\ ioc = NoCall
  /\ disciplined => SaysAdd(id, side, px, qty)
  /\ book' = add(book, id, side, px, qty)
  /\ Exchange(id, [side |-> side, px |-> px, qty |-> qty])
  /\ UNCHANGED <<ioc, ownFill, disciplined>>

Modify(id, side, px, qty) ==
  /\ ioc = NoCall
  /\ disciplined => SaysModify(id, side, px, qty)
  /\ book' = modify(book, id, side, px, qty)
  /\ Exchange(id, [side |-> side, px |-> px, qty |-> qty])
  /\ UNCHANGED <<ioc, ownFill, disciplined>>

Cancel(id) ==
  /\ ioc = NoCall
  /\ disciplined => SaysCancel(id)
  /\ book' = cancel(book, id)
  /\ Exchange(id, NoOrder)
  /\ UNCHANGED <<ioc, ownFill, disciplined>>

Trade(id, side, px, qty) ==
  /\ ioc = NoCall
  /\ disciplined => SaysTrade(id, side, px, qty)
  /\ book' = trade(book, id, side, px, qty)
  /\ Exchange(id, [exch[id] EXCEPT !.qty = @ - qty])
  /\ UNCHANGED <<ioc, ownFill, disciplined>>

Reset ==
  /\ ioc = NoCall
  /\ book' = EmptyBook
  /\ exch' = NoOrders
  /\ ownFill' = FALSE
  /\ UNCHANGED <<ioc, disciplined>>
-----------------------------------------------------------------------------
(* match_ioc.                                                              *)
Opposite(side) == IF side = "Buy" THEN "Sell" ELSE "Buy"

Depth(level, side) == {p \in AnyPrice : level[side][p] > 0}
bestLast(level, side) ==
  IF side = "Buy" THEN Min(Depth(level, side)) ELSE Max(Depth(level, side))
best(level, side) ==
  IF side = "Buy" THEN Max(Depth(level, side)) ELSE Min(Depth(level, side))

Within(side, limit, px) == IF side = "Buy" THEN px <= limit ELSE px >= limit

Resting(orders, side, px) == {id \in Ids : orders[id].side = side /\ orders[id].px = px}
Share(orders, side, px) ==
  [id \in Ids |-> IF id \in Resting(orders, side, px) THEN orders[id].qty ELSE 0]
Total(orders, side, px) == SumFunctionOnSet(Share(orders, side, px), Ids)

(* consume_orders_at_price walks orders_, an unordered_map, so any order   *)
(* of the resting ids is possible: all but one are taken whole or not at   *)
(* all.                                                                    *)
Takes(orders, side, px, qty) ==
  LET R == Resting(orders, side, px)
  IN  {t \in [R -> 0..MaxQty] :
         /\ \A id \in R : t[id] <= orders[id].qty
         /\ SumFunctionOnSet(t, R) = Min({qty, Total(orders, side, px)})
         /\ Cardinality({id \in R : t[id] \notin {0, orders[id].qty}}) <= 1}

Deplete(orders, t) ==   \* t[id]: what order id gives
  [id \in Ids |->
     IF id \notin DOMAIN t THEN orders[id]
     ELSE IF t[id] = orders[id].qty THEN NoOrder
     ELSE [orders[id] EXCEPT !.qty = @ - t[id]]]

consume_orders_at_price(b, side, px, t) ==
  [level |-> remove_from_level(b.level, side, px, SumFunctionOnSet(t, DOMAIN t)),
   orders |-> Deplete(b.orders, t)]

MatchBegin(side, limit, qty) ==
  /\ ioc = NoCall
  /\ ioc' = [side |-> side, limit |-> limit, qty |-> qty, left |-> qty,
             fills |-> <<>>, before |-> book.level]
  /\ UNCHANGED <<book, exch, ownFill, disciplined>>

MatchMore ==
  /\ ioc # NoCall /\ ioc.left > 0
  /\ Depth(book.level, Opposite(ioc.side)) # {}
  /\ Within(ioc.side, ioc.limit, best(book.level, Opposite(ioc.side)))

MatchLevel ==
  LET side == Opposite(ioc.side)
      px == best(book.level, side)
      fill == Min({ioc.left, book.level[side][px]})
  IN  /\ MatchMore
      /\ \E t \in Takes(book.orders, side, px, fill) :
            book' = consume_orders_at_price(book, side, px, t)
      /\ ioc' = [ioc EXCEPT !.left = @ - fill, !.fills = Append(@, [px |-> px, qty |-> fill])]
      /\ ownFill' = TRUE
      /\ UNCHANGED <<exch, disciplined>>

MatchEnd ==
  /\ ioc # NoCall /\ ~MatchMore
  /\ ioc' = NoCall
  /\ UNCHANGED <<book, exch, ownFill, disciplined>>
-----------------------------------------------------------------------------
FeedSides == Sides \cup {"Unknown"}
FeedQtys == 0..MaxQty

Feed ==
  \/ \E id \in Ids, side \in FeedSides, px \in AnyPrice, qty \in FeedQtys :
        Add(id, side, px, qty) \/ Modify(id, side, px, qty) \/ Trade(id, side, px, qty)
  \/ \E id \in Ids : Cancel(id)
  \/ Reset

Match == MatchLevel \/ MatchEnd

Next ==
  \/ Feed
  \/ \E side \in Sides, limit \in Prices, qty \in IocQtys : MatchBegin(side, limit, qty)
  \/ Match

Spec == Init /\ [][Next]_vars
-----------------------------------------------------------------------------
Calls ==
  [side : Sides, limit : Prices, qty : IocQtys, left : Nat,
   fills : Seq([px : AnyPrice, qty : Nat]), before : [Sides -> [AnyPrice -> Nat]]]

(* Levels and quantities are never negative and a call's remainder never   *)
(* exceeds what was asked.                                                 *)
TypeOK ==
  /\ book \in [level : [Sides -> [AnyPrice -> 0..(MaxQty * Cardinality(Ids))]],
               orders : [Ids -> Orders]]
  /\ exch \in [Ids -> Orders]
  /\ ioc = NoCall \/ (ioc \in Calls /\ ioc.left <= ioc.qty)
  /\ ownFill \in BOOLEAN /\ disciplined \in FeedKinds

(* Whatever the feed sends, a price level never promises more than the     *)
(* orders indexed at it can deliver, so match_ioc never reports a fill     *)
(* that consume_orders_at_price did not take from an order.                *)
LevelCovered ==
  \A side \in Sides, px \in AnyPrice :
    book.level[side][px] <= Total(book.orders, side, px)

(* The contract of match_ioc: while it runs it has taken, best price       *)
(* first, exactly its fills off the opposite side and nothing else, and    *)
(* when it returns it has filled all it could within the limit.            *)
FilledAt(fills, px) ==
  SumFunctionOnSet([k \in DOMAIN fills |-> IF fills[k].px = px THEN fills[k].qty ELSE 0],
                   DOMAIN fills)

Eligible(side, limit, level) ==
  SumFunctionOnSet([p \in AnyPrice |->
                      IF Within(side, limit, p) THEN level[Opposite(side)][p] ELSE 0],
                   AnyPrice)

IocContract ==
  ioc # NoCall =>
    /\ \A px \in AnyPrice :
         /\ book.level[Opposite(ioc.side)][px]
              = ioc.before[Opposite(ioc.side)][px] - FilledAt(ioc.fills, px)
         /\ book.level[ioc.side][px] = ioc.before[ioc.side][px]
    /\ \A j, k \in DOMAIN ioc.fills : j < k =>
         IF ioc.side = "Buy" THEN ioc.fills[j].px < ioc.fills[k].px
                             ELSE ioc.fills[j].px > ioc.fills[k].px
    /\ ~MatchMore =>
         ioc.qty - ioc.left = Min({ioc.qty, Eligible(ioc.side, ioc.limit, ioc.before)})

(* With a disciplined feed the book never shows an order the exchange does *)
(* not have, or more of it, even though our own fills take quantity out of *)
(* the book that the exchange keeps reporting on.                          *)
NoPhantomLiquidity ==
  disciplined =>
    \A id \in Ids : Known(book, id) =>
      /\ book.orders[id].side = exch[id].side /\ book.orders[id].px = exch[id].px
      /\ book.orders[id].qty <= exch[id].qty

(* OrderBook::invariant_ok: no bad price, and every level is exactly the   *)
(* sum of the orders indexed at it.                                        *)
GoodPrices ==
  /\ \A side \in Sides : book.level[side][0] = 0
  /\ \A id \in Ids : Known(book, id) => book.orders[id].px # 0

IndexMatches ==
  \A side \in Sides, px \in AnyPrice :
    book.level[side][px] > 0 => book.level[side][px] = Total(book.orders, side, px)

invariant_ok == GoodPrices /\ IndexMatches

(* With a disciplined feed and until an order of our own fills, the index  *)
(* is the exchange's and invariant_ok holds.                               *)
MirrorsExchange == disciplined /\ ~ownFill => book.orders = exch /\ invariant_ok
=============================================================================
