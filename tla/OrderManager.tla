---------------------------- MODULE OrderManager ----------------------------
(***************************************************************************)
(* OrderManager between a strategy that submits IOC orders and collects    *)
(* fills and a gateway that reports on them.  submit applies the reports   *)
(* send returns; the others come later through on_report, in any order,    *)
(* some twice, and they may come while send is still running.              *)
(***************************************************************************)
EXTENDS OrderState, FiniteSets, FiniteSetsExt, SequencesExt

CONSTANTS
  Intents,     \* the orders the strategy may submit
  Prices,      \* the prices at which the exchange may fill
  MaxOrders,   \* bound: orders submitted
  MaxDup       \* bound: reports delivered twice

ASSUME OrdersAssumption ==
  /\ \A i \in Intents : i.qty \in Nat \ {0} /\ i.side \in {"Buy", "Sell"}
  /\ Prices \subseteq Nat /\ MaxOrders \in Nat /\ MaxDup \in Nat

VARIABLES
  oms,        \* the OrderManager and its PositionBook
  consumed,   \* consumed_fills_
  handed,     \* history: the fills take_new_fills has handed out
  exch,       \* per order, what the exchange did: its reports in order
  calling,    \* the order whose submit is under way, or 0
  returned,   \* the reports send has returned to it
  inflight,   \* the reports on their way
  doubled     \* history: the reports delivered twice

vars == <<oms, consumed, handed, exch, calling, returned, inflight, doubled>>

Instruments == {i.instrument : i \in Intents}
Flat == [i \in Instruments |-> 0]

Init ==
  /\ oms = [orders |-> <<>>, fills |-> <<>>, net |-> Flat, cash |-> Flat]
  /\ consumed = 0 /\ handed = <<>>
  /\ exch = <<>>
  /\ calling = 0 /\ returned = <<>> /\ inflight = {} /\ doubled = {}
-----------------------------------------------------------------------------
(* What an exchange may report of an order of quantity qty: a rejection,   *)
(* or an acknowledgement, fills, and where they leave a rest an expiry or  *)
(* a cancellation of it.                                                   *)
Report(type, qty, px) == [type |-> type, qty |-> qty, px |-> px, reason |-> "REASON"]
Fills(qty) == {Report("Fill", n, px) : n \in 1..qty, px \in Prices}
Ends == {Report("Expire", 0, 0), Report("Cancel", 0, 0)}
Filling(s) == SumFunction([k \in DOMAIN s |-> s[k].qty])

Outcomes(qty) ==
  {<<Report("Reject", 0, 0)>>}
    \cup {s \in SeqOf({Report("Ack", 0, 0)} \cup Fills(qty) \cup Ends, qty + 1) :
            /\ Len(s) > 1 /\ Filling(s) <= qty
            /\ \A k \in DOMAIN s :
                 s[k] \in IF k = 1 THEN {Report("Ack", 0, 0)}
                         ELSE IF k < Len(s) \/ Filling(s) = qty THEN Fills(qty)
                         ELSE Ends}

Numbered(id, s) ==
  [k \in DOMAIN s |-> [id |-> id, n |-> k, type |-> s[k].type, qty |-> s[k].qty,
                       px |-> s[k].px, reason |-> s[k].reason]]

(* submit: the order is in the map before the gateway sees it.  send       *)
(* returns the first k of its reports.                                     *)
Sent(id, s) ==
  /\ exch' = Append(exch, s)
  /\ calling' = id
  /\ \E k \in 0..Len(s) :
       /\ returned' = SubSeq(s, 1, k)
       /\ inflight' = inflight \cup {s[j] : j \in (k + 1)..Len(s)}
  /\ UNCHANGED <<consumed, handed, doubled>>

Submit(intent) ==
  LET id == Len(exch) + 1   \* next_order
  IN  /\ calling = 0 /\ id <= MaxOrders
      /\ oms' = [oms EXCEPT !.orders = Append(@, NewOrder(intent))]
      /\ \E s \in Outcomes(intent.qty) : Sent(id, Numbered(id, s))

SubmitReturns ==
  /\ calling # 0
  /\ oms' = FoldLeft(on_report, oms, returned)
  /\ calling' = 0 /\ returned' = <<>>
  /\ UNCHANGED <<consumed, handed, exch, inflight, doubled>>

(* on_report from outside: a late report, in any order ...                 *)
Deliver ==
  \E r \in inflight :
    /\ oms' = on_report(oms, r)
    /\ inflight' = inflight \ {r}
    /\ UNCHANGED <<consumed, handed, exch, calling, returned, doubled>>

DeliverTwice ==   \* ... that may come once more
  \E r \in inflight :
    /\ Cardinality(doubled) < MaxDup
    /\ oms' = on_report(oms, r)
    /\ doubled' = doubled \cup {r}
    /\ UNCHANGED <<consumed, handed, exch, calling, returned, inflight>>

take_new_fillsAgain ==
  /\ calling = 0 /\ consumed < Len(oms.fills)
  /\ handed' = handed \o SubSeq(oms.fills, consumed + 1, Len(oms.fills))
  /\ UNCHANGED <<oms, consumed, exch, calling, returned, inflight, doubled>>
take_new_fills ==
  /\ calling = 0 /\ consumed < Len(oms.fills)
  /\ handed' = handed \o SubSeq(oms.fills, consumed + 1, Len(oms.fills))
  /\ consumed' = Len(oms.fills)
  /\ UNCHANGED <<oms, exch, calling, returned, inflight, doubled>>
-----------------------------------------------------------------------------
Idle == calling = 0 /\ inflight = {} /\ UNCHANGED vars

Next ==
  \/ \E intent \in Intents : Submit(intent)
  \/ SubmitReturns \/ Deliver \/ DeliverTwice \/ take_new_fills
  \/ Idle

(* send returns, and a report that is on its way arrives.                  *)
Spec == Init /\ [][Next]_vars /\ WF_vars(SubmitReturns) /\ WF_vars(Deliver)
-----------------------------------------------------------------------------
(* Reconciler: a fill of an order OrderManager does not know.              *)
on_external_fill(id) == IF known_order(oms, id) THEN "none" ELSE "ORPHAN_FILL"

(* What the recorded fills add up to: in an instrument, and of an order.   *)
Shares(m, k) == Signed(m.fills[k].side, m.fills[k].qty)
InstrumentFills(m, i) ==
  {k \in DOMAIN m.fills : m.orders[m.fills[k].id].intent.instrument = i}
OrderFills(m, id) == {k \in DOMAIN m.fills : m.fills[k].id = id}

Balanced(m) ==
  /\ \A i \in Instruments :
       /\ m.net[i] = SumFunctionOnSet([k \in DOMAIN m.fills |-> Shares(m, k)],
                                      InstrumentFills(m, i))
       /\ m.cash[i] = -SumFunctionOnSet([k \in DOMAIN m.fills |-> Shares(m, k) * m.fills[k].px],
                                        InstrumentFills(m, i))
  /\ \A id \in DOMAIN m.orders :
       m.orders[id].filled = SumFunctionOnSet([k \in DOMAIN m.fills |-> m.fills[k].qty],
                                              OrderFills(m, id))

(* The books balance: the position and the cash of an instrument are those *)
(* of the recorded fills, each order's filled_qty is that of its own       *)
(* fills, take_new_fills hands every fill out once and in order, and no    *)
(* report of ours, however early it comes, is an orphan.                   *)
Ledger ==
  /\ Balanced(oms)
  /\ handed = SubSeq(oms.fills, 1, consumed)
  /\ \A r \in inflight \cup ToSet(returned) : on_external_fill(r.id) = "none"

Settled(id) ==
  /\ calling # id
  /\ \A r \in inflight : r.id # id
  /\ \A r \in doubled : r.id = id => r.type # "Fill"

(* Once every report about an order has arrived the OrderManager knows     *)
(* what the exchange knows, in whatever order they came: the order is as   *)
(* if they had come in order.  Only whether a cancelled order that had     *)
(* filled in part is called Canceled or Partial depends on the order.      *)
Converges ==
  \A id \in DOMAIN exch :
    Settled(id) =>
      LET inOrder == FoldLeft(OrderAfter, NewOrder(oms.orders[id].intent), exch[id])
          o == oms.orders[id]
      IN  /\ o.filled = Filling(exch[id])
          /\ \/ o = inOrder
             \/ inOrder.state = "Canceled" /\ o = [inOrder EXCEPT !.state = "Partial"] /\ o.filled > 0

(* Every order that is submitted is done in the end.                       *)
OrdersFinish ==
  \A id \in 1..MaxOrders :
    id \in DOMAIN exch ~> id \in DOMAIN oms.orders /\ oms.orders[id].done
=============================================================================
