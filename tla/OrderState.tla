----------------------------- MODULE OrderState -----------------------------
(***************************************************************************)
(* What OrderManager keeps and how an execution report changes it.  An     *)
(* OrderManager m with its PositionBook is a record: orders, the order of  *)
(* each client id (ids count up from 1), fills, every fill in the order it *)
(* was reported, and net and cash, the position per instrument.  Of the    *)
(* timestamps only whether ts_done_ns has been set is kept.                *)
(***************************************************************************)
EXTENDS Integers, Sequences

NewOrder(intent) ==
  [intent |-> intent, filled |-> 0, state |-> "Sent", done |-> FALSE, err |-> "none"]

known_order(m, id) == id \in DOMAIN m.orders

OnAckAnyState(o) == [o EXCEPT !.state = "Acked"]
OnAck(o) == IF o.state = "Sent" THEN [o EXCEPT !.state = "Acked"] ELSE o

OnFillNeverDone(o, qty) ==
  [o EXCEPT !.filled = @ + qty,
            !.state = IF o.filled + qty >= o.intent.qty THEN "Filled" ELSE "Partial"]
OnFill(o, qty) ==
  LET full == o.filled + qty >= o.intent.qty
  IN  [o EXCEPT !.filled = @ + qty, !.state = IF full THEN "Filled" ELSE "Partial",
                !.done = @ \/ full]

OnEnd(o, type, reason) ==   \* Reject, Expire and Cancel
  [o EXCEPT !.done = TRUE,
            !.state = IF type = "Cancel" THEN "Canceled"
                      ELSE IF o.filled > 0 THEN "Partial"
                      ELSE IF type = "Reject" THEN "Rejected" ELSE "Expired",
            !.err = IF type = "Cancel" THEN @ ELSE reason]

OrderAfter(o, r) ==
  CASE r.type = "Ack" -> OnAck(o)
    [] r.type = "Fill" -> OnFill(o, r.qty)
    [] OTHER -> OnEnd(o, r.type, r.reason)

(* PositionBook::apply_fill: what a fill adds to net_qty and cash_paise.   *)
Signed(side, n) == IF side = "Buy" THEN n ELSE -n

(* A report about an order nobody submitted is dropped.                    *)
on_report(m, r) ==
  LET i == m.orders[r.id].intent
      n == Signed(i.side, r.qty)
  IN  IF ~known_order(m, r.id) THEN m
      ELSE IF r.type # "Fill"
           THEN [m EXCEPT !.orders[r.id] = OrderAfter(@, r)]
      ELSE [m EXCEPT !.orders[r.id] = OrderAfter(@, r),
                     !.fills = Append(@, [id |-> r.id, side |-> i.side, px |-> r.px, qty |-> r.qty]),
                     !.net[i.instrument] = @ + n,
                     !.cash[i.instrument] = @ - n * r.px]
=============================================================================
