---------------------------- MODULE HedgePolicy ----------------------------
(***************************************************************************)
(* HedgePolicy::next_order: which IOC order, if any, works off a pair's    *)
(* residual.  q[v] is the quote of venue v.                                *)
(***************************************************************************)
EXTENDS RiskConfig, PairTrade

NoIntent == [venue |-> "NSE", side |-> "Buy", px |-> 0, qty |-> 0]

Decision(send, kill, intent, reason) ==
  [should_send |-> send, kill |-> kill, intent |-> intent, reason |-> reason]

(* Sell a long residual at the bid, buy a short one at the ask, no more    *)
(* than the residual, the visible depth and the order limit.               *)
IntendedQty(p, v, q) ==
  IF residual(p) > 0
  THEN [venue |-> v, side |-> "Sell", px |-> q.bid_px, qty |-> Lesser(q.bid_qty, MaxOrderQty)]
  ELSE [venue |-> v, side |-> "Buy", px |-> q.ask_px, qty |-> Lesser(q.ask_qty, MaxOrderQty)]

HedgeIntent(p, v, q) ==
  IF residual(p) > 0
  THEN [venue |-> v, side |-> "Sell", px |-> q.bid_px,
        qty |-> Lesser(residual(p), Lesser(q.bid_qty, MaxOrderQty))]
  ELSE [venue |-> v, side |-> "Buy", px |-> q.ask_px,
        qty |-> Lesser(-residual(p), Lesser(q.ask_qty, MaxOrderQty))]

HedgeLossPerShare(p, o) ==
  LET ref == avg_buy_px(p) IN IF ref > o.px THEN ref - o.px ELSE 0

HedgeLoss(p, o) ==   \* against the average price of the side already filled
  LET buyRef == avg_buy_px(p)
      sellRef == avg_sell_px(p)
  IN  IF residual(p) > 0
      THEN IF buyRef > o.px THEN (buyRef - o.px) * o.qty ELSE 0
      ELSE IF sellRef > 0 /\ o.px > sellRef THEN (o.px - sellRef) * o.qty ELSE 0

candidate_for_venueAnyAge(p, v, q) ==
  LET o == HedgeIntent(p, v, q)
  IN  IF ~valid(q) THEN Decision(FALSE, FALSE, NoIntent, "INVALID_HEDGE_QUOTE")
      ELSE IF o.qty <= 0 THEN Decision(FALSE, FALSE, NoIntent, "NO_HEDGE_DEPTH")
      ELSE IF HedgeLoss(p, o) > MaxHedgeLoss /\ ~ForceFlatten
           THEN Decision(FALSE, TRUE, NoIntent, "MAX_HEDGE_LOSS")
      ELSE Decision(TRUE, FALSE, o, "HEDGE_ORDER")

candidate_for_venue(p, v, q) ==
  LET o == HedgeIntent(p, v, q)
  IN  IF ~valid(q) THEN Decision(FALSE, FALSE, NoIntent, "INVALID_HEDGE_QUOTE")
      ELSE IF q.age > MaxBookAge
           THEN Decision(FALSE, FALSE, NoIntent, "STALE_HEDGE_QUOTE")
      ELSE IF o.qty <= 0 THEN Decision(FALSE, FALSE, NoIntent, "NO_HEDGE_DEPTH")
      ELSE IF HedgeLoss(p, o) > MaxHedgeLoss /\ ~ForceFlatten
           THEN Decision(FALSE, TRUE, NoIntent, "MAX_HEDGE_LOSS")
      ELSE Decision(TRUE, FALSE, o, "HEDGE_ORDER")

next_order(p, q) ==
  LET preferred == IF residual(p) > 0 THEN p.sell_venue ELSE p.buy_venue
      fallback == other_venue(preferred)
      d1 == candidate_for_venue(p, preferred, q[preferred])
      d2 == candidate_for_venue(p, fallback, q[fallback])
  IN  IF residual(p) = 0 THEN Decision(FALSE, FALSE, NoIntent, "ALREADY_FLAT")
      ELSE IF p.attempts >= MaxHedgeAttempts
           THEN Decision(FALSE, TRUE, NoIntent, "MAX_HEDGE_ATTEMPTS")
      ELSE IF d1.should_send \/ d1.kill THEN d1
      ELSE IF d2.should_send \/ d2.kill THEN d2
      ELSE Decision(FALSE, TRUE, NoIntent, "NO_SAFE_HEDGE_QUOTE")
=============================================================================
