----------------------------- MODULE RiskEngine -----------------------------
(***************************************************************************)
(* RiskEngine::check_order and the RateLimiter it consults.  A decision is *)
(* the name of the first rule that blocks the order, or "APPROVED".        *)
(***************************************************************************)
EXTENDS RiskConfig

(* RateLimiter: one bucket per instrument, the count of the second it was  *)
(* last asked about.                                                       *)
Bucket == [count : Nat, sec : Nat]

NoRoll(b, sec) == b
Roll(b, sec) == IF b.sec # sec THEN [count |-> 0, sec |-> sec] ELSE b

AllowAny(b, sec) == TRUE
Allow(b, sec) == Roll(b, sec).count < MaxOrdersPerSec

signed_effect(o) == IF o.side = "Buy" THEN o.qty ELSE -o.qty

PositionBefore(o, net) == net \in (-MaxPositionQty)..MaxPositionQty
InsidePosition(o, net) ==
  net + signed_effect(o) \in (-MaxPositionQty)..MaxPositionQty

InsideBand(o, q) ==
  IF o.side = "Buy" THEN o.px <= q.ask_px + PriceBand
                    ELSE o.px >= q.bid_px - PriceBand

Rules == {"KILL_SWITCH", "INVALID_QUOTE", "STALE_BOOK", "MAX_QTY", "BAD_PRICE",
          "MAX_NOTIONAL", "MAX_POSITION", "PRICE_BAND", "ORDER_RATE"}

(* The guards in the order of the early returns; the limiter is asked last *)
(* and only about an order that passed everything else.                    *)
check_orderNoKill(o, q, enabled, net, bucket, sec) ==
  IF ~valid(q) \/ q.age > MaxBookAge THEN "INVALID_QUOTE"
  ELSE IF o.qty <= 0 \/ o.qty > MaxOrderQty THEN "MAX_QTY"
  ELSE IF ~InsidePosition(o, net) THEN "MAX_POSITION"
  ELSE IF ~Allow(bucket, sec) THEN "ORDER_RATE"
  ELSE "APPROVED"

check_order(o, q, enabled, net, bucket, sec) ==
  IF ~enabled THEN "KILL_SWITCH"
  ELSE IF ~valid(q) THEN "INVALID_QUOTE"
  ELSE IF q.age > MaxBookAge THEN "STALE_BOOK"
  ELSE IF o.qty <= 0 \/ o.qty > MaxOrderQty THEN "MAX_QTY"
  ELSE IF o.px <= 0 THEN "BAD_PRICE"
  ELSE IF o.qty * o.px > MaxNotional THEN "MAX_NOTIONAL"
  ELSE IF ~InsidePosition(o, net) THEN "MAX_POSITION"
  ELSE IF ~InsideBand(o, q) THEN "PRICE_BAND"
  ELSE IF ~Allow(bucket, sec) THEN "ORDER_RATE"
  ELSE "APPROVED"

(* What the call leaves in the bucket.                                     *)
BucketAfter(rule, b, sec) ==
  IF rule = "APPROVED" THEN [Roll(b, sec) EXCEPT !.count = @ + 1]
  ELSE IF rule = "ORDER_RATE" THEN Roll(b, sec)
  ELSE b
=============================================================================
