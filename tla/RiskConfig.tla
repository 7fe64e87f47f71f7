----------------------------- MODULE RiskConfig -----------------------------
(***************************************************************************)
(* The limits of RiskConfig and the values every trading component shares: *)
(* venues, sides and the best bid and offer of one venue's book.           *)
(***************************************************************************)
EXTENDS Integers

CONSTANTS
  MaxOrderQty, MaxPositionQty, MaxNotional, MaxBookAge, MaxOrdersPerSec,
  MaxHedgeAttempts, MaxHedgeLoss, PriceBand,
  ForceFlatten          \* force_flatten_on_max_loss

ASSUME RiskConfigAssumption ==
  /\ MaxOrderQty \in Nat /\ MaxPositionQty \in Nat /\ MaxNotional \in Nat
  /\ MaxBookAge \in Nat /\ MaxOrdersPerSec \in Nat /\ MaxHedgeAttempts \in Nat
  /\ MaxHedgeLoss \in Nat /\ PriceBand \in Nat /\ ForceFlatten \in BOOLEAN

Venues == {"NSE", "BSE"}
Sides == {"Buy", "Sell"}

other_venue(v) == IF v = "NSE" THEN "BSE" ELSE "NSE"

(* BestQuote: a missing or one-sided quote has zeros in it.  The age is in *)
(* the unit of MaxBookAge.                                                 *)
BestQuote == [bid_px : Int, bid_qty : Int, ask_px : Int, ask_qty : Int, age : Nat]

valid(q) == q.bid_px > 0 /\ q.ask_px > 0 /\ q.bid_qty > 0 /\ q.ask_qty > 0

OrderIntent == [venue : Venues, side : Sides, px : Int, qty : Int]

Lesser(a, b) == IF a <= b THEN a ELSE b
=============================================================================
