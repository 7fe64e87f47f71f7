------------------------------ MODULE PairTrade ------------------------------
(***************************************************************************)
(* hft::PairTrade: what was bought and sold for one arbitrage, alpha legs  *)
(* and hedges together.  Identifiers and timestamps are left out.          *)
(***************************************************************************)
EXTENDS Integers

PairStates == {"Planned", "Hedging", "Flat", "ErrorRecovery", "KillSwitch"}

NewPair(instrument, buy_venue, sell_venue) ==   \* from_opportunity
  [instrument |-> instrument, buy_venue |-> buy_venue, sell_venue |-> sell_venue,
   bought |-> 0, sold |-> 0, bought_notional |-> 0, sold_notional |-> 0,
   attempts |-> 0, state |-> "Planned", error |-> "none"]

residual(p) == p.bought - p.sold

avg_buy_px(p) == IF p.bought = 0 THEN 0 ELSE p.bought_notional \div p.bought
avg_sell_px(p) == IF p.sold = 0 THEN 0 ELSE p.sold_notional \div p.sold

(* The fills of one order, added up: apply_fill runs once per fill and the *)
(* last run decides the state.  An order that fills fills more than 0.     *)
AddFill(p, side, qty, notional) ==
  IF side = "Buy" THEN [p EXCEPT !.bought = @ + qty, !.bought_notional = @ + notional]
                  ELSE [p EXCEPT !.sold = @ + qty, !.sold_notional = @ + notional]
apply_fill(p, side, qty, notional) ==
  LET f == AddFill(p, side, qty, notional)
  IN  [f EXCEPT !.state = IF residual(f) = 0 THEN "Flat" ELSE "Hedging"]

mark_leg_failed(p, reason) ==
  [p EXCEPT !.error = reason,
            !.state = IF residual(p) = 0 THEN "Flat" ELSE "Hedging"]
=============================================================================
