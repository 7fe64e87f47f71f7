------------------------- MODULE ArbitrageStrategy -------------------------
(***************************************************************************)
(* ArbitrageStrategy::evaluate with the CostModel it charges.  An          *)
(* opportunity buys at one venue's ask and sells at the other's bid.       *)
(***************************************************************************)
EXTENDS RiskConfig

CONSTANTS
  StrategyMaxQty, StrategyMaxBookAge, MinVisibleQty, MinNetEdge,  \* StrategyConfig
  Fees, Taxes, Buffers, CostMinNetEdge                            \* CostModel

ASSUME StrategyAssumption ==
  /\ StrategyMaxQty \in Int /\ StrategyMaxBookAge \in Nat
  /\ MinVisibleQty \in Int /\ MinNetEdge \in Int
  /\ Fees \in Int /\ Taxes \in Int /\ Buffers \in Int /\ CostMinNetEdge \in Int

all_in_cost == 2 * (Fees + Taxes) + Buffers

(* q[v] is the quote of venue v.                                           *)
try_direction(buy_venue, sell_venue, q) ==
  [buy_venue |-> buy_venue, sell_venue |-> sell_venue,
   buy_px |-> q[buy_venue].ask_px, sell_px |-> q[sell_venue].bid_px,
   net_edge |-> (q[sell_venue].bid_px - q[buy_venue].ask_px) - all_in_cost,
   qty |-> Lesser(q[buy_venue].ask_qty, Lesser(q[sell_venue].bid_qty, StrategyMaxQty))]

best_opportunity(q) ==
  LET a == try_direction("BSE", "NSE", q)
      b == try_direction("NSE", "BSE", q)
  IN  IF a.net_edge >= b.net_edge THEN a ELSE b

threshold == IF MinNetEdge >= CostMinNetEdge THEN MinNetEdge ELSE CostMinNetEdge

should_trade(q) ==
  /\ \A v \in Venues : valid(q[v]) /\ q[v].age <= StrategyMaxBookAge
  /\ best_opportunity(q).qty >= MinVisibleQty
  /\ best_opportunity(q).net_edge >= threshold
=============================================================================
