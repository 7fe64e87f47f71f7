--------------------------- MODULE PairExecution ---------------------------
(***************************************************************************)
(* The trading core: Simulator::execute_opportunity and hedge_until_flat   *)
(* with the components they call (ArbitrageStrategy, RiskEngine,           *)
(* PositionBook, OrderManager, PairTrade, HedgePolicy), for any market and *)
(* any order gateway.                                                      *)
(*                                                                         *)
(* The gateway is the contract of IOrderGateway::send for an IOC limit     *)
(* order: it fills any part of the quantity at the limit or better and the *)
(* rest expires.  The two books are seen through the quotes BookManager    *)
(* returns, and any quote may come back at each read.                      *)
(***************************************************************************)
EXTENDS ArbitrageStrategy, RiskEngine, HedgePolicy

CONSTANTS
  Instruments,
  Quotes,        \* the quotes a venue may show
  MaxTrades,     \* max_trades of run_replay
  MaxSec,        \* bound: seconds the replay spans
  Improvement    \* bound: how much better than the limit a share may fill

ASSUME ExecutionAssumption ==
  /\ Quotes \subseteq BestQuote
  /\ MaxTrades \in Nat /\ MaxSec \in Nat /\ Improvement \in Nat

VARIABLES
  pc,         \* where execute_opportunity is
  sellFirst,  \* scenario_.send_sell_first
  quotes,     \* nse_q and bse_q of execute_opportunity
  opp,        \* the opportunity being executed
  pair,       \* its PairTrade; the last one while idle
  net,        \* PositionBook: net_qty per instrument
  enabled,    \* KillSwitch
  bucket,     \* RateLimiter: one bucket per instrument
  sec,        \* the second of the event being handled
  trades,     \* result.trades
  carry,      \* history: net_qty of the instrument when the pair began
  approved    \* history: orders approved per instrument and second

vars == <<pc, sellFirst, quotes, opp, pair, net, enabled, bucket, sec, trades,
          carry, approved>>

Seconds == 0..MaxSec
NoOpp == [buy_venue |-> "NSE", sell_venue |-> "BSE", buy_px |-> 0, sell_px |-> 0,
          net_edge |-> 0, qty |-> 0]
NoQuote == [bid_px |-> 0, bid_qty |-> 0, ask_px |-> 0, ask_qty |-> 0, age |-> 0]
NoQuotes == [v \in Venues |-> NoQuote]

Init ==
  /\ pc = "idle"
  /\ sellFirst \in BOOLEAN
  /\ quotes = NoQuotes
  /\ opp = NoOpp
  /\ \E i \in Instruments : pair = [NewPair(i, "NSE", "BSE") EXCEPT !.state = "Flat"]
  /\ net = [i \in Instruments |-> 0]
  /\ enabled \in BOOLEAN                  \* FALSE: scenario_.manual_kill
  /\ bucket = [i \in Instruments |-> [count |-> 0, sec |-> 0]]
  /\ sec = 0
  /\ trades = 0
  /\ carry = 0
  /\ approved = [i \in Instruments |-> [s \in Seconds |-> 0]]
-----------------------------------------------------------------------------
(* run_replay: an event on instrument i makes the strategy trade.  Events  *)
(* arrive in the order of their ingest timestamps.                         *)
BeginTrade(i, q, s) ==
  /\ pc = "idle" /\ trades < MaxTrades
  /\ s >= sec
  /\ should_trade(q)
  /\ sec' = s
  /\ quotes' = q
  /\ opp' = best_opportunity(q)
  /\ pair' = NewPair(i, opp'.buy_venue, opp'.sell_venue)
  /\ carry' = net[i]
  /\ pc' = "first"
  /\ UNCHANGED <<sellFirst, net, enabled, bucket, trades, approved>>
-----------------------------------------------------------------------------
BuyLeg == [venue |-> opp.buy_venue, side |-> "Buy", px |-> opp.buy_px, qty |-> opp.qty]
SellLeg == [venue |-> opp.sell_venue, side |-> "Sell", px |-> opp.sell_px, qty |-> opp.qty]

FirstLeg == IF sellFirst THEN SellLeg ELSE BuyLeg
SecondLeg == IF sellFirst THEN BuyLeg ELSE SellLeg

Notional(o, f, better) ==   \* f shares at the limit or better
  IF o.side = "Buy" THEN f * o.px - better ELSE f * o.px + better

Check(o, q) ==
  check_order(o, q, enabled, net[pair.instrument], bucket[pair.instrument], sec)

(* The limiter's and the history's side of a check that returned rule.     *)
Account(rule) ==
  /\ bucket' = [bucket EXCEPT ![pair.instrument] = BucketAfter(rule, @, sec)]
  /\ approved' = IF rule = "APPROVED"
                 THEN [approved EXCEPT ![pair.instrument][sec] = @ + 1]
                 ELSE approved

(* OrderManager::submit and what follows it: the reports of the order      *)
(* update the position, then its fills are applied to the pair p.          *)
PositionAfter(o, f) ==
  [net EXCEPT ![pair.instrument] = IF o.side = "Buy" THEN @ + f ELSE @ - f]

SendOne(o) ==
  LET rule == Check(o, quotes[o.venue])
  IN  /\ Account(rule)
      /\ \/ /\ rule # "APPROVED"
            /\ pair' = mark_leg_failed(pair, rule)
            /\ net' = net
         \/ /\ rule = "APPROVED"
            /\ pair' = mark_leg_failed(pair, "NOT_FILLED")
            /\ net' = net
         \/ /\ rule = "APPROVED"
            /\ \E f \in 1..o.qty : \E better \in 0..(f * Improvement) :
                  /\ pair' = apply_fill(pair, o.side, f, Notional(o, f, better))
                  /\ net' = PositionAfter(o, f)
      /\ UNCHANGED <<sellFirst, quotes, opp, enabled, sec, trades, carry>>

SendFirst == pc = "first" /\ SendOne(FirstLeg) /\ pc' = "second"
SendSecond == pc = "second" /\ SendOne(SecondLeg) /\ pc' = "settle"

(* Locals of execute_opportunity go out of scope and the trade is counted. *)
Return ==
  /\ pc' = "idle"
  /\ trades' = trades + 1
  /\ quotes' = NoQuotes /\ opp' = NoOpp

SettleFlat ==
  /\ pc = "settle" /\ residual(pair) = 0
  /\ pair' = [pair EXCEPT !.state = "Flat"]
  /\ Return
  /\ UNCHANGED <<sellFirst, net, enabled, bucket, sec, carry, approved>>

SettleOpen ==
  /\ pc = "settle" /\ residual(pair) # 0
  /\ pair' = [pair EXCEPT !.state = "Hedging"]
  /\ pc' = "hedge"
  /\ UNCHANGED <<sellFirst, quotes, opp, net, enabled, bucket, sec, trades, carry, approved>>
-----------------------------------------------------------------------------
(* One turn of hedge_until_flat's loop, with the quotes read anew.         *)
LoopGuardNoBreak == residual(pair) # 0 /\ pair.attempts < MaxHedgeAttempts
LoopGuardOffByOne ==
  residual(pair) # 0 /\ pair.attempts <= MaxHedgeAttempts /\ pair.state = "Hedging"
LoopGuard ==
  residual(pair) # 0 /\ pair.attempts < MaxHedgeAttempts /\ pair.state = "Hedging"

HedgeStop(q) ==   \* the policy gives up: kill the strategy
  LET d == next_order(pair, q)
  IN  /\ pc = "hedge" /\ LoopGuard
      /\ ~d.should_send
      /\ pair' = [pair EXCEPT !.state = IF d.kill THEN "KillSwitch" ELSE "ErrorRecovery",
                              !.error = d.reason]
      /\ enabled' = (enabled /\ ~d.kill)
      /\ UNCHANGED <<pc, sellFirst, quotes, opp, net, bucket, sec, trades, carry, approved>>

HedgeSend(q) ==
  LET d == next_order(pair, q)
      o == d.intent
      rule == Check(o, q[o.venue])
      p == [pair EXCEPT !.attempts = @ + 1]
  IN  /\ pc = "hedge" /\ LoopGuard
      /\ d.should_send
      /\ Account(rule)
      /\ \/ /\ rule # "APPROVED"
            /\ pair' = [p EXCEPT !.state = "ErrorRecovery", !.error = rule]
            /\ net' = net
         \/ /\ rule = "APPROVED"
            /\ pair' = p /\ net' = net
         \/ /\ rule = "APPROVED"
            /\ \E f \in 1..o.qty : \E better \in 0..(f * Improvement) :
                  /\ pair' = apply_fill(p, o.side, f, Notional(o, f, better))
                  /\ net' = PositionAfter(o, f)
      /\ UNCHANGED <<pc, sellFirst, quotes, opp, enabled, sec, trades, carry>>

HedgeDone ==
  /\ pc = "hedge" /\ ~LoopGuard
  /\ pair' = [pair EXCEPT !.state = IF residual(pair) = 0 THEN "Flat"
                                    ELSE IF @ = "Hedging" THEN "ErrorRecovery" ELSE @]
  /\ Return
  /\ UNCHANGED <<sellFirst, net, enabled, bucket, sec, carry, approved>>
-----------------------------------------------------------------------------
ReplayEnd == pc = "idle" /\ UNCHANGED vars

QuotePairs == [Venues -> Quotes]

Begin == \E i \in Instruments, q \in QuotePairs, s \in Seconds : BeginTrade(i, q, s)
Hedge == \E q \in QuotePairs : HedgeStop(q) \/ HedgeSend(q)
Execute == SendFirst \/ SendSecond \/ SettleFlat \/ SettleOpen \/ Hedge \/ HedgeDone

Next == Begin \/ Execute \/ ReplayEnd

Spec == Init /\ [][Next]_vars
-----------------------------------------------------------------------------
Errors == Rules \cup {"none", "NOT_FILLED", "ALREADY_FLAT", "MAX_HEDGE_ATTEMPTS",
                       "MAX_HEDGE_LOSS", "NO_SAFE_HEDGE_QUOTE"}

Pairs ==
  [instrument : Instruments, buy_venue : Venues, sell_venue : Venues,
   bought : Nat, sold : Nat, bought_notional : Int, sold_notional : Int,
   attempts : 0..MaxHedgeAttempts, state : PairStates, error : Errors]

Opportunities ==
  [buy_venue : Venues, sell_venue : Venues, buy_px : Int, sell_px : Int,
   net_edge : Int, qty : Int]

(* Every variable stays in its type; the loop of hedge_until_flat makes at *)
(* most max_hedge_attempts turns that send.                                *)
TypeOK ==
  /\ pc \in {"idle", "first", "second", "settle", "hedge"}
  /\ sellFirst \in BOOLEAN /\ enabled \in BOOLEAN
  /\ quotes \in [Venues -> BestQuote]
  /\ opp \in Opportunities
  /\ pair \in Pairs
  /\ net \in [Instruments -> Int] /\ carry \in Int
  /\ bucket \in [Instruments -> Bucket]
  /\ sec \in Seconds
  /\ trades \in 0..MaxTrades
  /\ approved \in [Instruments -> [Seconds -> Nat]]

(* check_order's MAX_POSITION rule holds of the position itself: whatever  *)
(* fills, in whatever order, and whatever earlier pairs left open, no      *)
(* instrument's net quantity exceeds max_position_qty.                     *)
PositionCap == \A i \in Instruments : net[i] \in (-MaxPositionQty)..MaxPositionQty

(* While hedge_until_flat runs, the residual only moves towards zero and   *)
(* never past it: a hedge cannot open a position of its own.               *)
HedgeReduces ==
  [][pc = "hedge" =>
       \/ 0 <= residual(pair') /\ residual(pair') <= residual(pair)
       \/ residual(pair) <= residual(pair') /\ residual(pair') <= 0]_vars

(* What HedgePolicy proposes, RiskEngine refuses only for its notional or  *)
(* for the order rate: the two components' quote, quantity and price       *)
(* checks agree, unwinding never meets the position cap, and a hedge is    *)
(* never asked for after the kill switch has been thrown.                  *)
HedgeRefusals ==
  pc = "hedge" /\ LoopGuard =>
    \A q \in QuotePairs :
      LET d == next_order(pair, q)
      IN  d.should_send =>
            Check(d.intent, q[d.intent.venue]) \in {"APPROVED", "MAX_NOTIONAL", "ORDER_RATE"}

(* How a trade ends: FLAT exactly when the fills cancel out; KILL_SWITCH   *)
(* only with trading disabled; ERROR_RECOVERY only after the last hedge    *)
(* attempt or a refused hedge.                                             *)
PairOutcome ==
  pc = "idle" =>
    IF residual(pair) = 0 THEN pair.state = "Flat"
    ELSE \/ /\ pair.state = "KillSwitch" /\ ~enabled
            /\ pair.error \in {"MAX_HEDGE_LOSS", "NO_SAFE_HEDGE_QUOTE"}
         \/ /\ pair.state = "ErrorRecovery"
            /\ \/ pair.attempts = MaxHedgeAttempts
               \/ pair.error \in {"MAX_NOTIONAL", "ORDER_RATE"}

(* Once the kill switch is thrown it stays thrown, no order is approved    *)
(* any more and no position moves, for any instrument.                     *)
KillStops == [][~enabled => ~enabled' /\ net' = net /\ approved' = approved]_vars

(* At most max_orders_per_sec orders per instrument reach the gateway in   *)
(* any one second, alpha legs and hedges together.                         *)
RatePerSecond ==
  \A i \in Instruments, s \in Seconds : approved[i][s] <= MaxOrdersPerSec

(* Without force_flatten_on_max_loss a pair that ends flat has lost at     *)
(* most max_hedge_loss_paise per hedge sent, plus what the truncated       *)
(* average prices hide, which is less than a paisa for each share bought.  *)
PairLossBound ==
  pc = "idle" /\ pair.state = "Flat" /\ ~ForceFlatten =>
    \/ pair.bought = 0
    \/ pair.bought_notional - pair.sold_notional
         < pair.attempts * MaxHedgeLoss + pair.bought
-----------------------------------------------------------------------------
(* The inductive invariant.  While a pair is executed the position is what *)
(* it was before plus the pair's residual; a residual means trading was    *)
(* enabled; the limiter's bucket counts the approvals of its second.       *)
Ledger ==
  pc # "idle" => /\ net[pair.instrument] = carry + residual(pair)
                 /\ carry \in (-MaxPositionQty)..MaxPositionQty

Fresh == pc = "first" => residual(pair) = 0

Enabled ==
  pc # "idle" /\ residual(pair) # 0 /\ ~enabled => pc = "hedge" /\ pair.state = "KillSwitch"

Limiter ==
  \A i \in Instruments :
    /\ bucket[i].sec <= sec
    /\ approved[i][bucket[i].sec] = bucket[i].count
    /\ \A s \in Seconds : s > bucket[i].sec => approved[i][s] = 0

(* execute_opportunity is entered only below max_trades.                   *)
Counted == pc # "idle" => trades < MaxTrades

Ending ==
  pc = "hedge" /\ residual(pair) # 0 =>
    \/ pair.state = "Hedging"
    \/ /\ pair.state = "KillSwitch" /\ ~enabled
       /\ pair.error \in {"MAX_HEDGE_LOSS", "NO_SAFE_HEDGE_QUOTE"}
    \/ /\ pair.state = "ErrorRecovery"
       /\ pair.error \in {"MAX_NOTIONAL", "ORDER_RATE"}

IndInv ==
  /\ TypeOK
  /\ PositionCap
  /\ Ledger
  /\ Fresh
  /\ Enabled
  /\ Counted
  /\ Limiter
  /\ RatePerSecond
  /\ Ending
  /\ PairOutcome
=============================================================================
