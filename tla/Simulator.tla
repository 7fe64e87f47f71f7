------------------------------ MODULE Simulator ------------------------------
(***************************************************************************)
(* Simulator::run_replay put together: the two venues' books, the strategy *)
(* that reads them, the trading core and the MatchingEngine that fills the *)
(* core's orders out of the same books, with the faults a ScenarioConfig   *)
(* injects.  Where the code is the core's (PairExecution) its actions are  *)
(* used; what PairExecution leaves open, the quotes and the gateway, is    *)
(* computed here.                                                          *)
(*                                                                         *)
(* A book is its price levels; OrderBook has the orders behind them.  The  *)
(* feed may leave a book in any of the Books.  Reports of an order end     *)
(* with the call that sent it, so only the order under way is kept.        *)
(***************************************************************************)
EXTENDS PairExecution, OrderState, FiniteSetsExt, SequencesExt

CONSTANTS
  Prices,                  \* the prices of the ladder
  Books,                   \* what an event may leave of a book
  TicksPerSec, MaxTime,    \* bound: the clock, in the unit of MaxBookAge
  PartialBuy, PartialSell  \* 60 and 20 in ScenarioConfig::from_name

Ladder == [Prices -> Nat]

ASSUME SimulatorAssumption ==
  /\ Prices \subseteq Nat \ {0} /\ IsFiniteSet(Prices)
  /\ TicksPerSec \in Nat \ {0} /\ MaxTime \in Nat /\ MaxTime \div TicksPerSec <= MaxSec
  /\ Books \subseteq [Sides -> Ladder]
  /\ PartialBuy \in Nat /\ PartialSell \in Nat

VARIABLES
  scenario,   \* the name ScenarioConfig was made from
  rejects,    \* MatchingEngine: scenario_.reject_roles_once
  book,       \* BookManager: the ladders of each book
  updated,    \* last_update_ns_ of each book, 0 when there is no book yet
  now         \* ingest time of the last event

market == <<scenario, rejects, book, updated, now>>
simVars == <<vars, market>>

(* ScenarioConfig::from_name.                                              *)
Scenarios == {"clean", "bse_buy_fills_nse_sell_reject", "nse_sell_fills_bse_buy_reject",
              "both_legs_partial", "buy_partial_sell_zero", "gateway_disconnect_nse",
              "delayed_ack", "manual_kill"}

reject_roles_once(s) ==
  CASE s \in {"bse_buy_fills_nse_sell_reject", "buy_partial_sell_zero"} -> {"AlphaSell"}
    [] s = "nse_sell_fills_bse_buy_reject" -> {"AlphaBuy"}
    [] OTHER -> {}

cap_fill_qty(role, qty) ==
  CASE scenario \in {"both_legs_partial", "buy_partial_sell_zero"} /\ role = "AlphaBuy"
         -> Lesser(qty, PartialBuy)
    [] scenario = "both_legs_partial" /\ role = "AlphaSell" -> Lesser(qty, PartialSell)
    [] OTHER -> qty

disconnectedForLegs(v) == scenario = "gateway_disconnect_nse" /\ v = "NSE" /\ pc # "hedge"
disconnected(v) == scenario = "gateway_disconnect_nse" /\ v = "NSE"

SimInit ==
  /\ Init
  /\ scenario \in Scenarios
  /\ sellFirst = (scenario = "nse_sell_fills_bse_buy_reject")
  /\ enabled = (scenario # "manual_kill")
  /\ rejects = reject_roles_once(scenario)
  /\ book = [v \in Venues |-> [i \in Instruments |-> [s \in Sides |-> [p \in Prices |-> 0]]]]
  /\ updated = [v \in Venues |-> [i \in Instruments |-> 0]]
  /\ now = 0
-----------------------------------------------------------------------------
(* BookManager::quote, OrderBook::best_quote.                              *)
Depth(ladder) == {p \in Prices : ladder[p] > 0}

quote(b, last, t) ==
  LET bids == Depth(b["Buy"])
      asks == Depth(b["Sell"])
      bid == IF bids = {} THEN 0 ELSE Max(bids)
      ask == IF asks = {} THEN 0 ELSE Min(asks)
  IN  [bid_px |-> bid, bid_qty |-> IF bids = {} THEN 0 ELSE b["Buy"][bid],
       ask_px |-> ask, ask_qty |-> IF asks = {} THEN 0 ELSE b["Sell"][ask],
       age |-> IF last > 0 /\ t >= last THEN t - last ELSE 0]

QuotesOf(i, b, u, t) == [v \in Venues |-> quote(b[v][i], u[v][i], t)]

(* One turn of run_replay up to the trade: a book changes, and if both     *)
(* books exist and both feeds are healthy the strategy looks at them.      *)
(* MarketData says when a feed is unhealthy; here it may be at any event,  *)
(* so that any event may be passed over.                                   *)
Update(v, i, b, t) ==
  /\ pc = "idle" /\ t >= now
  /\ book' = [book EXCEPT ![v][i] = b]
  /\ updated' = [updated EXCEPT ![v][i] = t]
  /\ now' = t
  /\ UNCHANGED <<scenario, rejects>>

EventTrade(v, i, b, t) ==
  /\ Update(v, i, b, t)
  /\ \A w \in Venues : updated'[w][i] > 0
  /\ BeginTrade(i, QuotesOf(i, book', updated', t), t \div TicksPerSec)

EventPassed(v, i, b, t) == Update(v, i, b, t) /\ UNCHANGED vars
-----------------------------------------------------------------------------
(* MatchingEngine::send for order o of the instrument being traded.        *)
OppositeSame(side) == side
Opposite(side) == IF side = "Buy" THEN "Sell" ELSE "Buy"

Better(side, p, q) == IF side = "Buy" THEN p < q ELSE p > q

(* match_ioc: what an order for n shares takes of each level, best first.  *)
Taken(o, n) ==
  LET ladder == book[o.venue][pair.instrument][Opposite(o.side)]
      ahead(p) == SumFunctionOnSet(ladder, {q \in Prices : Better(o.side, q, p)})
  IN  [p \in Prices |->
         IF Better(o.side, o.px, p) THEN 0
         ELSE Max({0, Lesser(ladder[p], n - ahead(p))})]

Report(type, px, qty, reason) ==
  [id |-> 1, type |-> type, px |-> px, qty |-> qty, reason |-> reason]

Unfilled(reason) ==
  [reports |-> <<Report("Reject", 0, 0, reason)>>, taken |-> [p \in Prices |-> 0]]

BestFirst(side, S) ==
  CHOOSE f \in [1..Cardinality(S) -> S] :
    \A j, k \in 1..Cardinality(S) : j < k => Better(side, f[j], f[k])

Matched(o, taken) ==
  LET levels == BestFirst(o.side, {p \in Prices : taken[p] > 0})
      fills == [k \in DOMAIN levels |-> Report("Fill", levels[k], taken[levels[k]], "none")]
      ack == <<Report("Ack", 0, 0, "none")>>
      filled == SumFunctionOnSet(taken, Prices)
      rest == IF filled < o.qty THEN <<Report("Expire", 0, 0, "IOC_REMAINDER_EXPIRED")>> ELSE <<>>
  IN  [reports |-> (IF scenario = "delayed_ack" THEN fills \o ack ELSE ack \o fills) \o rest,
       taken |-> taken]

send(o) ==
  IF disconnected(o.venue) THEN Unfilled("GATEWAY_DISCONNECT")
  ELSE IF o.role \in rejects THEN Unfilled("SCENARIO_REJECT")
  ELSE IF updated[o.venue][pair.instrument] = 0 THEN Unfilled("NO_BOOK")
  ELSE Matched(o, Taken(o, cap_fill_qty(o.role, o.qty)))

(* OrderManager::submit and take_new_fills: the order and its fills.       *)
submit(o, reports) ==
  FoldLeft(on_report,
           [orders |-> <<NewOrder([instrument |-> pair.instrument, side |-> o.side, qty |-> o.qty])>>,
            fills |-> <<>>, net |-> net, cash |-> [i \in Instruments |-> 0]],
           reports)

ApplyFills(p, fills) ==
  FoldLeft(LAMBDA x, f : apply_fill(x, f.side, f.qty, f.px * f.qty), p, fills)

(* What an order that is sent does to the market.                          *)
SentTo(o, taken) ==
  /\ book' = [book EXCEPT ![o.venue][pair.instrument][Opposite(o.side)] =
                [p \in Prices |-> @[p] - taken[p]]]
  /\ rejects' = IF disconnected(o.venue) THEN rejects ELSE rejects \ {o.role}
-----------------------------------------------------------------------------
(* send_one of execute_opportunity.  (\E over one value, not LET: what it *)
(* names is evaluated once.)                                               *)
SimSendOne(o) ==
  \E rule \in {Check(o, quotes[o.venue])}, s \in {send(o)} :
    \E m \in {submit(o, s.reports)} : \E p \in {ApplyFills(pair, m.fills)} :
      /\ Account(rule)
      /\ IF rule = "APPROVED"
         THEN /\ SentTo(o, s.taken)
              /\ net' = m.net
              /\ pair' = IF m.orders[1].state \in {"Rejected", "Expired"}
                         THEN mark_leg_failed(p, m.orders[1].err) ELSE p
         ELSE /\ pair' = mark_leg_failed(pair, rule)
              /\ UNCHANGED <<net, book, rejects>>
      /\ UNCHANGED <<sellFirst, quotes, opp, enabled, sec, trades, carry, scenario, updated, now>>

WithRole(o, role) == [venue |-> o.venue, side |-> o.side, px |-> o.px, qty |-> o.qty, role |-> role]
Leg(o) == WithRole(o, IF o.side = "Buy" THEN "AlphaBuy" ELSE "AlphaSell")

SimSendFirst == pc = "first" /\ SimSendOne(Leg(FirstLeg)) /\ pc' = "second"
SimSendSecond == pc = "second" /\ SimSendOne(Leg(SecondLeg)) /\ pc' = "settle"

Settle == (SettleFlat \/ SettleOpen) /\ UNCHANGED market

(* hedge_until_flat reads the books anew at every turn.                    *)
HedgeQuotesOld == quotes
HedgeQuotes == QuotesOf(pair.instrument, book, updated, now)

SimHedgeStop == HedgeStop(HedgeQuotes) /\ UNCHANGED market

HedgeOne(o) ==
  \E rule \in {Check(o, HedgeQuotes[o.venue])}, s \in {send(o)},
     p \in {[pair EXCEPT !.attempts = @ + 1]} :
    \E m \in {submit(o, s.reports)} :
      /\ Account(rule)
      /\ IF rule = "APPROVED"
         THEN SentTo(o, s.taken) /\ net' = m.net /\ pair' = ApplyFills(p, m.fills)
         ELSE /\ pair' = [p EXCEPT !.state = "ErrorRecovery", !.error = rule]
              /\ UNCHANGED <<net, book, rejects>>

SimHedgeSend ==
  /\ pc = "hedge" /\ LoopGuard
  /\ \E d \in {next_order(pair, HedgeQuotes)} :
      /\ d.should_send
      /\ HedgeOne(WithRole(d.intent, "Hedge"))
  /\ UNCHANGED <<pc, sellFirst, quotes, opp, enabled, sec, trades, carry, scenario, updated, now>>

SimHedgeDone == HedgeDone /\ UNCHANGED market
-----------------------------------------------------------------------------
Event ==
  \E v \in Venues, i \in Instruments, b \in Books, t \in 1..MaxTime :
    EventTrade(v, i, b, t) \/ EventPassed(v, i, b, t)

SimExecute ==
  SimSendFirst \/ SimSendSecond \/ Settle \/ SimHedgeStop \/ SimHedgeSend \/ SimHedgeDone

SimNext == Event \/ SimExecute

(* run_replay is sequential code: what it has begun it goes on with.       *)
SimSpec == SimInit /\ [][SimNext]_simVars /\ WF_simVars(SimExecute)
-----------------------------------------------------------------------------
(* The core does not tell the ways in which a gateway can fail apart.      *)
GatewayErrors == {"GATEWAY_DISCONNECT", "SCENARIO_REJECT", "NO_BOOK", "IOC_REMAINDER_EXPIRED"}
AbstractPair ==
  [pair EXCEPT !.error = IF @ \in GatewayErrors THEN "NOT_FILLED" ELSE @]

Abstract == INSTANCE PairExecution WITH
  Quotes <- BestQuote, Improvement <- 0, pair <- AbstractPair

(* A step of PairExecution, with the quotes it takes as witnesses.         *)
AbstractStep ==
  \/ \E i \in Instruments : Abstract!BeginTrade(i, quotes', sec')
  \/ Abstract!SendFirst \/ Abstract!SendSecond
  \/ Abstract!SettleFlat \/ Abstract!SettleOpen
  \/ Abstract!HedgeStop(HedgeQuotes) \/ Abstract!HedgeSend(HedgeQuotes) \/ Abstract!HedgeDone

(* Books, MatchingEngine, execution reports and scenarios implement the    *)
(* trading core of PairExecution, whose gateway fills any part of an order *)
(* at its limit: everything proved of the core holds of the simulator.     *)
ImplementsCore == Abstract!Init /\ [][AbstractStep]_(Abstract!vars)

(* What the scenario suite expects at the end of a trade.  Left alone, two *)
(* legs that pass the risk checks fill and cancel out without a hedge      *)
(* (S01, S11); a trade that filled one leg and lost the other to the       *)
(* disconnected NSE never passes for flat (S10); after the manual kill     *)
(* nothing is ever traded (S20).                                           *)
ScenarioVerdict ==
  pc = "idle" /\ trades > 0 =>
    /\ scenario \in {"clean", "delayed_ack"} /\ pair.error = "none" =>
         pair.state = "Flat" /\ pair.bought > 0 /\ pair.attempts = 0
    /\ pair.error = "GATEWAY_DISCONNECT" /\ pair.bought + pair.sold > 0 =>
         pair.state \in {"ErrorRecovery", "KillSwitch"}
    /\ scenario = "manual_kill" => pair.bought = 0 /\ pair.sold = 0

Abs(n) == IF n < 0 THEN -n ELSE n

(* No hedge attempt is wasted: unless the venue is disconnected, every     *)
(* hedge that passes the risk check takes something off the residual.      *)
NoWastedHedge ==
  [][pair'.attempts > pair.attempts /\ pair'.state # "ErrorRecovery"
       /\ scenario # "gateway_disconnect_nse"
     => Abs(residual(pair')) < Abs(residual(pair))]_simVars

(* Every trade comes to an end and the simulator gets back to the feed.    *)
TradeEnds == pc # "idle" ~> pc = "idle"

(* config/scenarios: with one leg rejected the hedge manager works off the *)
(* residual and "returns FLAT or KILL_SWITCH".                             *)
FlatOrKilled ==
  pc = "idle" /\ scenario \in {"bse_buy_fills_nse_sell_reject", "nse_sell_fills_bse_buy_reject"}
    => pair.state \in {"Flat", "KillSwitch"}
=============================================================================
