--------------------------- MODULE TradingProofs ---------------------------
(***************************************************************************)
(* Proofs about PairExecution and about Simulator, for every risk and      *)
(* strategy configuration, any set of quotes, books and instruments and    *)
(* any number of trades.  First the core by itself, then what one call of  *)
(* MatchingEngine::send does to an order, then the simulator's own         *)
(* invariant, then that the simulator implements the core.                 *)
(***************************************************************************)
EXTENDS Simulator, ArithmeticTheorems, SequenceTheorems

(* apply_fill and mark_leg_failed field by field.                          *)
LEMMA ApplyFillFields ==
  ASSUME NEW p \in Pairs, NEW side \in Sides, NEW qty \in Nat, NEW notional \in Int
  PROVE  LET r == apply_fill(p, side, qty, notional)
         IN  /\ r \in Pairs
             /\ r.instrument = p.instrument /\ r.error = p.error
             /\ r.attempts = p.attempts
             /\ r.bought = IF side = "Buy" THEN p.bought + qty ELSE p.bought
             /\ r.sold = IF side = "Buy" THEN p.sold ELSE p.sold + qty
             /\ r.state = IF residual(r) = 0 THEN "Flat" ELSE "Hedging"
<1> DEFINE f == AddFill(p, side, qty, notional)
           r == apply_fill(p, side, qty, notional)
<1>1. /\ f \in Pairs
      /\ f.instrument = p.instrument /\ f.error = p.error /\ f.attempts = p.attempts
      /\ f.bought = IF side = "Buy" THEN p.bought + qty ELSE p.bought
      /\ f.sold = IF side = "Buy" THEN p.sold ELSE p.sold + qty
  <2>1. CASE side = "Buy"
    <3>1. f = [p EXCEPT !.bought = @ + qty, !.bought_notional = @ + notional]
      BY <2>1 DEF AddFill
    <3>2. p.bought + qty \in Nat /\ p.bought_notional + notional \in Int
      BY DEF Pairs
    <3> HIDE DEF f
    <3> QED BY <2>1, <3>1, <3>2 DEF Pairs
  <2>2. CASE side # "Buy"
    <3>1. f = [p EXCEPT !.sold = @ + qty, !.sold_notional = @ + notional]
      BY <2>2 DEF AddFill
    <3>2. p.sold + qty \in Nat /\ p.sold_notional + notional \in Int
      BY DEF Pairs
    <3> HIDE DEF f
    <3> QED BY <2>2, <3>1, <3>2 DEF Pairs
  <2> QED BY <2>1, <2>2
<1>2. r = [f EXCEPT !.state = IF residual(f) = 0 THEN "Flat" ELSE "Hedging"]
  BY DEF apply_fill
<1> HIDE DEF f, r
<1>3. /\ r \in Pairs
      /\ r.instrument = f.instrument /\ r.error = f.error /\ r.attempts = f.attempts
      /\ r.bought = f.bought /\ r.sold = f.sold
      /\ r.state = IF residual(f) = 0 THEN "Flat" ELSE "Hedging"
  BY <1>1, <1>2 DEF Pairs, PairStates
<1>4. residual(r) = residual(f)
  BY <1>3 DEF residual
<1> QED BY <1>1, <1>3, <1>4 DEF r

(* An approved order was sent with trading enabled, inside the quantity    *)
(* and position limits and within the rate.                                *)
LEMMA ApprovedFacts ==
  ASSUME NEW o \in OrderIntent, NEW q \in BestQuote, NEW e \in BOOLEAN, NEW n \in Int,
         NEW b \in Bucket, NEW s \in Nat, check_order(o, q, e, n, b, s) = "APPROVED"
  PROVE  /\ e /\ o.qty \in 1..MaxOrderQty
         /\ InsidePosition(o, n) /\ Allow(b, s)
BY RiskConfigAssumption DEF check_order, OrderIntent

(* A partial fill of an order inside the position limit stays inside it.   *)
LEMMA PartialInside ==
  ASSUME NEW o \in OrderIntent, NEW n \in (-MaxPositionQty)..MaxPositionQty,
         InsidePosition(o, n), NEW f \in 0..o.qty
  PROVE  (IF o.side = "Buy" THEN n + f ELSE n - f) \in (-MaxPositionQty)..MaxPositionQty
BY RiskConfigAssumption DEF InsidePosition, signed_effect, OrderIntent, Sides

(* What candidate_for_venue proposes.                                      *)
Proposal(p, d, v, q) ==
  /\ d.should_send => /\ d.intent \in OrderIntent /\ d.intent.venue = v
                      /\ valid(q) /\ q.age <= MaxBookAge
                      /\ d.intent = HedgeIntent(p, v, q) /\ d.intent.qty > 0
  /\ d.kill => ~d.should_send /\ d.reason = "MAX_HEDGE_LOSS"

LEMMA HedgeIntentFacts ==
  ASSUME NEW p \in Pairs, NEW v \in Venues, NEW q \in BestQuote, residual(p) # 0
  PROVE  LET o == HedgeIntent(p, v, q)
         IN  /\ o \in OrderIntent /\ o.venue = v
             /\ o.qty <= MaxOrderQty
             /\ o.side = IF residual(p) > 0 THEN "Sell" ELSE "Buy"
             /\ o.qty <= IF residual(p) > 0 THEN residual(p) ELSE -residual(p)
             /\ o.px = IF residual(p) > 0 THEN q.bid_px ELSE q.ask_px
<1>1. residual(p) \in Int
  BY DEF residual, Pairs
<1> HIDE DEF residual
<1>2. CASE residual(p) > 0
  BY <1>1, <1>2, RiskConfigAssumption DEF HedgeIntent, Lesser, OrderIntent, BestQuote, Sides
<1>3. CASE residual(p) < 0
  BY <1>1, <1>3, RiskConfigAssumption DEF HedgeIntent, Lesser, OrderIntent, BestQuote, Sides
<1> QED BY <1>1, <1>2, <1>3

LEMMA CandidateFacts ==
  ASSUME NEW p \in Pairs, NEW v \in Venues, NEW q \in BestQuote, residual(p) # 0
  PROVE  Proposal(p, candidate_for_venue(p, v, q), v, q)
<1>1. HedgeIntent(p, v, q) \in OrderIntent /\ HedgeIntent(p, v, q).venue = v
  BY HedgeIntentFacts
<1>2. HedgeIntent(p, v, q).qty \in Int /\ q.age \in Int
  BY <1>1 DEF OrderIntent, BestQuote
<1> QED
  BY <1>1, <1>2, RiskConfigAssumption DEF Proposal, candidate_for_venue, Decision

(* next_order inside the loop of hedge_until_flat: an order that shrinks   *)
(* the residual on a fresh, two-sided quote, or a kill.                    *)
LEMMA NextOrderFacts ==
  ASSUME NEW p \in Pairs, NEW q \in [Venues -> BestQuote],
         residual(p) # 0, p.attempts < MaxHedgeAttempts
  PROVE  LET d == next_order(p, q)
             v == d.intent.venue
         IN  /\ d.should_send => /\ d.intent \in OrderIntent
                                 /\ d.intent = HedgeIntent(p, v, q[v])
                                 /\ d.intent.qty > 0
                                 /\ valid(q[v]) /\ q[v].age <= MaxBookAge
             /\ ~d.should_send => /\ d.kill
                                  /\ d.reason \in {"MAX_HEDGE_LOSS", "NO_SAFE_HEDGE_QUOTE"}
<1> DEFINE preferred == IF residual(p) > 0 THEN p.sell_venue ELSE p.buy_venue
           fallback == other_venue(preferred)
           d1 == candidate_for_venue(p, preferred, q[preferred])
           d2 == candidate_for_venue(p, fallback, q[fallback])
           d == next_order(p, q)
<1>1. preferred \in Venues /\ fallback \in Venues
  BY DEF Pairs, Venues, other_venue
<1>2. ~(p.attempts >= MaxHedgeAttempts)
  BY RiskConfigAssumption DEF Pairs
<1>3. d = IF d1.should_send \/ d1.kill THEN d1
          ELSE IF d2.should_send \/ d2.kill THEN d2
          ELSE Decision(FALSE, TRUE, NoIntent, "NO_SAFE_HEDGE_QUOTE")
  BY <1>2, Zenon DEF next_order
<1>4. /\ Proposal(p, d1, preferred, q[preferred])
      /\ Proposal(p, d2, fallback, q[fallback])
  BY <1>1, CandidateFacts
<1> HIDE DEF preferred, fallback, d1, d2, d
<1>5. CASE d1.should_send \/ d1.kill
  BY <1>3, <1>4, <1>5 DEF Proposal, d
<1>6. CASE ~(d1.should_send \/ d1.kill) /\ (d2.should_send \/ d2.kill)
  BY <1>3, <1>4, <1>6 DEF Proposal, d
<1>7. CASE ~(d1.should_send \/ d1.kill) /\ ~(d2.should_send \/ d2.kill)
  BY <1>3, <1>7 DEF Decision, d
<1> QED BY <1>5, <1>6, <1>7
-----------------------------------------------------------------------------
(* A pair as from_opportunity makes it.                                    *)
LEMMA NewPairFacts ==
  ASSUME NEW i \in Instruments, NEW v \in Venues, NEW w \in Venues
  PROVE  LET p == NewPair(i, v, w)
         IN  /\ p \in Pairs /\ p.instrument = i
             /\ p.bought = 0 /\ p.sold = 0 /\ p.attempts = 0
<1>1. 0 \in 0..MaxHedgeAttempts /\ "Planned" \in PairStates /\ "none" \in Errors
  BY RiskConfigAssumption DEF PairStates, Errors
<1>2. NewPair(i, v, w) \in Pairs
  BY <1>1 DEF NewPair, Pairs
<1> QED BY <1>2 DEF NewPair

(* The initial states satisfy the invariant.                               *)
LEMMA IndInvInit == Init => IndInv
<1> SUFFICES ASSUME Init PROVE IndInv
  OBVIOUS
<1> USE RiskConfigAssumption, ExecutionAssumption
<1>1. PICK i \in Instruments : pair = [NewPair(i, "NSE", "BSE") EXCEPT !.state = "Flat"]
  BY DEF Init
<1>2. /\ pair \in Pairs /\ pair.bought = 0 /\ pair.sold = 0 /\ pair.state = "Flat"
  <2>1. /\ NewPair(i, "NSE", "BSE") \in Pairs
        /\ NewPair(i, "NSE", "BSE").bought = 0 /\ NewPair(i, "NSE", "BSE").sold = 0
    BY NewPairFacts DEF Venues
  <2> QED BY <1>1, <2>1 DEF Pairs, PairStates
<1>3. residual(pair) = 0
  BY <1>2 DEF residual
<1>4. quotes \in [Venues -> BestQuote] /\ opp \in Opportunities
  BY DEF Init, NoQuotes, NoQuote, BestQuote, NoOpp, Opportunities, Venues
<1>5. /\ bucket \in [Instruments -> Bucket] /\ approved \in [Instruments -> [Seconds -> Nat]]
      /\ sec \in Seconds
  BY DEF Init, Bucket, Seconds
<1>6. TypeOK
  BY <1>2, <1>4, <1>5 DEF Init, TypeOK
<1>7. PositionCap /\ RatePerSecond
  BY DEF Init, PositionCap, RatePerSecond
<1>8. Limiter
  BY DEF Init, Limiter, Seconds
<1>9. Ledger /\ Fresh /\ Enabled /\ Counted /\ Ending /\ PairOutcome
  BY <1>2, <1>3 DEF Init, Ledger, Fresh, Enabled, Counted, Ending, PairOutcome
<1> QED BY <1>6, <1>7, <1>8, <1>9 DEF IndInv

(* The rate limiter's part of an order check.                              *)
LEMMA AccountKeeps ==
  ASSUME IndInv, NEW rule, Account(rule), sec' = sec,
         rule = "APPROVED" => Allow(bucket[pair.instrument], sec)
  PROVE  /\ bucket' \in [Instruments -> Bucket]
         /\ approved' \in [Instruments -> [Seconds -> Nat]]
         /\ Limiter' /\ RatePerSecond'
<1> DEFINE i == pair.instrument
           b == bucket[i]
           c == BucketAfter(rule, b, sec)
<1>0. MaxOrdersPerSec \in Nat /\ MaxSec \in Nat
  BY RiskConfigAssumption, ExecutionAssumption
<1>1. /\ i \in Instruments /\ b \in Bucket /\ sec \in Seconds
      /\ bucket \in [Instruments -> Bucket] /\ approved \in [Instruments -> [Seconds -> Nat]]
  BY DEF IndInv, TypeOK, Pairs
<1>2. /\ b.sec <= sec /\ b.sec \in Nat /\ b.count \in Nat /\ b.sec \in Seconds
      /\ approved[i][b.sec] = b.count
      /\ \A s \in Seconds : s > b.sec => approved[i][s] = 0
  BY <1>0, <1>1 DEF IndInv, Limiter, Bucket, Seconds
<1>3. bucket' = [bucket EXCEPT ![i] = c]
  BY DEF Account
<1>4. ASSUME rule = "APPROVED"
      PROVE  /\ c \in Bucket /\ c.sec = sec /\ c.count <= MaxOrdersPerSec
             /\ approved' = [approved EXCEPT ![i][sec] = @ + 1]
             /\ c.count = approved[i][sec] + 1
  <2>1. Roll(b, sec) \in Bucket /\ Roll(b, sec).sec = sec
        /\ Roll(b, sec).count = approved[i][sec]
    BY <1>0, <1>1, <1>2 DEF Roll, Bucket, Seconds
  <2>2. Roll(b, sec).count < MaxOrdersPerSec
    BY <1>4 DEF Allow
  <2>3. c = [Roll(b, sec) EXCEPT !.count = @ + 1]
    BY <1>4 DEF BucketAfter
  <2>4. approved' = [approved EXCEPT ![i][sec] = @ + 1]
    BY <1>4 DEF Account
  <2> QED BY <1>0, <2>1, <2>2, <2>3, <2>4 DEF Bucket
<1>5. ASSUME rule # "APPROVED"
      PROVE  /\ c \in Bucket /\ c.sec \in {b.sec, sec} /\ approved' = approved
             /\ c.count = approved[i][c.sec]
  <2>1. c \in {b, Roll(b, sec)} /\ approved' = approved
    BY <1>5 DEF BucketAfter, Account
  <2>2. Roll(b, sec) \in Bucket /\ Roll(b, sec).sec = sec
        /\ Roll(b, sec).count = approved[i][sec]
    BY <1>0, <1>1, <1>2 DEF Roll, Bucket, Seconds
  <2> QED BY <1>1, <1>2, <2>1, <2>2
<1> HIDE DEF c
<1>6. bucket' \in [Instruments -> Bucket] /\ approved' \in [Instruments -> [Seconds -> Nat]]
  <2>1. c \in Bucket
    BY <1>4, <1>5
  <2>2. bucket' \in [Instruments -> Bucket]
    BY <1>1, <1>3, <2>1
  <2>3. CASE rule = "APPROVED"
    <3>1. approved[i] \in [Seconds -> Nat] /\ approved[i][sec] + 1 \in Nat
      BY <1>1
    <3>2. [approved[i] EXCEPT ![sec] = @ + 1] \in [Seconds -> Nat]
      BY <1>1, <3>1
    <3>3. approved' = [approved EXCEPT ![i] = [approved[i] EXCEPT ![sec] = @ + 1]]
      BY <1>1, <1>4, <2>3
    <3> QED BY <1>1, <2>2, <3>2, <3>3
  <2>4. CASE rule # "APPROVED"
    BY <1>1, <1>5, <2>2, <2>4
  <2> QED BY <2>3, <2>4
<1>7. RatePerSecond'
  <2> SUFFICES ASSUME NEW j \in Instruments, NEW s \in Seconds
               PROVE  approved'[j][s] <= MaxOrdersPerSec
    BY DEF RatePerSecond
  <2>1. approved[j][s] <= MaxOrdersPerSec
    BY DEF IndInv, RatePerSecond
  <2>2. CASE rule = "APPROVED" /\ j = i /\ s = sec
    BY <1>1, <1>4, <2>2
  <2>3. CASE ~(rule = "APPROVED" /\ j = i /\ s = sec)
    BY <1>1, <1>4, <1>5, <2>1, <2>3
  <2> QED BY <2>2, <2>3
<1>8. Limiter'
  <2> SUFFICES ASSUME NEW j \in Instruments
               PROVE  /\ bucket'[j].sec <= sec
                      /\ approved'[j][bucket'[j].sec] = bucket'[j].count
                      /\ \A s \in Seconds : s > bucket'[j].sec => approved'[j][s] = 0
    BY DEF Limiter
  <2>1. CASE j # i
    <3>1. bucket'[j] = bucket[j] /\ approved'[j] = approved[j]
      BY <1>1, <1>3, <1>4, <1>5, <2>1
    <3> QED BY <3>1 DEF IndInv, Limiter
  <2>2. CASE j = i /\ rule = "APPROVED"
    <3>1. bucket'[j] = c
      BY <1>1, <1>3, <2>2
    <3>2. approved'[j] = [approved[i] EXCEPT ![sec] = @ + 1]
      BY <1>1, <1>4, <2>2
    <3>3. c.sec = sec /\ c.count = approved[i][sec] + 1
      BY <1>4, <2>2
    <3>4. approved'[j][sec] = c.count
      BY <1>1, <3>2, <3>3
    <3>5. ASSUME NEW s \in Seconds, s > sec
          PROVE  approved'[j][s] = 0
      <4>1. s > b.sec /\ s # sec
        BY <1>0, <1>1, <1>2, <3>5 DEF Seconds
      <4>2. approved[i][s] = 0
        BY <1>2, <4>1
      <4> QED BY <1>1, <3>2, <4>1, <4>2
    <3> QED BY <1>0, <1>1, <3>1, <3>3, <3>4, <3>5 DEF Seconds
  <2>3. CASE j = i /\ rule # "APPROVED"
    <3>1. bucket'[j] = c /\ approved'[j] = approved[i]
      BY <1>1, <1>3, <1>5, <2>3
    <3>2. c.sec \in {b.sec, sec} /\ c.count = approved[i][c.sec]
      BY <1>5, <2>3
    <3>3. sec \in Int /\ b.sec \in Int /\ \A s \in Seconds : s \in Int
      BY <1>0, <1>1, <1>2 DEF Seconds
    <3>4. CASE c.sec = b.sec
      BY <1>2, <3>1, <3>2, <3>4
    <3>5. CASE c.sec = sec
      BY <1>2, <3>1, <3>2, <3>3, <3>5
    <3> QED BY <3>2, <3>4, <3>5
  <2> QED BY <2>1, <2>2, <2>3
<1> QED BY <1>6, <1>7, <1>8

(* The position's part of a fill.                                          *)
LEMMA FillKeeps ==
  ASSUME IndInv, pc # "idle", NEW o \in OrderIntent, NEW f \in 1..o.qty,
         InsidePosition(o, net[pair.instrument]), net' = PositionAfter(o, f)
  PROVE  /\ net' \in [Instruments -> Int] /\ PositionCap'
         /\ net'[pair.instrument] =
              carry + residual(pair) + (IF o.side = "Buy" THEN f ELSE -f)
<1> DEFINE i == pair.instrument
           n == IF o.side = "Buy" THEN net[i] + f ELSE net[i] - f
<1>1. /\ i \in Instruments /\ net \in [Instruments -> Int] /\ carry \in Int
      /\ f \in Int /\ o.qty \in Int /\ residual(pair) \in Int
  BY DEF IndInv, TypeOK, Pairs, OrderIntent, residual
<1>2. net' = [net EXCEPT ![i] = n]
  BY DEF PositionAfter
<1>3. net[i] \in (-MaxPositionQty)..MaxPositionQty /\ f \in 0..o.qty
  BY <1>1 DEF IndInv, PositionCap
<1>4. n \in (-MaxPositionQty)..MaxPositionQty
  BY <1>3, PartialInside
<1>5. n \in Int
  BY <1>1
<1>6. net[i] = carry + residual(pair)
  BY DEF IndInv, Ledger
<1>7. n = carry + residual(pair) + (IF o.side = "Buy" THEN f ELSE -f)
  BY <1>1, <1>6
<1> HIDE DEF n
<1>8. PositionCap'
  BY <1>1, <1>2, <1>4 DEF IndInv, PositionCap
<1> QED BY <1>1, <1>2, <1>5, <1>7, <1>8

(* A decision is a rule or an approval.                                    *)
LEMMA CheckRange ==
  ASSUME NEW o, NEW q, NEW e, NEW n, NEW b, NEW s
  PROVE  check_order(o, q, e, n, b, s) \in Rules \cup {"APPROVED"}
BY DEF check_order, Rules

(* mark_leg_failed changes only the error and the state.                   *)
LEMMA LegFailedFields ==
  ASSUME NEW p \in Pairs, NEW reason \in Errors
  PROVE  LET r == mark_leg_failed(p, reason)
         IN  /\ r \in Pairs /\ r.instrument = p.instrument
             /\ r.bought = p.bought /\ r.sold = p.sold /\ r.attempts = p.attempts
BY DEF mark_leg_failed, Pairs, PairStates

(* One alpha leg, blocked, unfilled or filled in part.                     *)
LEMMA SendOneKeeps ==
  ASSUME IndInv, pc \in {"first", "second"}, NEW o \in OrderIntent, SendOne(o)
  PROVE  /\ pair' \in Pairs /\ pair'.instrument = pair.instrument
         /\ net' \in [Instruments -> Int] /\ PositionCap'
         /\ net'[pair.instrument] = carry + residual(pair')
         /\ bucket' \in [Instruments -> Bucket]
         /\ approved' \in [Instruments -> [Seconds -> Nat]]
         /\ Limiter' /\ RatePerSecond'
         /\ residual(pair') # 0 => enabled
<1> DEFINE i == pair.instrument
           rule == Check(o, quotes[o.venue])
<1>1. /\ pair \in Pairs /\ i \in Instruments /\ net \in [Instruments -> Int]
      /\ quotes[o.venue] \in BestQuote /\ enabled \in BOOLEAN /\ bucket[i] \in Bucket
      /\ net[i] \in Int /\ sec \in Nat /\ carry \in Int /\ residual(pair) \in Int
  BY ExecutionAssumption DEF IndInv, TypeOK, Pairs, OrderIntent, Seconds, residual
<1>2. /\ net[i] = carry + residual(pair)
      /\ residual(pair) # 0 => enabled
  BY DEF IndInv, Ledger, Enabled
<1>3. rule \in Rules \cup {"APPROVED"}
  BY CheckRange DEF Check
<1>4. ASSUME rule = "APPROVED"
      PROVE  enabled /\ o.qty \in 1..MaxOrderQty /\ InsidePosition(o, net[i])
             /\ Allow(bucket[i], sec)
  BY <1>1, <1>4, ApprovedFacts DEF Check
<1>5. Account(rule) /\ sec' = sec
  BY DEF SendOne
<1> HIDE DEF rule
<1>6. /\ bucket' \in [Instruments -> Bucket]
      /\ approved' \in [Instruments -> [Seconds -> Nat]]
      /\ Limiter' /\ RatePerSecond'
  BY <1>4, <1>5, AccountKeeps
<1>7. ASSUME NEW reason \in Errors, pair' = mark_leg_failed(pair, reason), net' = net
      PROVE  /\ pair' \in Pairs /\ pair'.instrument = i
             /\ net' \in [Instruments -> Int] /\ PositionCap'
             /\ net'[i] = carry + residual(pair')
             /\ residual(pair') # 0 => enabled
  <2>1. /\ pair' \in Pairs /\ pair'.instrument = i
        /\ pair'.bought = pair.bought /\ pair'.sold = pair.sold
    BY <1>1, <1>7, LegFailedFields
  <2>2. residual(pair') = residual(pair)
    BY <2>1 DEF residual
  <2>3. PositionCap'
    BY <1>7 DEF IndInv, PositionCap
  <2> QED BY <1>1, <1>2, <1>7, <2>1, <2>2, <2>3
<1>8. ASSUME rule = "APPROVED", NEW f \in 1..o.qty, NEW m \in Int,
             pair' = apply_fill(pair, o.side, f, m), net' = PositionAfter(o, f)
      PROVE  /\ pair' \in Pairs /\ pair'.instrument = i
             /\ net' \in [Instruments -> Int] /\ PositionCap'
             /\ net'[i] = carry + residual(pair')
             /\ residual(pair') # 0 => enabled
  <2>1. f \in Nat /\ o.side \in Sides
    BY DEF OrderIntent
  <2>2. /\ pair' \in Pairs /\ pair'.instrument = i
        /\ pair'.bought = IF o.side = "Buy" THEN pair.bought + f ELSE pair.bought
        /\ pair'.sold = IF o.side = "Buy" THEN pair.sold ELSE pair.sold + f
    BY <1>1, <1>8, <2>1, ApplyFillFields
  <2>3. /\ net' \in [Instruments -> Int] /\ PositionCap'
        /\ net'[i] = carry + residual(pair) + (IF o.side = "Buy" THEN f ELSE -f)
    BY <1>4, <1>8, FillKeeps
  <2>4. residual(pair') = residual(pair) + (IF o.side = "Buy" THEN f ELSE -f)
    BY <1>1, <2>1, <2>2 DEF residual, Pairs
  <2> QED BY <1>1, <1>4, <1>8, <2>1, <2>2, <2>3, <2>4
<1>9. ASSUME rule # "APPROVED", pair' = mark_leg_failed(pair, rule), net' = net
      PROVE  rule \in Errors
  BY <1>3, <1>9 DEF Errors
<1>10. "NOT_FILLED" \in Errors
  BY DEF Errors
<1>11. ASSUME NEW f \in 1..o.qty, NEW better \in 0..(f * Improvement)
       PROVE  Notional(o, f, better) \in Int
  <2>1. f \in Int /\ o.px \in Int /\ f * Improvement \in Int
    BY ExecutionAssumption DEF OrderIntent
  <2>2. better \in Int /\ f * o.px \in Int
    BY <2>1
  <2> QED BY <2>2 DEF Notional
<1> QED
  BY <1>6, <1>7, <1>8, <1>9, <1>10, <1>11 DEF SendOne, rule
-----------------------------------------------------------------------------
(* The fresh opportunity is well typed.                                    *)
LEMMA OpportunityFacts ==
  ASSUME NEW q \in [Venues -> BestQuote]
  PROVE  best_opportunity(q) \in Opportunities
<1>1. ASSUME NEW v \in Venues, NEW w \in Venues
      PROVE  try_direction(v, w, q) \in Opportunities
  <2>1. q[v] \in BestQuote /\ q[w] \in BestQuote
    OBVIOUS
  <2>2. all_in_cost \in Int
    BY StrategyAssumption DEF all_in_cost
  <2>3. /\ q[v].ask_px \in Int /\ q[w].bid_px \in Int
        /\ q[v].ask_qty \in Int /\ q[w].bid_qty \in Int /\ StrategyMaxQty \in Int
    BY <2>1, StrategyAssumption DEF BestQuote
  <2>4. Lesser(q[v].ask_qty, Lesser(q[w].bid_qty, StrategyMaxQty)) \in Int
    BY <2>3 DEF Lesser
  <2>5. (q[w].bid_px - q[v].ask_px) - all_in_cost \in Int
    BY <2>2, <2>3
  <2> QED BY <2>3, <2>4, <2>5 DEF try_direction, Opportunities
<1>2. /\ try_direction("BSE", "NSE", q) \in Opportunities
      /\ try_direction("NSE", "BSE", q) \in Opportunities
  BY <1>1 DEF Venues
<1> QED BY <1>2 DEF best_opportunity

(* An opportunity's two legs are order intents.                            *)
LEMMA LegsTyped ==
  ASSUME IndInv
  PROVE  FirstLeg \in OrderIntent /\ SecondLeg \in OrderIntent
<1>1. opp \in Opportunities
  BY DEF IndInv, TypeOK
<1>2. BuyLeg \in OrderIntent /\ SellLeg \in OrderIntent
  BY <1>1 DEF BuyLeg, SellLeg, OrderIntent, Opportunities, Sides
<1> QED BY <1>2 DEF FirstLeg, SecondLeg

LEMMA BeginKeeps ==
  ASSUME IndInv, Begin
  PROVE  IndInv'
<1>1. PICK i \in Instruments, q \in QuotePairs, s \in Seconds : BeginTrade(i, q, s)
  BY DEF Begin
<1>2. q \in [Venues -> BestQuote]
  BY ExecutionAssumption DEF QuotePairs
<1>3. opp' \in Opportunities
  BY <1>1, <1>2, OpportunityFacts DEF BeginTrade
<1>4. /\ pair' \in Pairs /\ pair'.instrument = i /\ pair'.bought = 0 /\ pair'.sold = 0
  <2>1. opp'.buy_venue \in Venues /\ opp'.sell_venue \in Venues
    BY <1>3 DEF Opportunities
  <2>2. pair' = NewPair(i, opp'.buy_venue, opp'.sell_venue)
    BY <1>1 DEF BeginTrade
  <2> QED BY <2>1, <2>2, NewPairFacts
<1>5. residual(pair') = 0
  BY <1>4 DEF residual
<1>6. /\ net' = net /\ carry' = net[i] /\ pc' = "first" /\ sec' = s /\ s >= sec
      /\ bucket' = bucket /\ approved' = approved /\ enabled' = enabled
      /\ sellFirst' = sellFirst /\ trades' = trades /\ quotes' = q
  BY <1>1 DEF BeginTrade
<1>7. /\ net[i] \in (-MaxPositionQty)..MaxPositionQty /\ net[i] \in Int
  BY DEF IndInv, TypeOK, PositionCap
<1>8. TypeOK'
  BY <1>2, <1>3, <1>4, <1>6, <1>7 DEF IndInv, TypeOK
<1>9. PositionCap' /\ RatePerSecond'
  BY <1>6 DEF IndInv, PositionCap, RatePerSecond
<1>10. Ledger'
  <2>1. net'[pair'.instrument] = carry' + residual(pair')
    BY <1>4, <1>5, <1>6, <1>7
  <2> QED BY <1>6, <1>7, <2>1 DEF Ledger
<1>11. Limiter'
  <2> SUFFICES ASSUME NEW j \in Instruments
               PROVE  /\ bucket'[j].sec <= sec'
                      /\ approved'[j][bucket'[j].sec] = bucket'[j].count
                      /\ \A t \in Seconds : t > bucket'[j].sec => approved'[j][t] = 0
    BY DEF Limiter
  <2>1. bucket[j].sec <= sec /\ bucket[j].sec \in Nat /\ sec \in Nat /\ s \in Nat
    BY ExecutionAssumption DEF IndInv, TypeOK, Limiter, Bucket, Seconds
  <2>2. /\ approved[j][bucket[j].sec] = bucket[j].count
        /\ \A t \in Seconds : t > bucket[j].sec => approved[j][t] = 0
    BY DEF IndInv, Limiter
  <2> QED BY <1>6, <2>1, <2>2
<1>12. Fresh' /\ Enabled' /\ Ending' /\ PairOutcome'
  BY <1>5, <1>6 DEF Fresh, Enabled, Ending, PairOutcome
<1>13. Counted'
  BY <1>1, <1>6 DEF BeginTrade, Counted
<1> QED BY <1>8, <1>9, <1>10, <1>11, <1>12, <1>13 DEF IndInv

LEMMA SendKeeps ==
  ASSUME IndInv, SendFirst \/ SendSecond
  PROVE  IndInv'
<1>1. PICK o \in OrderIntent : SendOne(o) /\ pc \in {"first", "second"}
                               /\ pc' \in {"second", "settle"}
  BY LegsTyped DEF SendFirst, SendSecond
<1>2. /\ pair' \in Pairs /\ pair'.instrument = pair.instrument
      /\ net' \in [Instruments -> Int] /\ PositionCap'
      /\ net'[pair.instrument] = carry + residual(pair')
      /\ bucket' \in [Instruments -> Bucket]
      /\ approved' \in [Instruments -> [Seconds -> Nat]]
      /\ Limiter' /\ RatePerSecond'
      /\ residual(pair') # 0 => enabled
  BY <1>1, SendOneKeeps
<1>3. /\ sellFirst' = sellFirst /\ quotes' = quotes /\ opp' = opp /\ enabled' = enabled
      /\ sec' = sec /\ trades' = trades /\ carry' = carry
  BY <1>1 DEF SendOne
<1>4. TypeOK'
  BY <1>1, <1>2, <1>3 DEF IndInv, TypeOK
<1>5. Ledger'
  BY <1>1, <1>2, <1>3 DEF IndInv, Ledger
<1>6. Fresh' /\ Enabled' /\ Ending' /\ PairOutcome'
  BY <1>1, <1>2, <1>3 DEF Fresh, Enabled, Ending, PairOutcome
<1>7. Counted'
  BY <1>1, <1>3 DEF IndInv, Counted
<1> QED BY <1>2, <1>4, <1>5, <1>6, <1>7 DEF IndInv

(* The state alone may be overwritten without moving any quantity.         *)
LEMMA StateFields ==
  ASSUME NEW p \in Pairs, NEW st \in PairStates
  PROVE  LET r == [p EXCEPT !.state = st]
         IN  /\ r \in Pairs /\ r.instrument = p.instrument /\ r.attempts = p.attempts
             /\ residual(r) = residual(p) /\ r.state = st /\ r.error = p.error
BY DEF Pairs, residual

(* The end of execute_opportunity, from either of its two returns.         *)
LEMMA ReturnKeeps ==
  ASSUME IndInv, Return, NEW st \in PairStates, pair' = [pair EXCEPT !.state = st],
         UNCHANGED <<sellFirst, net, enabled, bucket, sec, carry, approved>>,
         trades < MaxTrades,
         IF residual(pair) = 0 THEN st = "Flat"
         ELSE \/ /\ st = "KillSwitch" /\ ~enabled
                 /\ pair.error \in {"MAX_HEDGE_LOSS", "NO_SAFE_HEDGE_QUOTE"}
              \/ /\ st = "ErrorRecovery"
                 /\ \/ pair.attempts = MaxHedgeAttempts
                    \/ pair.error \in {"MAX_NOTIONAL", "ORDER_RATE"}
  PROVE  IndInv'
<1>1. /\ pair' \in Pairs /\ pair'.attempts = pair.attempts /\ residual(pair') = residual(pair)
      /\ pair'.state = st /\ pair'.error = pair.error
  <2>1. pair \in Pairs
    BY DEF IndInv, TypeOK
  <2> QED BY <2>1, StateFields
<1>2. pc' = "idle" /\ trades' = trades + 1 /\ quotes' = NoQuotes /\ opp' = NoOpp
  BY DEF Return
<1>3. quotes' \in [Venues -> BestQuote] /\ opp' \in Opportunities
  BY <1>2 DEF NoQuotes, NoQuote, BestQuote, NoOpp, Opportunities, Venues
<1>4. trades' \in 0..MaxTrades
  BY <1>2, ExecutionAssumption DEF IndInv, TypeOK
<1>5. TypeOK'
  BY <1>1, <1>2, <1>3, <1>4 DEF IndInv, TypeOK
<1>6. PositionCap' /\ RatePerSecond' /\ Limiter'
  BY DEF IndInv, PositionCap, RatePerSecond, Limiter
<1>7. Ledger' /\ Fresh' /\ Enabled' /\ Counted' /\ Ending'
  BY <1>2 DEF Ledger, Fresh, Enabled, Counted, Ending
<1>8. PairOutcome'
  BY <1>1, Zenon DEF PairOutcome
<1> QED BY <1>5, <1>6, <1>7, <1>8 DEF IndInv

LEMMA SettleKeeps ==
  ASSUME IndInv, SettleFlat \/ SettleOpen
  PROVE  IndInv'
<1>0. pair \in Pairs
  BY DEF IndInv, TypeOK
<1>1. CASE SettleFlat
  <2>1. "Flat" \in PairStates /\ residual(pair) = 0 /\ Return
        /\ pair' = [pair EXCEPT !.state = "Flat"]
        /\ UNCHANGED <<sellFirst, net, enabled, bucket, sec, carry, approved>>
    BY <1>1 DEF SettleFlat, PairStates
  <2>2. trades < MaxTrades
    BY <1>1 DEF SettleFlat, IndInv, Counted
  <2> QED BY <2>1, <2>2, ReturnKeeps
<1>2. CASE SettleOpen
  <2>1. /\ pc = "settle" /\ pc' = "hedge" /\ residual(pair) # 0
        /\ pair' = [pair EXCEPT !.state = "Hedging"]
        /\ UNCHANGED <<sellFirst, quotes, opp, net, enabled, bucket, sec, trades, carry,
                       approved>>
    BY <1>2 DEF SettleOpen
  <2>2. /\ pair' \in Pairs /\ pair'.instrument = pair.instrument
        /\ residual(pair') = residual(pair) /\ pair'.state = "Hedging"
    BY <1>0, <2>1, StateFields DEF PairStates
  <2>3. TypeOK'
    BY <2>1, <2>2 DEF IndInv, TypeOK
  <2>4. PositionCap' /\ RatePerSecond' /\ Limiter' /\ Counted'
    BY <2>1 DEF IndInv, PositionCap, RatePerSecond, Limiter, Counted
  <2>5. Ledger'
    BY <2>1, <2>2 DEF IndInv, Ledger
  <2>6. Fresh' /\ Enabled' /\ Ending' /\ PairOutcome'
    BY <2>1, <2>2 DEF IndInv, Fresh, Enabled, Ending, PairOutcome
  <2> QED BY <2>3, <2>4, <2>5, <2>6 DEF IndInv
<1> QED BY <1>1, <1>2
-----------------------------------------------------------------------------
(* The order next_order proposes inside the loop, and what RiskEngine can  *)
(* say to it.                                                              *)
LEMMA HedgeOrderFacts ==
  ASSUME IndInv, pc = "hedge", LoopGuard, NEW q \in [Venues -> BestQuote],
         next_order(pair, q).should_send
  PROVE  LET o == next_order(pair, q).intent
         IN  /\ o \in OrderIntent
             /\ o.side = IF residual(pair) > 0 THEN "Sell" ELSE "Buy"
             /\ o.qty <= IF residual(pair) > 0 THEN residual(pair) ELSE -residual(pair)
             /\ Check(o, q[o.venue]) \in {"APPROVED", "MAX_NOTIONAL", "ORDER_RATE"}
<1> DEFINE o == next_order(pair, q).intent
           v == o.venue
           i == pair.instrument
           r == residual(pair)
<1>1. /\ pair \in Pairs /\ i \in Instruments /\ r \in Int /\ carry \in Int
      /\ net[i] \in Int
  BY DEF IndInv, TypeOK, Pairs, residual
<1>2. r # 0 /\ pair.attempts < MaxHedgeAttempts /\ pair.state = "Hedging"
  BY DEF LoopGuard
<1>3. /\ o \in OrderIntent /\ o = HedgeIntent(pair, v, q[v]) /\ o.qty > 0
      /\ valid(q[v]) /\ q[v].age <= MaxBookAge
  BY <1>1, <1>2, NextOrderFacts
<1> HIDE DEF o
<1>4. v \in Venues /\ q[v] \in BestQuote /\ o.qty \in Int /\ o.px \in Int
  BY <1>3 DEF OrderIntent
<1>5. /\ o.qty <= MaxOrderQty
      /\ o.side = IF r > 0 THEN "Sell" ELSE "Buy"
      /\ o.qty <= IF r > 0 THEN r ELSE -r
      /\ o.px = IF r > 0 THEN q[v].bid_px ELSE q[v].ask_px
  BY <1>1, <1>2, <1>3, <1>4, HedgeIntentFacts
<1>6. enabled
  BY <1>2 DEF IndInv, Enabled
<1>7. /\ net[i] = carry + r
      /\ net[i] \in (-MaxPositionQty)..MaxPositionQty
      /\ carry \in (-MaxPositionQty)..MaxPositionQty
  BY <1>1 DEF IndInv, Ledger, PositionCap
<1>8. q[v].bid_px > 0 /\ q[v].ask_px > 0 /\ q[v].bid_px \in Int /\ q[v].ask_px \in Int
      /\ q[v].age \in Nat
  BY <1>3, <1>4 DEF valid, BestQuote
<1> HIDE DEF r, v, i
<1>9. InsidePosition(o, net[i])
  <2>1. CASE r > 0
    <3>1. signed_effect(o) = -o.qty /\ o.qty <= r
      BY <1>5, <2>1 DEF signed_effect
    <3> QED BY <1>1, <1>3, <1>4, <1>7, <3>1, RiskConfigAssumption DEF InsidePosition
  <2>2. CASE r < 0
    <3>1. signed_effect(o) = o.qty /\ o.qty <= -r
      BY <1>1, <1>5, <2>2 DEF signed_effect
    <3> QED BY <1>1, <1>3, <1>4, <1>7, <3>1, RiskConfigAssumption DEF InsidePosition
  <2> QED BY <1>1, <1>2, <2>1, <2>2
<1>10. o.px > 0 /\ InsideBand(o, q[v])
  BY <1>1, <1>5, <1>8, RiskConfigAssumption DEF InsideBand
<1>11. ~(q[v].age > MaxBookAge) /\ ~(o.qty <= 0 \/ o.qty > MaxOrderQty) /\ ~(o.px <= 0)
  BY <1>3, <1>4, <1>5, <1>8, <1>10, RiskConfigAssumption
<1>12. Check(o, q[v]) \in {"APPROVED", "MAX_NOTIONAL", "ORDER_RATE"}
  BY <1>3, <1>6, <1>9, <1>10, <1>11, Zenon DEF Check, check_order, i
<1> QED BY <1>3, <1>5, <1>12 DEF o, r, v

LEMMA HedgeStopKeeps ==
  ASSUME IndInv, NEW q \in [Venues -> BestQuote], HedgeStop(q)
  PROVE  IndInv' /\ residual(pair') = residual(pair) /\ net' = net /\ approved' = approved
<1> DEFINE d == next_order(pair, q)
<1>1. /\ pc = "hedge" /\ LoopGuard /\ ~d.should_send
      /\ pair' = [pair EXCEPT !.state = IF d.kill THEN "KillSwitch" ELSE "ErrorRecovery",
                              !.error = d.reason]
      /\ enabled' = (enabled /\ ~d.kill)
      /\ UNCHANGED <<pc, sellFirst, quotes, opp, net, bucket, sec, trades, carry, approved>>
  BY DEF HedgeStop
<1>2. pair \in Pairs /\ residual(pair) # 0 /\ pair.attempts < MaxHedgeAttempts
  BY <1>1 DEF IndInv, TypeOK, LoopGuard
<1>3. d.kill /\ d.reason \in {"MAX_HEDGE_LOSS", "NO_SAFE_HEDGE_QUOTE"}
  BY <1>1, <1>2, NextOrderFacts
<1> HIDE DEF d
<1>4. pair' = [pair EXCEPT !.state = "KillSwitch", !.error = d.reason] /\ enabled' = FALSE
  BY <1>1, <1>3
<1>5. d.reason \in Errors /\ "KillSwitch" \in PairStates
  BY <1>3 DEF Errors, PairStates
<1>6. /\ pair' \in Pairs /\ pair'.instrument = pair.instrument
      /\ pair'.bought = pair.bought /\ pair'.sold = pair.sold
      /\ pair'.state = "KillSwitch" /\ pair'.error = d.reason
  BY <1>2, <1>4, <1>5 DEF Pairs
<1>7. residual(pair') = residual(pair)
  BY <1>6 DEF residual
<1>8. TypeOK'
  BY <1>1, <1>4, <1>6 DEF IndInv, TypeOK
<1>9. PositionCap' /\ RatePerSecond' /\ Limiter' /\ Counted'
  BY <1>1 DEF IndInv, PositionCap, RatePerSecond, Limiter, Counted
<1>10. Ledger'
  BY <1>1, <1>6, <1>7 DEF IndInv, Ledger
<1>11. Fresh' /\ Enabled' /\ Ending' /\ PairOutcome'
  BY <1>1, <1>3, <1>4, <1>6 DEF Fresh, Enabled, Ending, PairOutcome
<1> QED BY <1>1, <1>7, <1>8, <1>9, <1>10, <1>11 DEF IndInv

(* residual(r) lies between 0 and residual(pair).                          *)
Reduces(r) ==
  \/ 0 <= residual(r) /\ residual(r) <= residual(pair)
  \/ residual(pair) <= residual(r) /\ residual(r) <= 0

LEMMA HedgeSendKeeps ==
  ASSUME IndInv, NEW q \in [Venues -> BestQuote], HedgeSend(q)
  PROVE  IndInv' /\ Reduces(pair') /\ enabled
<1> DEFINE i == pair.instrument
           r == residual(pair)
           o == next_order(pair, q).intent
           rule == Check(o, q[o.venue])
           p == [pair EXCEPT !.attempts = @ + 1]
<1>1. /\ pc = "hedge" /\ LoopGuard /\ next_order(pair, q).should_send /\ Account(rule)
      /\ UNCHANGED <<pc, sellFirst, quotes, opp, enabled, sec, trades, carry>>
      /\ \/ /\ rule # "APPROVED"
            /\ pair' = [p EXCEPT !.state = "ErrorRecovery", !.error = rule]
            /\ net' = net
         \/ /\ rule = "APPROVED"
            /\ pair' = p /\ net' = net
         \/ /\ rule = "APPROVED"
            /\ \E f \in 1..o.qty : \E better \in 0..(f * Improvement) :
                  /\ pair' = apply_fill(p, o.side, f, Notional(o, f, better))
                  /\ net' = PositionAfter(o, f)
  BY DEF HedgeSend
<1>2. /\ o \in OrderIntent
      /\ o.side = IF r > 0 THEN "Sell" ELSE "Buy"
      /\ o.qty <= IF r > 0 THEN r ELSE -r
      /\ rule \in {"APPROVED", "MAX_NOTIONAL", "ORDER_RATE"}
  BY <1>1, HedgeOrderFacts
<1>3. /\ pair \in Pairs /\ i \in Instruments /\ net \in [Instruments -> Int]
      /\ q[o.venue] \in BestQuote /\ enabled \in BOOLEAN /\ bucket[i] \in Bucket
      /\ net[i] \in Int /\ sec \in Nat /\ carry \in Int /\ r \in Int
  BY <1>2, ExecutionAssumption DEF IndInv, TypeOK, Pairs, OrderIntent, Seconds, residual
<1>4. r # 0 /\ pair.attempts < MaxHedgeAttempts /\ pair.state = "Hedging"
  BY <1>1 DEF LoopGuard
<1>5. enabled
  BY <1>1, <1>4 DEF IndInv, Enabled
<1>6. ASSUME rule = "APPROVED"
      PROVE  InsidePosition(o, net[i]) /\ Allow(bucket[i], sec)
  BY <1>2, <1>3, <1>6, ApprovedFacts DEF Check
<1>7. net[i] = carry + r
  BY <1>1 DEF IndInv, Ledger
<1>8. /\ p \in Pairs /\ p.instrument = i /\ p.bought = pair.bought /\ p.sold = pair.sold
      /\ p.state = "Hedging" /\ p.attempts = pair.attempts + 1
  <2>1. pair.attempts + 1 \in 0..MaxHedgeAttempts
    BY <1>3, <1>4, RiskConfigAssumption DEF Pairs
  <2> QED BY <1>3, <1>4, <2>1 DEF Pairs
<1> HIDE DEF rule, o, p
<1>9. /\ bucket' \in [Instruments -> Bucket]
      /\ approved' \in [Instruments -> [Seconds -> Nat]]
      /\ Limiter' /\ RatePerSecond'
  BY <1>1, <1>6, AccountKeeps
<1> DEFINE Good == /\ pair' \in Pairs /\ pair'.instrument = i
                   /\ net' \in [Instruments -> Int] /\ PositionCap'
                   /\ net'[i] = carry + residual(pair')
                   /\ Reduces(pair') /\ Ending'
<1>10. ASSUME rule # "APPROVED", net' = net,
              pair' = [p EXCEPT !.state = "ErrorRecovery", !.error = rule]
       PROVE  Good
  <2>1. rule \in Errors /\ "ErrorRecovery" \in PairStates
    BY <1>2, <1>10 DEF Errors, Rules, PairStates
  <2>2. /\ pair' \in Pairs /\ pair'.instrument = i /\ pair'.bought = pair.bought
        /\ pair'.sold = pair.sold /\ pair'.state = "ErrorRecovery" /\ pair'.error = rule
    BY <1>8, <1>10, <2>1 DEF Pairs
  <2>3. residual(pair') = r
    BY <2>2 DEF residual
  <2>4. PositionCap' /\ Ending'
    BY <1>2, <1>10, <2>2 DEF IndInv, PositionCap, Ending
  <2>5. Reduces(pair')
    BY <1>3, <2>3 DEF Reduces
  <2> QED BY <1>3, <1>7, <1>10, <2>2, <2>3, <2>4, <2>5
<1>11. ASSUME pair' = p, net' = net
       PROVE  Good
  <2>1. residual(pair') = r
    BY <1>8, <1>11 DEF residual
  <2>2. PositionCap' /\ Ending'
    BY <1>8, <1>11 DEF IndInv, PositionCap, Ending
  <2>3. Reduces(pair')
    BY <1>3, <2>1 DEF Reduces
  <2> QED BY <1>3, <1>7, <1>8, <1>11, <2>1, <2>2, <2>3
<1>12. ASSUME rule = "APPROVED", NEW f \in 1..o.qty, NEW better \in 0..(f * Improvement),
              pair' = apply_fill(p, o.side, f, Notional(o, f, better)),
              net' = PositionAfter(o, f)
       PROVE  Good
  <2>1. o.qty \in Int /\ f \in Nat /\ f > 0 /\ f <= o.qty /\ o.side \in Sides
    BY <1>2 DEF OrderIntent
  <2>2. Notional(o, f, better) \in Int
    <3>1. o.px \in Int /\ f * Improvement \in Int
      BY <1>2, <2>1, ExecutionAssumption DEF OrderIntent
    <3>2. better \in Int /\ f * o.px \in Int
      BY <2>1, <3>1
    <3> QED BY <3>2 DEF Notional
  <2>3. /\ pair' \in Pairs /\ pair'.instrument = p.instrument
        /\ pair'.bought = IF o.side = "Buy" THEN p.bought + f ELSE p.bought
        /\ pair'.sold = IF o.side = "Buy" THEN p.sold ELSE p.sold + f
        /\ pair'.state = IF residual(pair') = 0 THEN "Flat" ELSE "Hedging"
    BY <1>8, <1>12, <2>1, <2>2, ApplyFillFields, ZenonT(60)
  <2>4. /\ net' \in [Instruments -> Int] /\ PositionCap'
        /\ net'[i] = carry + r + (IF o.side = "Buy" THEN f ELSE -f)
    BY <1>1, <1>2, <1>6, <1>12, FillKeeps
  <2>5. residual(pair') = r + (IF o.side = "Buy" THEN f ELSE -f)
    BY <1>3, <1>8, <2>1, <2>3 DEF residual, Pairs
  <2>6. Reduces(pair')
    <3> HIDE DEF r
    <3>1. CASE r > 0
      BY <1>2, <1>3, <2>1, <2>5, <3>1 DEF Reduces, r
    <3>2. CASE r < 0
      BY <1>2, <1>3, <2>1, <2>5, <3>2 DEF Reduces, r
    <3> QED BY <1>3, <1>4, <3>1, <3>2
  <2>7. net'[i] = carry + residual(pair')
    BY <1>3, <2>1, <2>4, <2>5
  <2>8. Ending'
    BY <2>3 DEF Ending
  <2> QED BY <1>8, <2>3, <2>4, <2>6, <2>7, <2>8
<1>13. Good
  BY <1>1, <1>10, <1>11, <1>12
<1>14. TypeOK'
  BY <1>1, <1>9, <1>13 DEF IndInv, TypeOK
<1>15. Ledger'
  BY <1>1, <1>13 DEF IndInv, Ledger
<1>16. Fresh' /\ Enabled' /\ PairOutcome'
  BY <1>1, <1>5 DEF Fresh, Enabled, PairOutcome
<1>17. Counted'
  BY <1>1 DEF IndInv, Counted
<1> QED BY <1>5, <1>9, <1>13, <1>14, <1>15, <1>16, <1>17 DEF IndInv

LEMMA HedgeDoneKeeps ==
  ASSUME IndInv, HedgeDone
  PROVE  IndInv'
<1> DEFINE st == IF residual(pair) = 0 THEN "Flat"
                 ELSE IF pair.state = "Hedging" THEN "ErrorRecovery" ELSE pair.state
<1>1. /\ pc = "hedge" /\ ~LoopGuard /\ Return
      /\ pair' = [pair EXCEPT !.state = st]
      /\ UNCHANGED <<sellFirst, net, enabled, bucket, sec, carry, approved>>
  BY DEF HedgeDone
<1>2. pair \in Pairs /\ st \in PairStates
  BY DEF IndInv, TypeOK, Pairs, PairStates
<1>3. trades < MaxTrades
  BY <1>1 DEF IndInv, Counted
<1>4. pair.attempts = MaxHedgeAttempts \/ residual(pair) = 0 \/ pair.state # "Hedging"
  BY <1>1, <1>2, RiskConfigAssumption DEF LoopGuard, Pairs
<1>5. IF residual(pair) = 0 THEN st = "Flat"
      ELSE \/ /\ st = "KillSwitch" /\ ~enabled
              /\ pair.error \in {"MAX_HEDGE_LOSS", "NO_SAFE_HEDGE_QUOTE"}
           \/ /\ st = "ErrorRecovery"
              /\ \/ pair.attempts = MaxHedgeAttempts
                 \/ pair.error \in {"MAX_NOTIONAL", "ORDER_RATE"}
  BY <1>1, <1>4 DEF IndInv, Ending
<1> HIDE DEF st
<1> QED BY <1>1, <1>2, <1>3, <1>5, ReturnKeeps

(* Every step preserves the invariant.                                     *)
LEMMA IndInvNext == IndInv /\ [Next]_vars => IndInv'
<1> SUFFICES ASSUME IndInv, [Next]_vars PROVE IndInv'
  OBVIOUS
<1>1. CASE Begin
  BY <1>1, BeginKeeps
<1>2. CASE SendFirst \/ SendSecond
  BY <1>2, SendKeeps
<1>3. CASE SettleFlat \/ SettleOpen
  BY <1>3, SettleKeeps
<1>4. CASE Hedge
  <2>1. PICK q \in QuotePairs : HedgeStop(q) \/ HedgeSend(q)
    BY <1>4 DEF Hedge
  <2>2. q \in [Venues -> BestQuote]
    BY ExecutionAssumption DEF QuotePairs
  <2> QED BY <2>1, <2>2, HedgeStopKeeps, HedgeSendKeeps
<1>5. CASE HedgeDone
  BY <1>5, HedgeDoneKeeps
<1>6. CASE UNCHANGED vars
  BY <1>6 DEF vars, IndInv, TypeOK, PositionCap, Ledger, Fresh, Enabled, Counted, Limiter,
              RatePerSecond, Ending, PairOutcome, LoopGuard, residual
<1> QED BY <1>1, <1>2, <1>3, <1>4, <1>5, <1>6 DEF Next, Execute, ReplayEnd
-----------------------------------------------------------------------------
(* The inductive invariant holds in every reachable state.                 *)
THEOREM Invariance == Spec => []IndInv
BY IndInvInit, IndInvNext, PTL DEF Spec

(* The trading core never leaves its types, whatever the market shows and  *)
(* the gateway fills.                                                      *)
THEOREM TypeCorrect == Spec => []TypeOK
<1>1. IndInv => TypeOK
  BY DEF IndInv
<1> QED BY <1>1, Invariance, PTL

(* No sequence of alpha legs, partial fills and hedges takes the position  *)
(* of any instrument past max_position_qty, although check_order looks at  *)
(* one order at a time.                                                    *)
THEOREM CapHolds == Spec => []PositionCap
<1>1. IndInv => PositionCap
  BY DEF IndInv
<1> QED BY <1>1, Invariance, PTL

(* RateLimiter never lets more than max_orders_per_sec orders of one       *)
(* instrument through in one second.                                       *)
THEOREM RateHolds == Spec => []RatePerSecond
<1>1. IndInv => RatePerSecond
  BY DEF IndInv
<1> QED BY <1>1, Invariance, PTL

(* The final state of execute_opportunity tells the truth about the        *)
(* residual and the kill switch.                                           *)
THEOREM OutcomeHolds == Spec => []PairOutcome
<1>1. IndInv => PairOutcome
  BY DEF IndInv
<1> QED BY <1>1, Invariance, PTL

(* RiskEngine refuses a hedge only for its notional or the order rate.     *)
THEOREM HedgesAccepted == Spec => []HedgeRefusals
<1>1. IndInv => HedgeRefusals
  <2> SUFFICES ASSUME IndInv, pc = "hedge", LoopGuard, NEW q \in QuotePairs,
                      next_order(pair, q).should_send
               PROVE  Check(next_order(pair, q).intent, q[next_order(pair, q).intent.venue])
                        \in {"APPROVED", "MAX_NOTIONAL", "ORDER_RATE"}
    BY DEF HedgeRefusals
  <2>1. q \in [Venues -> BestQuote]
    BY ExecutionAssumption DEF QuotePairs
  <2> QED BY <2>1, HedgeOrderFacts
<1> QED BY <1>1, Invariance, PTL

(* A hedge only ever takes the residual towards zero.                      *)
THEOREM HedgesReduce == Spec => HedgeReduces
<1> DEFINE A == pc = "hedge" => Reduces(pair')
<1>1. ASSUME IndInv, [Next]_vars PROVE A \/ UNCHANGED vars
  <2> SUFFICES ASSUME pc = "hedge" PROVE Reduces(pair') \/ UNCHANGED vars
    OBVIOUS
  <2>1. pair \in Pairs /\ residual(pair) \in Int
    BY <1>1 DEF IndInv, TypeOK, Pairs, residual
  <2>2. CASE Hedge
    <3>1. PICK q \in QuotePairs : HedgeStop(q) \/ HedgeSend(q)
      BY <2>2 DEF Hedge
    <3>2. q \in [Venues -> BestQuote]
      BY ExecutionAssumption DEF QuotePairs
    <3>3. CASE HedgeStop(q)
      <4>1. residual(pair') = residual(pair)
        BY <1>1, <3>2, <3>3, HedgeStopKeeps
      <4> QED BY <2>1, <4>1 DEF Reduces
    <3>4. CASE HedgeSend(q)
      BY <1>1, <3>2, <3>4, HedgeSendKeeps
    <3> QED BY <3>1, <3>3, <3>4
  <2>3. CASE HedgeDone
    <3>1. pair'.bought = pair.bought /\ pair'.sold = pair.sold
      BY <2>1, <2>3 DEF HedgeDone, Pairs
    <3>2. residual(pair') = residual(pair)
      BY <3>1 DEF residual
    <3> QED BY <2>1, <3>2 DEF Reduces
  <2> QED
    BY <1>1, <2>2, <2>3 DEF Next, Execute, Begin, BeginTrade, SendFirst, SendSecond,
                            SettleFlat, SettleOpen, ReplayEnd
<1>2. A \/ UNCHANGED vars => [pc = "hedge" =>
         \/ 0 <= residual(pair') /\ residual(pair') <= residual(pair)
         \/ residual(pair) <= residual(pair') /\ residual(pair') <= 0]_vars
  BY DEF Reduces, vars
<1>3. IndInv /\ [Next]_vars => [pc = "hedge" =>
         \/ 0 <= residual(pair') /\ residual(pair') <= residual(pair)
         \/ residual(pair) <= residual(pair') /\ residual(pair') <= 0]_vars
  BY <1>1, <1>2
<1> QED BY <1>3, Invariance, PTL DEF Spec, HedgeReduces

(* A blocked order leaves the position alone.                              *)
LEMMA BlockedOrder ==
  ASSUME IndInv, ~enabled, NEW o, SendOne(o)
  PROVE  net' = net /\ approved' = approved
<1>1. Check(o, quotes[o.venue]) = "KILL_SWITCH"
  BY Zenon DEF Check, check_order
<1>2. Check(o, quotes[o.venue]) # "APPROVED"
  BY <1>1
<1> QED BY <1>2 DEF SendOne, Account

(* After the kill switch is thrown nothing trades, in any instrument.      *)
THEOREM KillHolds == Spec => KillStops
<1> DEFINE A == ~enabled => ~enabled' /\ net' = net /\ approved' = approved
<1>1. ASSUME IndInv, [Next]_vars PROVE A
  <2> SUFFICES ASSUME ~enabled PROVE ~enabled' /\ net' = net /\ approved' = approved
    OBVIOUS
  <2>1. CASE Begin
    BY <2>1 DEF Begin, BeginTrade
  <2>2. CASE SendFirst \/ SendSecond
    <3>1. PICK o : SendOne(o)
      BY <2>2 DEF SendFirst, SendSecond
    <3>2. net' = net /\ approved' = approved
      BY <1>1, <3>1, BlockedOrder
    <3> QED BY <3>1, <3>2 DEF SendOne
  <2>3. CASE SettleFlat \/ SettleOpen \/ HedgeDone
    BY <2>3 DEF SettleFlat, SettleOpen, HedgeDone
  <2>4. CASE Hedge
    <3>1. PICK q \in QuotePairs : HedgeStop(q) \/ HedgeSend(q)
      BY <2>4 DEF Hedge
    <3>2. q \in [Venues -> BestQuote]
      BY ExecutionAssumption DEF QuotePairs
    <3>3. HedgeStop(q)
      BY <1>1, <3>1, <3>2, HedgeSendKeeps
    <3> QED BY <3>3 DEF HedgeStop
  <2>5. CASE UNCHANGED vars
    BY <2>5 DEF vars
  <2> QED BY <1>1, <2>1, <2>2, <2>3, <2>4, <2>5 DEF Next, Execute, ReplayEnd
<1>2. IndInv /\ [Next]_vars => [~enabled => ~enabled' /\ net' = net /\ approved' = approved]_vars
  BY <1>1
<1> QED BY <1>2, Invariance, PTL DEF Spec, KillStops
-----------------------------------------------------------------------------
(* What a pair may lose.  The alpha legs alone cannot lose: what is bought *)
(* costs at most buy_px a share, what is sold brings at least sell_px.     *)
CrossedBooksOnly == threshold + all_in_cost >= 0

AlphaSafe ==
  pc \in {"first", "second", "settle"} =>
    /\ 0 < opp.buy_px /\ opp.buy_px <= opp.sell_px /\ pair.attempts = 0
    /\ pair.bought_notional <= pair.bought * opp.buy_px
    /\ pair.sold_notional >= pair.sold * opp.sell_px

(* A long pair's sales have brought the average purchase price, a short    *)
(* one's purchases have cost the average sale price, but for what the      *)
(* hedges were allowed to lose.                                            *)
LongSafe(p) ==
  /\ residual(p) >= 0 /\ p.bought > 0
  /\ p.sold * avg_buy_px(p) <= p.sold_notional + p.attempts * MaxHedgeLoss

ShortSafe(p) ==
  /\ residual(p) <= 0 /\ p.sold > 0 /\ avg_sell_px(p) > 0
  /\ p.bought_notional <= p.bought * avg_sell_px(p) + p.attempts * MaxHedgeLoss

HedgeSafe == pc = "hedge" => LongSafe(pair) \/ ShortSafe(pair)

LossInv == AlphaSafe /\ HedgeSafe /\ PairLossBound

LEMMA Scale ==
  ASSUME NEW n \in Nat, NEW a \in Int, NEW b \in Int, a <= b
  PROVE  n * a <= n * b
<1>1. b - a \in Nat /\ n * b = n * a + n * (b - a)
  OBVIOUS
<1>2. \A d \in Nat : n * d >= 0 /\ n * d \in Int
  OBVIOUS
<1> QED BY <1>1, <1>2

LEMMA Distribute ==
  ASSUME NEW a \in Int, NEW b \in Int, NEW n \in Int
  PROVE  (a + b) * n = a * n + b * n /\ a * n \in Int /\ b * n \in Int
OBVIOUS

LEMMA OneMore ==
  ASSUME NEW k \in Int, NEW n \in Int
  PROVE  (k + 1) * n = k * n + n /\ k * n \in Int
OBVIOUS

(* A part of an order loses at most what the whole order may lose.         *)
LEMMA PartLoses ==
  ASSUME NEW qty \in Int, NEW f \in 1..qty, NEW a \in Int, NEW px \in Int, NEW max \in Nat,
         a > px => (a - px) * qty <= max
  PROVE  f * a <= f * px + max
<1>1. f \in Nat /\ qty \in Nat
  OBVIOUS
<1>2. CASE a <= px
  <2>1. f * a <= f * px
    BY <1>1, <1>2, Scale
  <2> QED BY <1>1, <2>1
<1>3. CASE a > px
  <2> DEFINE d == a - px
  <2>1. d \in Nat
    BY <1>3
  <2>2. d * f <= d * qty
    <3> HIDE DEF d
    <3> QED BY <1>1, <2>1, Scale
  <2>3. d * f = f * a - f * px
    BY <1>1
  <2>4. d * f \in Int /\ d * qty \in Int /\ d * qty <= max
    BY <1>1, <1>3, <2>1
  <2> HIDE DEF d
  <2> QED BY <1>1, <2>2, <2>3, <2>4
<1> QED BY <1>2, <1>3

(* The average of n shares whose notional is at most n * px is at most px, *)
(* and the like from below; an average hides less than one paisa a share.  *)
LEMMA Average ==
  ASSUME NEW n \in Nat, n > 0, NEW m \in Int, NEW px \in Int
  PROVE  /\ m \div n \in Int
         /\ n * (m \div n) <= m /\ m < n * (m \div n) + n
         /\ m <= n * px => m \div n <= px
         /\ m >= n * px => m \div n >= px
<1> DEFINE a == m \div n
           r == m % n
<1>1. r \in 0..(n-1) /\ a \in Int /\ m = n * a + r
  BY DivMod
<1> HIDE DEF a, r
<1>2. n * a <= m /\ m < n * a + n
  BY <1>1
<1>3. ASSUME m <= n * px, a > px PROVE FALSE
  <2>1. n * (px + 1) <= n * a
    BY <1>1, <1>3, Scale
  <2> QED BY <1>1, <1>3, <2>1
<1>4. ASSUME m >= n * px, a < px PROVE FALSE
  <2>1. n * (a + 1) <= n * px
    BY <1>1, <1>4, Scale
  <2> QED BY <1>1, <1>4, <2>1
<1>5. m <= n * px => a <= px
  BY <1>1, <1>3
<1>6. m >= n * px => a >= px
  BY <1>1, <1>4
<1> QED BY <1>1, <1>2, <1>5, <1>6 DEF a

(* Safety of a pair is about its quantities, notionals and attempts.       *)
SameFills(p, r) ==
  /\ r.bought = p.bought /\ r.sold = p.sold
  /\ r.bought_notional = p.bought_notional /\ r.sold_notional = p.sold_notional

LEMMA SafeAgain ==
  ASSUME NEW p \in Pairs, NEW r \in Pairs, SameFills(p, r), r.attempts >= p.attempts
  PROVE  /\ LongSafe(p) => LongSafe(r)
         /\ ShortSafe(p) => ShortSafe(r)
<1>1. /\ residual(r) = residual(p) /\ avg_buy_px(r) = avg_buy_px(p)
      /\ avg_sell_px(r) = avg_sell_px(p)
  BY DEF SameFills, residual, avg_buy_px, avg_sell_px
<1>2. /\ p.attempts \in Int /\ r.attempts \in Int /\ p.bought \in Nat /\ p.sold \in Nat
      /\ p.bought_notional \in Int /\ p.sold_notional \in Int /\ MaxHedgeLoss \in Nat
  BY RiskConfigAssumption DEF Pairs
<1>3. p.attempts * MaxHedgeLoss <= r.attempts * MaxHedgeLoss
  <2>1. MaxHedgeLoss * p.attempts <= MaxHedgeLoss * r.attempts
    BY <1>2, Scale
  <2> QED BY <1>2, <2>1
<1> DEFINE x == p.attempts * MaxHedgeLoss
           y == r.attempts * MaxHedgeLoss
<1>4. x \in Int /\ y \in Int /\ x <= y
  BY <1>2, <1>3
<1>5. ASSUME LongSafe(p) PROVE LongSafe(r)
  <2> DEFINE w == p.sold * avg_buy_px(p)
  <2>1. w \in Int
    <3>1. p.bought_notional \div p.bought \in Int
      BY <1>2, <1>5, DivMod DEF LongSafe
    <3> QED BY <1>2, <1>5, <3>1 DEF LongSafe, avg_buy_px
  <2>2. w <= p.sold_notional + x
    BY <1>5 DEF LongSafe
  <2> HIDE DEF w, x, y
  <2>3. w <= p.sold_notional + y
    BY <1>2, <1>4, <2>1, <2>2
  <2> QED BY <1>1, <1>5, <2>3 DEF LongSafe, SameFills, w, y
<1>6. ASSUME ShortSafe(p) PROVE ShortSafe(r)
  <2> DEFINE w == p.bought * avg_sell_px(p)
  <2>1. w \in Int
    <3>1. p.sold_notional \div p.sold \in Int
      BY <1>2, <1>6, DivMod DEF ShortSafe
    <3> QED BY <1>2, <1>6, <3>1 DEF ShortSafe, avg_sell_px
  <2>2. p.bought_notional <= w + x
    BY <1>6 DEF ShortSafe
  <2> HIDE DEF w, x, y
  <2>3. p.bought_notional <= w + y
    BY <1>2, <1>4, <2>1, <2>2
  <2> QED BY <1>1, <1>6, <2>3 DEF ShortSafe, SameFills, w, y
<1> QED BY <1>5, <1>6

(* A flat pair that is safe keeps the bound.                               *)
LEMMA FlatBound ==
  ASSUME NEW p \in Pairs, residual(p) = 0, LongSafe(p) \/ ShortSafe(p)
  PROVE  p.bought_notional - p.sold_notional < p.attempts * MaxHedgeLoss + p.bought
<1>1. /\ p.attempts \in Int /\ p.bought \in Nat /\ p.sold = p.bought
      /\ p.bought_notional \in Int /\ p.sold_notional \in Int /\ MaxHedgeLoss \in Nat
  BY RiskConfigAssumption DEF Pairs, residual
<1>2. p.bought > 0
  BY <1>1 DEF LongSafe, ShortSafe
<1> DEFINE x == p.attempts * MaxHedgeLoss
<1>3. x \in Int
  BY <1>1
<1>4. CASE LongSafe(p)
  <2> DEFINE a == avg_buy_px(p)
             w == p.bought * a
  <2>1. a = p.bought_notional \div p.bought
    BY <1>2 DEF avg_buy_px
  <2>2. a \in Int /\ p.bought_notional < w + p.bought
    BY <1>1, <1>2, <2>1, Average
  <2>3. w <= p.sold_notional + x
    BY <1>1, <1>4 DEF LongSafe
  <2>4. w \in Int
    BY <1>1, <2>2
  <2> HIDE DEF a, w, x
  <2>5. p.bought_notional - p.sold_notional < x + p.bought
    BY <1>1, <1>3, <2>2, <2>3, <2>4
  <2> QED BY <2>5 DEF x
<1>5. CASE ShortSafe(p)
  <2> DEFINE c == avg_sell_px(p)
             w == p.bought * c
  <2>1. c = p.sold_notional \div p.sold /\ p.sold > 0
    BY <1>1, <1>2 DEF avg_sell_px
  <2>2. c \in Int /\ w <= p.sold_notional
    BY <1>1, <2>1, Average
  <2>3. p.bought_notional <= w + x
    BY <1>5 DEF ShortSafe
  <2>4. w \in Int
    BY <1>1, <2>2
  <2> HIDE DEF c, w, x
  <2>5. p.bought_notional - p.sold_notional < x + p.bought
    BY <1>1, <1>2, <1>3, <2>2, <2>3, <2>4
  <2> QED BY <2>5 DEF x
<1> QED BY <1>4, <1>5

(* What one order adds to the pair.                                        *)
LEMMA FillNotionals ==
  ASSUME NEW p \in Pairs, NEW side \in Sides, NEW qty \in Nat, NEW notional \in Int
  PROVE  LET r == apply_fill(p, side, qty, notional)
         IN  /\ r.bought_notional = IF side = "Buy" THEN p.bought_notional + notional
                                                    ELSE p.bought_notional
             /\ r.sold_notional = IF side = "Buy" THEN p.sold_notional
                                                  ELSE p.sold_notional + notional
<1> DEFINE f == AddFill(p, side, qty, notional)
<1>1. /\ f.bought_notional = IF side = "Buy" THEN p.bought_notional + notional
                                             ELSE p.bought_notional
      /\ f.sold_notional = IF side = "Buy" THEN p.sold_notional
                                           ELSE p.sold_notional + notional
      /\ DOMAIN f = DOMAIN p
  BY DEF AddFill, Pairs
<1>2. apply_fill(p, side, qty, notional)
        = [f EXCEPT !.state = IF residual(f) = 0 THEN "Flat" ELSE "Hedging"]
  BY DEF apply_fill
<1> HIDE DEF f
<1> QED BY <1>1, <1>2 DEF Pairs

(* next_order proposes no order that may lose more than max_hedge_loss.    *)
LEMMA LossAllowed ==
  ASSUME NEW p \in Pairs, NEW q, ~ForceFlatten, next_order(p, q).should_send
  PROVE  ~(HedgeLoss(p, next_order(p, q).intent) > MaxHedgeLoss)
<1>1. ASSUME NEW v, NEW b, candidate_for_venue(p, v, b).should_send
      PROVE  ~(HedgeLoss(p, candidate_for_venue(p, v, b).intent) > MaxHedgeLoss)
  BY <1>1 DEF candidate_for_venue, Decision
<1> DEFINE preferred == IF residual(p) > 0 THEN p.sell_venue ELSE p.buy_venue
           fallback == other_venue(preferred)
           d1 == candidate_for_venue(p, preferred, q[preferred])
           d2 == candidate_for_venue(p, fallback, q[fallback])
           none == Decision(FALSE, TRUE, NoIntent, "NO_SAFE_HEDGE_QUOTE")
<1>2. next_order(p, q) = IF d1.should_send \/ d1.kill THEN d1
                         ELSE IF d2.should_send \/ d2.kill THEN d2 ELSE none
  BY DEF next_order, Decision
<1>3. ~none.should_send
  BY DEF Decision
<1>4. /\ d1.should_send => ~(HedgeLoss(p, d1.intent) > MaxHedgeLoss)
      /\ d2.should_send => ~(HedgeLoss(p, d2.intent) > MaxHedgeLoss)
  BY <1>1
<1> HIDE DEF d1, d2, none
<1> QED BY <1>2, <1>3, <1>4

(* The strategy only trades books that are crossed.                        *)
LEMMA BeginSafe ==
  ASSUME IndInv, LossInv, CrossedBooksOnly, Begin
  PROVE  LossInv'
<1>1. PICK i \in Instruments, q \in QuotePairs, s \in Seconds : BeginTrade(i, q, s)
  BY DEF Begin
<1>2. q \in [Venues -> BestQuote]
  BY ExecutionAssumption DEF QuotePairs
<1>3. /\ should_trade(q) /\ opp' = best_opportunity(q) /\ pc' = "first"
      /\ pair' = NewPair(i, opp'.buy_venue, opp'.sell_venue)
  BY <1>1 DEF BeginTrade
<1>4. PICK v \in Venues, w \in Venues : opp' = try_direction(v, w, q)
  BY <1>3 DEF best_opportunity, Venues
<1>5. /\ q[v].ask_px \in Int /\ q[w].bid_px \in Int /\ q[v].ask_px > 0
      /\ opp'.net_edge >= threshold
  BY <1>2, <1>3 DEF should_trade, valid, BestQuote
<1>6. all_in_cost \in Int /\ threshold \in Int
  BY StrategyAssumption DEF all_in_cost, threshold
<1>7. /\ opp'.buy_px = q[v].ask_px /\ opp'.sell_px = q[w].bid_px
      /\ opp'.net_edge = (q[w].bid_px - q[v].ask_px) - all_in_cost
  BY <1>4 DEF try_direction
<1>8. 0 < opp'.buy_px /\ opp'.buy_px <= opp'.sell_px /\ opp'.buy_px \in Int /\ opp'.sell_px \in Int
  BY <1>5, <1>6, <1>7 DEF CrossedBooksOnly
<1>9. /\ pair'.bought = 0 /\ pair'.sold = 0 /\ pair'.bought_notional = 0
      /\ pair'.sold_notional = 0 /\ pair'.attempts = 0
  BY <1>3 DEF NewPair
<1>10. AlphaSafe'
  BY <1>8, <1>9 DEF AlphaSafe
<1> QED BY <1>3, <1>10 DEF LossInv, HedgeSafe, PairLossBound

(* An alpha leg fills at its limit or better.                              *)
LEMMA SendSafe ==
  ASSUME IndInv, LossInv, SendFirst \/ SendSecond
  PROVE  LossInv'
<1>1. PICK o \in {BuyLeg, SellLeg} : SendOne(o) /\ pc \in {"first", "second"}
                                    /\ pc' \in {"second", "settle"}
  BY DEF SendFirst, SendSecond, FirstLeg, SecondLeg
<1>2. /\ 0 < opp.buy_px /\ opp.buy_px <= opp.sell_px /\ pair.attempts = 0
      /\ pair.bought_notional <= pair.bought * opp.buy_px
      /\ pair.sold_notional >= pair.sold * opp.sell_px
  BY <1>1 DEF LossInv, AlphaSafe
<1>3. /\ pair \in Pairs /\ opp \in Opportunities /\ opp' = opp
  BY <1>1 DEF IndInv, TypeOK, SendOne
<1>4. /\ opp.buy_px \in Int /\ opp.sell_px \in Int /\ opp.qty \in Int
      /\ pair.bought \in Nat /\ pair.sold \in Nat
      /\ pair.bought_notional \in Int /\ pair.sold_notional \in Int
  BY <1>3 DEF Opportunities, Pairs
<1> DEFINE Good(r) == /\ r.attempts = 0
                      /\ r.bought_notional <= r.bought * opp.buy_px
                      /\ r.sold_notional >= r.sold * opp.sell_px
<1>5. ASSUME NEW reason, pair' = mark_leg_failed(pair, reason) PROVE Good(pair')
  <2>1. SameFills(pair, pair') /\ pair'.attempts = pair.attempts
    BY <1>3, <1>5 DEF mark_leg_failed, Pairs, SameFills
  <2> QED BY <1>2, <2>1 DEF SameFills
<1>6. ASSUME NEW f \in 1..o.qty, NEW better \in 0..(f * Improvement),
             pair' = apply_fill(pair, o.side, f, Notional(o, f, better))
      PROVE  Good(pair')
  <2>1. f \in Nat /\ better \in Nat
    <3>1. f \in Nat /\ o.qty \in Int
      BY <1>1, <1>4 DEF BuyLeg, SellLeg
    <3>2. f * Improvement \in Int
      BY <3>1, ExecutionAssumption
    <3> QED BY <3>1, <3>2
  <2>2. CASE o = BuyLeg
    <3> DEFINE m == f * opp.buy_px - better
    <3>1. o.side = "Buy" /\ Notional(o, f, better) = m /\ m \in Int /\ o.side \in Sides
      BY <1>4, <2>1, <2>2 DEF BuyLeg, Notional, Sides
    <3>2. pair' = apply_fill(pair, "Buy", f, m) /\ "Buy" \in Sides
      BY <1>6, <3>1
    <3> HIDE DEF m
    <3>3. /\ pair'.bought = pair.bought + f /\ pair'.sold = pair.sold
          /\ pair'.attempts = pair.attempts
      BY <1>3, <2>1, <3>1, <3>2, ApplyFillFields
    <3>4. /\ pair'.bought_notional = pair.bought_notional + m
          /\ pair'.sold_notional = pair.sold_notional
      BY <1>3, <2>1, <3>1, <3>2, FillNotionals
    <3>5. (pair.bought + f) * opp.buy_px = pair.bought * opp.buy_px + f * opp.buy_px
      BY <1>4, <2>1
    <3>6. pair.bought_notional + m <= (pair.bought + f) * opp.buy_px
      BY <1>2, <1>4, <2>1, <3>5 DEF m
    <3> QED BY <1>2, <3>3, <3>4, <3>6
  <2>3. CASE o = SellLeg
    <3> DEFINE m == f * opp.sell_px + better
    <3>1. o.side = "Sell" /\ Notional(o, f, better) = m /\ m \in Int /\ o.side \in Sides
      BY <1>4, <2>1, <2>3 DEF SellLeg, Notional, Sides
    <3>2. pair' = apply_fill(pair, "Sell", f, m) /\ "Sell" \in Sides
      BY <1>6, <3>1
    <3> HIDE DEF m
    <3>3. /\ pair'.bought = pair.bought /\ pair'.sold = pair.sold + f
          /\ pair'.attempts = pair.attempts
      BY <1>3, <2>1, <3>1, <3>2, ApplyFillFields
    <3>4. /\ pair'.bought_notional = pair.bought_notional
          /\ pair'.sold_notional = pair.sold_notional + m
      BY <1>3, <2>1, <3>1, <3>2, FillNotionals
    <3>5. (pair.sold + f) * opp.sell_px = pair.sold * opp.sell_px + f * opp.sell_px
      BY <1>4, <2>1
    <3>6. pair.sold_notional + m >= (pair.sold + f) * opp.sell_px
      BY <1>2, <1>4, <2>1, <3>5 DEF m
    <3> QED BY <1>2, <3>3, <3>4, <3>6
  <2> QED BY <1>1, <2>2, <2>3
<1>7. Good(pair')
  BY <1>1, <1>5, <1>6 DEF SendOne
<1>8. AlphaSafe'
  BY <1>2, <1>3, <1>7 DEF AlphaSafe
<1> QED BY <1>1, <1>8 DEF LossInv, HedgeSafe, PairLossBound

(* After the alpha legs a pair has not lost anything yet, whichever leg    *)
(* has filled more.                                                        *)
LEMMA LegsSafe ==
  ASSUME NEW p \in Pairs, NEW b \in Int, NEW s \in Int, 0 < b, b <= s,
         p.attempts = 0, p.bought_notional <= p.bought * b, p.sold_notional >= p.sold * s
  PROVE  (p.bought = p.sold /\ p.bought = 0) \/ LongSafe(p) \/ ShortSafe(p)
<1>1. /\ p.bought \in Nat /\ p.sold \in Nat /\ p.bought_notional \in Int
      /\ p.sold_notional \in Int /\ MaxHedgeLoss \in Nat
      /\ p.attempts * MaxHedgeLoss = 0
  BY RiskConfigAssumption DEF Pairs
<1>2. CASE p.bought > 0 /\ p.bought >= p.sold
  <2> DEFINE a == avg_buy_px(p)
  <2>1. a = p.bought_notional \div p.bought
    BY <1>2 DEF avg_buy_px
  <2>2. a \in Int /\ a <= b
    BY <1>1, <1>2, <2>1, Average
  <2> HIDE DEF a
  <2>3. p.sold * a <= p.sold * s
    BY <1>1, <2>2, Scale
  <2>4. p.sold * a <= p.sold_notional
    <3>1. p.sold * a \in Int /\ p.sold * s \in Int
      BY <1>1, <2>2
    <3> QED BY <1>1, <2>3, <3>1
  <2>5. p.sold * a <= p.sold_notional + p.attempts * MaxHedgeLoss
    BY <1>1, <2>4
  <2> QED BY <1>1, <1>2, <2>5 DEF LongSafe, residual, a
<1>3. CASE p.sold > p.bought
  <2> DEFINE c == avg_sell_px(p)
  <2>1. c = p.sold_notional \div p.sold /\ p.sold > 0
    BY <1>1, <1>3 DEF avg_sell_px
  <2>2. c \in Int /\ c >= s
    BY <1>1, <2>1, Average
  <2> HIDE DEF c
  <2>3. p.bought * b <= p.bought * c
    BY <1>1, <2>2, Scale
  <2>4. p.bought_notional <= p.bought * c
    <3>1. p.bought * b \in Int /\ p.bought * c \in Int
      BY <1>1, <2>2
    <3> QED BY <1>1, <2>3, <3>1
  <2>5. p.bought_notional <= p.bought * c + p.attempts * MaxHedgeLoss
    <3>1. p.bought * c \in Int
      BY <1>1, <2>2
    <3> QED BY <1>1, <2>4, <3>1
  <2>6. residual(p) <= 0 /\ c > 0
    BY <1>1, <1>3, <2>2 DEF residual
  <2> QED BY <2>1, <2>5, <2>6 DEF ShortSafe, c
<1> QED BY <1>1, <1>2, <1>3

LEMMA SettleSafe ==
  ASSUME IndInv, LossInv, SettleFlat \/ SettleOpen
  PROVE  LossInv'
<1>1. /\ pc = "settle" /\ pair \in Pairs /\ opp \in Opportunities
      /\ 0 < opp.buy_px /\ opp.buy_px <= opp.sell_px /\ pair.attempts = 0
      /\ pair.bought_notional <= pair.bought * opp.buy_px
      /\ pair.sold_notional >= pair.sold * opp.sell_px
  BY DEF SettleFlat, SettleOpen, LossInv, AlphaSafe, IndInv, TypeOK
<1>2. opp.buy_px \in Int /\ opp.sell_px \in Int
  BY <1>1 DEF Opportunities
<1>3. (pair.bought = pair.sold /\ pair.bought = 0) \/ LongSafe(pair) \/ ShortSafe(pair)
  BY <1>1, <1>2, LegsSafe
<1>4. /\ pair' \in Pairs /\ SameFills(pair, pair') /\ pair'.attempts = pair.attempts
      /\ pair'.attempts >= pair.attempts
  BY <1>1 DEF SettleFlat, SettleOpen, Pairs, PairStates, SameFills
<1>5. CASE SettleFlat
  <2>1. pc' = "idle" /\ residual(pair') = 0
    BY <1>4, <1>5 DEF SettleFlat, Return, SameFills, residual
  <2>2. pair'.bought = 0 \/ LongSafe(pair') \/ ShortSafe(pair')
    BY <1>1, <1>3, <1>4, SafeAgain DEF SameFills
  <2>3. pair'.bought = 0 \/ pair'.bought_notional - pair'.sold_notional
                               < pair'.attempts * MaxHedgeLoss + pair'.bought
    BY <1>4, <2>1, <2>2, FlatBound
  <2> QED BY <2>1, <2>3 DEF LossInv, AlphaSafe, HedgeSafe, PairLossBound
<1>6. CASE SettleOpen
  <2>1. pc' = "hedge" /\ residual(pair) # 0
    BY <1>6 DEF SettleOpen
  <2>2. LongSafe(pair) \/ ShortSafe(pair)
    BY <1>1, <1>3, <2>1 DEF residual, Pairs
  <2>3. LongSafe(pair') \/ ShortSafe(pair')
    BY <1>1, <1>4, <2>2, SafeAgain
  <2> QED BY <2>1, <2>3 DEF LossInv, AlphaSafe, HedgeSafe, PairLossBound
<1> QED BY <1>5, <1>6

(* A hedge of a long pair, and one of a short pair, that loses at most     *)
(* max_hedge_loss.                                                         *)
LEMMA LongHedge ==
  ASSUME NEW p \in Pairs, NEW r \in Pairs, LongSafe(p), NEW f \in Nat, NEW m \in Int,
         f <= residual(p), r.bought = p.bought, r.bought_notional = p.bought_notional,
         r.sold = p.sold + f, r.sold_notional = p.sold_notional + m,
         r.attempts = p.attempts + 1, f * avg_buy_px(p) <= m + MaxHedgeLoss
  PROVE  LongSafe(r)
<1> DEFINE a == avg_buy_px(p)
<1>1. /\ p.bought \in Nat /\ p.bought > 0 /\ p.sold \in Nat /\ p.sold_notional \in Int
      /\ p.attempts \in Int /\ MaxHedgeLoss \in Nat /\ p.bought_notional \in Int
  BY RiskConfigAssumption DEF Pairs, LongSafe
<1>2. a \in Int
  <2>1. p.bought_notional \div p.bought \in Int
    BY <1>1, DivMod
  <2> QED BY <1>1, <2>1 DEF avg_buy_px
<1>3. avg_buy_px(r) = a
  BY DEF avg_buy_px
<1>4. p.sold * a <= p.sold_notional + p.attempts * MaxHedgeLoss /\ f * a <= m + MaxHedgeLoss
  BY DEF LongSafe
<1> HIDE DEF a
<1>5. /\ (p.sold + f) * a = p.sold * a + f * a
      /\ (p.attempts + 1) * MaxHedgeLoss = p.attempts * MaxHedgeLoss + MaxHedgeLoss
      /\ p.sold * a \in Int /\ f * a \in Int /\ p.attempts * MaxHedgeLoss \in Int
  <2>1. (p.sold + f) * a = p.sold * a + f * a /\ p.sold * a \in Int /\ f * a \in Int
    BY <1>1, <1>2, Distribute
  <2>2. /\ (p.attempts + 1) * MaxHedgeLoss = p.attempts * MaxHedgeLoss + MaxHedgeLoss
        /\ p.attempts * MaxHedgeLoss \in Int
    <3> DEFINE k == p.attempts
    <3>1. k \in Int /\ MaxHedgeLoss \in Int
      BY <1>1
    <3> HIDE DEF k
    <3>2. (k + 1) * MaxHedgeLoss = k * MaxHedgeLoss + MaxHedgeLoss /\ k * MaxHedgeLoss \in Int
      BY <3>1, OneMore
    <3> QED BY <3>2 DEF k
  <2> QED BY <1>1, <2>1, <2>2
<1>6. (p.sold + f) * a <= p.sold_notional + m + (p.attempts + 1) * MaxHedgeLoss
  BY <1>1, <1>4, <1>5
<1>7. residual(r) >= 0
  BY <1>1 DEF residual
<1> QED BY <1>1, <1>3, <1>6, <1>7 DEF LongSafe

LEMMA ShortHedge ==
  ASSUME NEW p \in Pairs, NEW r \in Pairs, ShortSafe(p), NEW f \in Nat, NEW m \in Int,
         f <= -residual(p), r.sold = p.sold, r.sold_notional = p.sold_notional,
         r.bought = p.bought + f, r.bought_notional = p.bought_notional + m,
         r.attempts = p.attempts + 1, m <= f * avg_sell_px(p) + MaxHedgeLoss
  PROVE  ShortSafe(r)
<1> DEFINE c == avg_sell_px(p)
<1>1. /\ p.sold \in Nat /\ p.sold > 0 /\ p.bought \in Nat /\ p.bought_notional \in Int
      /\ p.attempts \in Int /\ MaxHedgeLoss \in Nat /\ p.sold_notional \in Int /\ c > 0
  BY RiskConfigAssumption DEF Pairs, ShortSafe
<1>2. c \in Int
  <2>1. p.sold_notional \div p.sold \in Int
    BY <1>1, DivMod
  <2> QED BY <1>1, <2>1 DEF avg_sell_px
<1>3. avg_sell_px(r) = c
  BY DEF avg_sell_px
<1>4. p.bought_notional <= p.bought * c + p.attempts * MaxHedgeLoss /\ m <= f * c + MaxHedgeLoss
  BY DEF ShortSafe
<1> HIDE DEF c
<1>5. /\ (p.bought + f) * c = p.bought * c + f * c
      /\ (p.attempts + 1) * MaxHedgeLoss = p.attempts * MaxHedgeLoss + MaxHedgeLoss
      /\ p.bought * c \in Int /\ f * c \in Int /\ p.attempts * MaxHedgeLoss \in Int
  <2>1. (p.bought + f) * c = p.bought * c + f * c /\ p.bought * c \in Int /\ f * c \in Int
    BY <1>1, <1>2, Distribute
  <2>2. /\ (p.attempts + 1) * MaxHedgeLoss = p.attempts * MaxHedgeLoss + MaxHedgeLoss
        /\ p.attempts * MaxHedgeLoss \in Int
    <3> DEFINE k == p.attempts
    <3>1. k \in Int /\ MaxHedgeLoss \in Int
      BY <1>1
    <3> HIDE DEF k
    <3>2. (k + 1) * MaxHedgeLoss = k * MaxHedgeLoss + MaxHedgeLoss /\ k * MaxHedgeLoss \in Int
      BY <3>1, OneMore
    <3> QED BY <3>2 DEF k
  <2> QED BY <1>1, <2>1, <2>2
<1>6. p.bought_notional + m <= (p.bought + f) * c + (p.attempts + 1) * MaxHedgeLoss
  BY <1>1, <1>4, <1>5
<1>7. residual(r) <= 0
  BY <1>1 DEF residual
<1> QED BY <1>1, <1>3, <1>6, <1>7 DEF ShortSafe

LEMMA HedgeSendSafe ==
  ASSUME IndInv, LossInv, ~ForceFlatten, NEW q \in [Venues -> BestQuote], HedgeSend(q)
  PROVE  LossInv'
<1> DEFINE o == next_order(pair, q).intent
           p == [pair EXCEPT !.attempts = @ + 1]
           rr == residual(pair)
           rule == Check(o, q[o.venue])
<1>1. /\ pc = "hedge" /\ pc' = "hedge" /\ LoopGuard /\ next_order(pair, q).should_send
      /\ \/ pair' = [p EXCEPT !.state = "ErrorRecovery", !.error = rule]
         \/ pair' = p
         \/ \E f \in 1..o.qty : \E better \in 0..(f * Improvement) :
               pair' = apply_fill(p, o.side, f, Notional(o, f, better))
  BY DEF HedgeSend
<1>2. /\ o \in OrderIntent
      /\ o.side = IF rr > 0 THEN "Sell" ELSE "Buy"
      /\ o.qty <= IF rr > 0 THEN rr ELSE -rr
  BY <1>1, HedgeOrderFacts
<1>3. pair \in Pairs /\ pair' \in Pairs /\ rr \in Int /\ rr # 0
  <2>1. pair \in Pairs /\ rr \in Int
    BY DEF IndInv, TypeOK, Pairs, residual
  <2>2. IndInv'
    BY HedgeSendKeeps
  <2> QED BY <1>1, <2>1, <2>2 DEF IndInv, TypeOK, LoopGuard
<1>4. LongSafe(pair) \/ ShortSafe(pair)
  BY <1>1 DEF LossInv, HedgeSafe
<1>5. ~(HedgeLoss(pair, o) > MaxHedgeLoss)
  BY <1>1, <1>3, LossAllowed
<1>6. /\ p \in Pairs /\ SameFills(pair, p) /\ p.attempts = pair.attempts + 1
  <2>1. pair.attempts + 1 \in 0..MaxHedgeAttempts
    BY <1>1, <1>3, RiskConfigAssumption DEF Pairs, LoopGuard
  <2> QED BY <1>3, <2>1 DEF Pairs, SameFills
<1> HIDE DEF o, p, rule
<1>7. ASSUME SameFills(pair, pair'), pair'.attempts = pair.attempts + 1
      PROVE  LongSafe(pair') \/ ShortSafe(pair')
  <2>1. pair'.attempts >= pair.attempts
    BY <1>3, <1>7 DEF Pairs
  <2> QED BY <1>3, <1>4, <1>7, <2>1, SafeAgain
<1>8. ASSUME pair' = [p EXCEPT !.state = "ErrorRecovery", !.error = rule]
      PROVE  SameFills(pair, pair') /\ pair'.attempts = pair.attempts + 1
  BY <1>6, <1>8 DEF SameFills, Pairs
<1>9. ASSUME NEW f \in 1..o.qty, NEW better \in 0..(f * Improvement),
             pair' = apply_fill(p, o.side, f, Notional(o, f, better))
      PROVE  LongSafe(pair') \/ ShortSafe(pair')
  <2>1. f \in Nat /\ better \in Nat /\ o.px \in Int /\ o.qty \in Int /\ f <= o.qty
    <3>1. f \in Nat /\ o.qty \in Int /\ o.px \in Int
      BY <1>2 DEF OrderIntent
    <3>2. f * Improvement \in Int
      BY <3>1, ExecutionAssumption
    <3> QED BY <3>1, <3>2
  <2>2. MaxHedgeLoss \in Nat
    BY RiskConfigAssumption
  <2>3. CASE rr > 0
    <3> DEFINE m == f * o.px + better
               a == avg_buy_px(pair)
    <3>1. o.side = "Sell" /\ Notional(o, f, better) = m /\ m \in Int
      BY <1>2, <2>1, <2>3 DEF Notional
    <3>2. pair' = apply_fill(p, "Sell", f, m) /\ "Sell" \in Sides
      BY <1>9, <3>1 DEF Sides
    <3>3. LongSafe(pair)
      BY <1>3, <1>4, <2>3 DEF ShortSafe
    <3>4. a \in Int
      <4>1. pair.bought > 0 /\ pair.bought \in Nat /\ pair.bought_notional \in Int
        BY <1>3, <3>3 DEF LongSafe, Pairs
      <4>2. pair.bought_notional \div pair.bought \in Int
        BY <4>1, DivMod
      <4> QED BY <4>1, <4>2 DEF avg_buy_px
    <3>5. HedgeLoss(pair, o) = IF a > o.px THEN (a - o.px) * o.qty ELSE 0
      BY <2>3 DEF HedgeLoss
    <3>6. a > o.px => (a - o.px) * o.qty <= MaxHedgeLoss
      <4> HIDE DEF a
      <4>1. (a - o.px) * o.qty \in Int
        BY <2>1, <3>4
      <4> QED BY <1>5, <2>2, <3>5, <4>1
    <3>7. f * a <= f * o.px + MaxHedgeLoss
      <4> HIDE DEF a
      <4> QED BY <2>1, <2>2, <3>4, <3>6, PartLoses
    <3>8. f * a <= m + MaxHedgeLoss
      <4> HIDE DEF a
      <4>1. f * a \in Int /\ f * o.px \in Int
        BY <2>1, <3>4
      <4> QED BY <2>1, <2>2, <3>7, <4>1
    <3> HIDE DEF m
    <3>9. /\ pair'.bought = pair.bought /\ pair'.sold = pair.sold + f
          /\ pair'.attempts = pair.attempts + 1
      <4>1. /\ pair'.bought = p.bought /\ pair'.sold = p.sold + f
            /\ pair'.attempts = p.attempts
        <5>1. p \in Pairs /\ "Sell" \in Sides /\ f \in Nat /\ m \in Int
          BY <1>6, <2>1, <3>1, <3>2
        <5>2. /\ apply_fill(p, "Sell", f, m).bought = p.bought
              /\ apply_fill(p, "Sell", f, m).sold = p.sold + f
              /\ apply_fill(p, "Sell", f, m).attempts = p.attempts
          BY ONLY <5>1, ApplyFillFields
        <5> QED BY <3>2, <5>2
      <4> QED BY <1>6, <4>1 DEF SameFills
    <3>10. /\ pair'.bought_notional = pair.bought_notional
           /\ pair'.sold_notional = pair.sold_notional + m
      <4>1. /\ pair'.bought_notional = p.bought_notional
            /\ pair'.sold_notional = p.sold_notional + m
        BY <1>6, <2>1, <3>1, <3>2, FillNotionals
      <4> QED BY <1>6, <4>1 DEF SameFills
    <3>11. f <= rr
      BY <1>2, <1>3, <2>1, <2>3
    <3>12. LongSafe(pair')
      BY <1>3, <2>1, <3>1, <3>3, <3>8, <3>9, <3>10, <3>11, LongHedge
    <3> QED BY <3>12
  <2>4. CASE rr < 0
    <3> DEFINE m == f * o.px - better
               c == avg_sell_px(pair)
    <3>1. o.side = "Buy" /\ Notional(o, f, better) = m /\ m \in Int
      BY <1>2, <1>3, <2>1, <2>4 DEF Notional
    <3>2. pair' = apply_fill(p, "Buy", f, m) /\ "Buy" \in Sides
      BY <1>9, <3>1 DEF Sides
    <3>3. ShortSafe(pair)
      BY <1>3, <1>4, <2>4 DEF LongSafe
    <3>4. c \in Int /\ c > 0
      <4>1. /\ pair.sold > 0 /\ pair.sold \in Nat /\ pair.sold_notional \in Int
            /\ c > 0
        BY <1>3, <3>3 DEF ShortSafe, Pairs
      <4>2. pair.sold_notional \div pair.sold \in Int
        BY <4>1, DivMod
      <4> QED BY <4>1, <4>2 DEF avg_sell_px
    <3>5. HedgeLoss(pair, o) = IF c > 0 /\ o.px > c THEN (o.px - c) * o.qty ELSE 0
      BY <1>3, <2>4 DEF HedgeLoss
    <3>6. o.px > c => (o.px - c) * o.qty <= MaxHedgeLoss
      <4> HIDE DEF c
      <4>1. (o.px - c) * o.qty \in Int
        BY <2>1, <3>4
      <4> QED BY <1>5, <2>2, <3>4, <3>5, <4>1
    <3>7. f * o.px <= f * c + MaxHedgeLoss
      <4> HIDE DEF c
      <4> QED BY <2>1, <2>2, <3>4, <3>6, PartLoses
    <3>8. m <= f * c + MaxHedgeLoss
      <4> HIDE DEF c
      <4>1. f * c \in Int /\ f * o.px \in Int
        BY <2>1, <3>4
      <4> QED BY <2>1, <2>2, <3>7, <4>1
    <3> HIDE DEF m
    <3>9. /\ pair'.bought = pair.bought + f /\ pair'.sold = pair.sold
          /\ pair'.attempts = pair.attempts + 1
      <4>1. /\ pair'.bought = p.bought + f /\ pair'.sold = p.sold
            /\ pair'.attempts = p.attempts
        <5>1. p \in Pairs /\ "Buy" \in Sides /\ f \in Nat /\ m \in Int
          BY <1>6, <2>1, <3>1, <3>2
        <5>2. /\ apply_fill(p, "Buy", f, m).bought = p.bought + f
              /\ apply_fill(p, "Buy", f, m).sold = p.sold
              /\ apply_fill(p, "Buy", f, m).attempts = p.attempts
          BY ONLY <5>1, ApplyFillFields
        <5> QED BY <3>2, <5>2
      <4> QED BY <1>6, <4>1 DEF SameFills
    <3>10. /\ pair'.bought_notional = pair.bought_notional + m
           /\ pair'.sold_notional = pair.sold_notional
      <4>1. /\ pair'.bought_notional = p.bought_notional + m
            /\ pair'.sold_notional = p.sold_notional
        BY <1>6, <2>1, <3>1, <3>2, FillNotionals
      <4> QED BY <1>6, <4>1 DEF SameFills
    <3>11. f <= -rr
      BY <1>2, <1>3, <2>1, <2>4
    <3>12. ShortSafe(pair')
      BY <1>3, <2>1, <3>1, <3>3, <3>8, <3>9, <3>10, <3>11, ShortHedge
    <3> QED BY <3>12
  <2> QED BY <1>3, <2>3, <2>4
<1>10. LongSafe(pair') \/ ShortSafe(pair')
  BY <1>1, <1>6, <1>7, <1>8, <1>9
<1> QED BY <1>1, <1>10 DEF LossInv, AlphaSafe, HedgeSafe, PairLossBound

(* A pair that stops hedging, or that returns, has the fills it had.       *)
LEMMA HedgeStopSafe ==
  ASSUME IndInv, LossInv, NEW q \in [Venues -> BestQuote], HedgeStop(q)
  PROVE  LossInv'
<1>1. /\ pc = "hedge" /\ pc' = "hedge"
      /\ pair' = [pair EXCEPT !.state = IF next_order(pair, q).kill THEN "KillSwitch"
                                        ELSE "ErrorRecovery",
                              !.error = next_order(pair, q).reason]
  BY DEF HedgeStop
<1>2. pair \in Pairs /\ pair' \in Pairs
  <2>1. IndInv'
    BY HedgeStopKeeps
  <2> QED BY <2>1 DEF IndInv, TypeOK
<1>3. SameFills(pair, pair') /\ pair'.attempts = pair.attempts
  BY <1>1, <1>2 DEF SameFills, Pairs
<1>4. pair'.attempts >= pair.attempts
  BY <1>2, <1>3 DEF Pairs
<1>5. LongSafe(pair') \/ ShortSafe(pair')
  <2>1. LongSafe(pair) \/ ShortSafe(pair)
    BY <1>1 DEF LossInv, HedgeSafe
  <2> QED BY <1>2, <1>3, <1>4, <2>1, SafeAgain
<1> QED BY <1>1, <1>5 DEF LossInv, AlphaSafe, HedgeSafe, PairLossBound

LEMMA HedgeDoneSafe ==
  ASSUME IndInv, LossInv, HedgeDone
  PROVE  LossInv'
<1>1. pc = "hedge" /\ pc' = "idle"
  BY DEF HedgeDone, Return
<1>2. IndInv'
  BY HedgeDoneKeeps
<1>3. pair \in Pairs /\ pair' \in Pairs
  BY <1>2 DEF IndInv, TypeOK
<1>4. SameFills(pair, pair') /\ pair'.attempts = pair.attempts
  <2>1. PICK st : pair' = [pair EXCEPT !.state = st]
    BY DEF HedgeDone
  <2> QED BY <1>3, <2>1 DEF SameFills, Pairs
<1>5. pair'.attempts >= pair.attempts
  BY <1>3, <1>4 DEF Pairs
<1>6. LongSafe(pair') \/ ShortSafe(pair')
  <2>1. LongSafe(pair) \/ ShortSafe(pair)
    BY <1>1 DEF LossInv, HedgeSafe
  <2> QED BY <1>3, <1>4, <1>5, <2>1, SafeAgain
<1>7. ASSUME pair'.state = "Flat"
      PROVE  pair'.bought_notional - pair'.sold_notional
               < pair'.attempts * MaxHedgeLoss + pair'.bought
  <2>1. residual(pair') = 0
    BY <1>1, <1>2, <1>7 DEF IndInv, PairOutcome
  <2> QED BY <1>3, <1>6, <2>1, FlatBound
<1> QED BY <1>1, <1>7 DEF LossInv, AlphaSafe, HedgeSafe, PairLossBound

LEMMA LossNext ==
  ASSUME CrossedBooksOnly, ~ForceFlatten, IndInv, LossInv, [Next]_vars
  PROVE  LossInv'
<1>1. CASE Hedge
  <2>1. PICK q \in QuotePairs : HedgeStop(q) \/ HedgeSend(q)
    BY <1>1 DEF Hedge
  <2>2. q \in [Venues -> BestQuote]
    BY ExecutionAssumption DEF QuotePairs
  <2> QED BY <2>1, <2>2, HedgeStopSafe, HedgeSendSafe
<1>2. CASE UNCHANGED vars
  BY <1>2 DEF vars, LossInv, AlphaSafe, HedgeSafe, PairLossBound, LongSafe, ShortSafe
<1> QED
  BY <1>1, <1>2, BeginSafe, SendSafe, SettleSafe, HedgeDoneSafe DEF Next, Execute, ReplayEnd

(* Where the strategy only trades crossed books, a pair that ends flat has *)
(* lost at most max_hedge_loss_paise for each hedge hedge_until_flat sent, *)
(* and less than a paisa a share bought beyond that, whatever filled.      *)
THEOREM LossBounded ==
  ASSUME CrossedBooksOnly
  PROVE  Spec => []PairLossBound
<1>1. CASE ForceFlatten
  <2>1. PairLossBound
    BY <1>1 DEF PairLossBound
  <2> QED BY <2>1, PTL
<1>2. CASE ~ForceFlatten
  <2>1. Init => LossInv
    <3> SUFFICES ASSUME Init PROVE LossInv
      OBVIOUS
    <3>1. PICK i \in Instruments : pair = [NewPair(i, "NSE", "BSE") EXCEPT !.state = "Flat"]
      BY DEF Init
    <3>2. pair.bought = 0
      BY <3>1 DEF NewPair
    <3>3. pc = "idle"
      BY DEF Init
    <3> QED BY <3>2, <3>3 DEF LossInv, AlphaSafe, HedgeSafe, PairLossBound
  <2>2. IndInv /\ LossInv /\ [Next]_vars => LossInv'
    BY <1>2, LossNext
  <2>3. LossInv => PairLossBound
    BY DEF LossInv
  <2> QED BY <2>1, <2>2, <2>3, Invariance, PTL DEF Spec
<1> QED BY <1>1, <1>2
-----------------------------------------------------------------------------
(* submit applies the reports of an order, at most three, one after the    *)
(* other.                                                                  *)
Reported(h, b, s) ==
  h = [t \in SUBSET DOMAIN s |->
         IF t = {} THEN b ELSE on_report(h[t \ {Max(t)}], s[Max(t)])]

LEMMA ReportedUnfold ==
  ASSUME NEW b, NEW s
  PROVE  FoldLeft(on_report, b, s) = (CHOOSE h : Reported(h, b, s))[DOMAIN s]
BY DEF FoldLeft, MapThenFoldSet, Reported

(* The state after the reports of s at the places in t.                    *)
After1(b, s, t) == IF 1 \in t THEN on_report(b, s[1]) ELSE b
After2(b, s, t) == IF 2 \in t THEN on_report(After1(b, s, t), s[2]) ELSE After1(b, s, t)
After3(b, s, t) == IF 3 \in t THEN on_report(After2(b, s, t), s[3]) ELSE After2(b, s, t)

LEMMA Greatest ==
  ASSUME NEW n \in Nat, NEW t \in SUBSET (1..n), t # {}
  PROVE  Max(t) \in t /\ \A y \in t : y <= Max(t)
<1> DEFINE S == 1..n
<1>1. IsFiniteSet(S) /\ t \in SUBSET S /\ S \subseteq Int
  BY FS_Interval
<1> HIDE DEF S
<1>2. IsFiniteSet(t) /\ t \subseteq Int
  BY <1>1, FS_Subset
<1> QED BY <1>2, MaxMin

LEMMA FoldReports ==
  ASSUME NEW b, NEW s, NEW n \in 1..3, DOMAIN s = 1..n
  PROVE  FoldLeft(on_report, b, s) = After3(b, s, 1..n)
<1> DEFINE f == [t \in SUBSET DOMAIN s |-> After3(b, s, t)]
<1>1. ASSUME NEW t \in SUBSET DOMAIN s
      PROVE  After3(b, s, t) = IF t = {} THEN b
                               ELSE on_report(After3(b, s, t \ {Max(t)}), s[Max(t)])
  <2>1. CASE t = {}
    BY <2>1 DEF After1, After2, After3
  <2>2. CASE t # {}
    <3>1. Max(t) \in t /\ (\A y \in t : y <= Max(t)) /\ Max(t) \in 1..3
      <4>1. n \in Nat /\ t \in SUBSET (1..n)
        OBVIOUS
      <4>2. Max(t) \in t /\ \A y \in t : y <= Max(t)
        BY <2>2, <4>1, Greatest
      <4> QED BY <4>2
    <3>2. CASE Max(t) = 1
      <4>1. 1 \in t /\ 2 \notin t /\ 3 \notin t
        BY <3>1, <3>2
      <4> QED BY <2>2, <3>2, <4>1 DEF After1, After2, After3
    <3>3. CASE Max(t) = 2
      <4>1. 2 \in t /\ 3 \notin t /\ (1 \in t <=> 1 \in t \ {2})
        BY <3>1, <3>3
      <4> QED BY <2>2, <3>3, <4>1 DEF After1, After2, After3
    <3>4. CASE Max(t) = 3
      <4>1. 3 \in t /\ (1 \in t <=> 1 \in t \ {3}) /\ (2 \in t <=> 2 \in t \ {3})
        BY <3>1, <3>4
      <4> QED BY <2>2, <3>4, <4>1 DEF After1, After2, After3
    <3> QED BY <3>1, <3>2, <3>3, <3>4
  <2> QED BY <2>1, <2>2
<1>2. ASSUME NEW t \in SUBSET DOMAIN s, t # {} PROVE t \ {Max(t)} \in SUBSET DOMAIN s
  OBVIOUS
<1>3. Reported(f, b, s)
  <2>1. \A t \in SUBSET DOMAIN s :
          After3(b, s, t) = IF t = {} THEN b ELSE on_report(f[t \ {Max(t)}], s[Max(t)])
    BY <1>1, <1>2
  <2> QED BY <2>1 DEF Reported
<1>4. ASSUME NEW h, Reported(h, b, s) PROVE h[DOMAIN s] = After3(b, s, 1..n)
  <2>1. \A t \in SUBSET DOMAIN s :
          h[t] = IF t = {} THEN b ELSE on_report(h[t \ {Max(t)}], s[Max(t)])
    BY <1>4 DEF Reported
  <2>2. h[{}] = b
    BY <2>1
  <2>3. ASSUME NEW k \in 1..n
        PROVE  h[1..k] = on_report(h[1..(k - 1)], s[k])
    <3>1. 1..k \in SUBSET DOMAIN s /\ 1..k # {} /\ n \in Nat
      <4>1. k \in 1..k /\ 1..k \subseteq 1..n
        OBVIOUS
      <4> QED BY <4>1
    <3>2. Max(1..k) \in 1..k /\ \A y \in 1..k : y <= Max(1..k)
      BY <3>1, Greatest
    <3>3. Max(1..k) = k
      BY <3>2
    <3>4. (1..k) \ {k} = 1..(k - 1)
      OBVIOUS
    <3> QED BY <2>1, <3>1, <3>3, <3>4
  <2>4. 1..0 = {}
    OBVIOUS
  <2>5. h[1..1] = on_report(b, s[1])
    <3>1. 1 \in 1..n /\ 1 - 1 = 0
      OBVIOUS
    <3>2. h[1..1] = on_report(h[1..(1 - 1)], s[1])
      BY <2>3, <3>1
    <3> QED BY <2>2, <2>4, <3>1, <3>2
  <2>6. CASE n = 1
    BY <2>5, <2>6 DEF After1, After2, After3
  <2>7. CASE n = 2
    <3>1. h[1..2] = on_report(h[1..1], s[2])
      BY <2>3, <2>7
    <3> QED BY <2>5, <2>7, <3>1 DEF After1, After2, After3
  <2>8. CASE n = 3
    <3>1. h[1..2] = on_report(on_report(b, s[1]), s[2])
      BY <2>3, <2>5, <2>8
    <3>2. h[1..3] = on_report(h[1..2], s[3])
      BY <2>3, <2>8
    <3> QED BY <2>8, <3>1, <3>2 DEF After1, After2, After3
  <2> QED BY <2>6, <2>7, <2>8
<1>5. Reported(CHOOSE h : Reported(h, b, s), b, s)
  BY <1>3
<1> QED BY <1>4, <1>5, ReportedUnfold

(* ApplyFills of one fill and of none.                                     *)
Filled(h, p, s) ==
  h = [t \in SUBSET DOMAIN s |->
         IF t = {} THEN p
         ELSE apply_fill(h[t \ {Max(t)}], s[Max(t)].side, s[Max(t)].qty,
                         s[Max(t)].px * s[Max(t)].qty)]

LEMMA FilledUnfold ==
  ASSUME NEW p, NEW s
  PROVE  ApplyFills(p, s) = (CHOOSE h : Filled(h, p, s))[DOMAIN s]
BY DEF ApplyFills, FoldLeft, MapThenFoldSet, Filled

LEMMA ApplyNoFill ==
  ASSUME NEW p
  PROVE  ApplyFills(p, <<>>) = p
<1> DEFINE f == [t \in SUBSET DOMAIN <<>> |-> p]
<1>1. SUBSET DOMAIN <<>> = {{}}
  OBVIOUS
<1>2. Filled(f, p, <<>>)
  BY <1>1 DEF Filled
<1>3. ASSUME NEW h, Filled(h, p, <<>>) PROVE h[DOMAIN <<>>] = p
  BY <1>1, <1>3 DEF Filled
<1>4. Filled(CHOOSE h : Filled(h, p, <<>>), p, <<>>)
  BY <1>2
<1> QED BY <1>3, <1>4, FilledUnfold

LEMMA ApplyOneFill ==
  ASSUME NEW p, NEW f
  PROVE  ApplyFills(p, <<f>>) = apply_fill(p, f.side, f.qty, f.px * f.qty)
<1> DEFINE s == <<f>>
           g == [t \in SUBSET DOMAIN s |->
                   IF t = {} THEN p ELSE apply_fill(p, f.side, f.qty, f.px * f.qty)]
<1>1. DOMAIN s = {1} /\ s[1] = f
  OBVIOUS
<1>2. Max({1}) = 1
  <2>1. {1} \in SUBSET (1..1) /\ {1} # {} /\ 1 \in Nat
    OBVIOUS
  <2> QED BY <2>1, Greatest
<1> HIDE DEF s
<1>3. ASSUME NEW t \in SUBSET DOMAIN s, t # {} PROVE t = {1} /\ t \ {Max(t)} = {}
  BY <1>1, <1>2, <1>3
<1>4. Filled(g, p, s)
  <2>1. \A t \in SUBSET DOMAIN s :
          (IF t = {} THEN p ELSE apply_fill(p, f.side, f.qty, f.px * f.qty)) =
          (IF t = {} THEN p ELSE apply_fill(g[t \ {Max(t)}], s[Max(t)].side, s[Max(t)].qty,
                                            s[Max(t)].px * s[Max(t)].qty))
    BY <1>1, <1>2, <1>3
  <2> QED BY <2>1 DEF Filled
<1>5. ASSUME NEW h, Filled(h, p, s)
      PROVE  h[DOMAIN s] = apply_fill(p, f.side, f.qty, f.px * f.qty)
  <2>1. h[{}] = p
    BY <1>5 DEF Filled
  <2>2. h[{1}] = apply_fill(h[{1} \ {Max({1})}], s[Max({1})].side, s[Max({1})].qty,
                            s[Max({1})].px * s[Max({1})].qty)
    BY <1>1, <1>5 DEF Filled
  <2> QED BY <1>1, <1>2, <2>1, <2>2
<1>6. Filled(CHOOSE h : Filled(h, p, s), p, s)
  BY <1>4
<1> QED BY <1>5, <1>6, FilledUnfold DEF s
-----------------------------------------------------------------------------
(* The types of the simulator.  A pair keeps the error the gateway gave.   *)
SimPairs ==
  [instrument : Instruments, buy_venue : Venues, sell_venue : Venues,
   bought : Nat, sold : Nat, bought_notional : Int, sold_notional : Int,
   attempts : 0..MaxHedgeAttempts, state : PairStates, error : Errors \cup GatewayErrors]

SimTypeOK ==
  /\ pc \in {"idle", "first", "second", "settle", "hedge"}
  /\ sellFirst \in BOOLEAN /\ enabled \in BOOLEAN
  /\ quotes \in [Venues -> BestQuote]
  /\ opp \in Opportunities
  /\ pair \in SimPairs
  /\ net \in [Instruments -> Int]
  /\ trades \in Nat
  /\ scenario \in Scenarios /\ rejects \subseteq reject_roles_once(scenario)
  /\ book \in [Venues -> [Instruments -> [Sides -> Ladder]]]
  /\ updated \in [Venues -> [Instruments -> Nat]] /\ now \in Nat

(* An order for no more than what rests at the best opposite price.        *)
Resting(o) == book[o.venue][pair.instrument][Opposite(o.side)]

TopOfBook(o) ==
  /\ o.px \in Prices /\ o.qty \in Nat /\ o.qty > 0 /\ o.qty <= Resting(o)[o.px]
  /\ \A p \in Prices : Better(o.side, p, o.px) => Resting(o)[p] = 0

SimOrders == [venue : Venues, side : Sides, px : Int, qty : Int,
              role : {"AlphaBuy", "AlphaSell", "Hedge"}]

LEMMA MaxOfTwo ==
  ASSUME NEW x \in Int
  PROVE  Max({0, x}) = IF x > 0 THEN x ELSE 0
<1> DEFINE S == {0, x}
<1>1. IsFiniteSet(S) /\ S \subseteq Int /\ S # {}
  <2>1. IsFiniteSet({x})
    BY FS_Singleton
  <2>2. IsFiniteSet({x} \cup {0})
    BY <2>1, FS_AddElement
  <2>3. S = {x} \cup {0}
    OBVIOUS
  <2> QED BY <2>2, <2>3
<1>2. Max(S) \in S /\ \A y \in S : y <= Max(S)
  <2> HIDE DEF S
  <2> QED BY <1>1, MaxMin
<1> QED BY <1>2

(* match_ioc takes everything at the best price, which is the limit.       *)
LEMMA TakenAtTop ==
  ASSUME SimTypeOK, NEW o \in SimOrders, TopOfBook(o), NEW n \in 0..o.qty
  PROVE  Taken(o, n) = [p \in Prices |-> IF p = o.px THEN n ELSE 0]
<1> DEFINE ladder == Resting(o)
           ahead(p) == SumFunctionOnSet(ladder, {q \in Prices : Better(o.side, q, p)})
<1>1. o.side \in Sides /\ o.venue \in Venues /\ Opposite(o.side) \in Sides
      /\ pair.instrument \in Instruments /\ o.px \in Prices /\ o.qty \in Nat
  BY DEF SimOrders, Opposite, Sides, SimTypeOK, SimPairs, TopOfBook
<1>2. ladder \in [Prices -> Nat]
  BY <1>1 DEF SimTypeOK, Resting, Ladder
<1>3. IsFiniteSet(Prices) /\ Prices \subseteq Int
  BY SimulatorAssumption
<1> HIDE DEF ladder
<1>4. ASSUME NEW p \in Prices PROVE ahead(p) \in Int
  <2> DEFINE S == {q \in Prices : Better(o.side, q, p)}
  <2>1. IsFiniteSet(S) /\ S \subseteq Prices
    BY <1>3, FS_Subset
  <2>2. \A q \in S : ladder[q] \in Int
    BY <1>2, <2>1
  <2> HIDE DEF S
  <2>3. SumFunctionOnSet(ladder, S) \in Int
    BY <2>1, <2>2, SumType
  <2> QED BY <2>3 DEF S
<1>5. ahead(o.px) = 0
  <2> DEFINE S == {q \in Prices : Better(o.side, q, o.px)}
  <2>1. IsFiniteSet(S) /\ S \subseteq Prices
    BY <1>3, FS_Subset
  <2>2. \A q \in S : ladder[q] = 0
    BY DEF TopOfBook, ladder
  <2> HIDE DEF S
  <2>3. SumFunctionOnSet(ladder, S) = SumFunctionOnSet(ladder, {})
    BY <2>1, <2>2, SumOutside
  <2> QED BY <2>3, SumEmpty DEF S
<1>6. Taken(o, n) = [p \in Prices |->
                       IF Better(o.side, o.px, p) THEN 0
                       ELSE Max({0, Lesser(ladder[p], n - ahead(p))})]
  BY DEF Taken, ladder, Resting
<1>7. ASSUME NEW p \in Prices
      PROVE  (IF Better(o.side, o.px, p) THEN 0
              ELSE Max({0, Lesser(ladder[p], n - ahead(p))})) = IF p = o.px THEN n ELSE 0
  <2>0. p \in Int /\ o.px \in Int /\ ladder[p] \in Nat /\ ahead(p) \in Int /\ n \in Nat
    <3>1. p \in Int /\ o.px \in Int /\ ladder[p] \in Nat
      BY <1>1, <1>2, <1>3
    <3>2. n \in Nat
      BY <1>1
    <3> HIDE DEF ahead
    <3> QED BY <1>4, <3>1, <3>2
  <2> DEFINE x == Lesser(ladder[p], n - ahead(p))
  <2>1. x \in Int
    BY <2>0 DEF Lesser
  <2>2. CASE p = o.px
    <3>1. ladder[p] >= n
      <4>1. o.qty <= ladder[p]
        BY <2>2 DEF TopOfBook, ladder
      <4>2. n <= o.qty
        BY <1>1
      <4> QED BY <1>1, <2>0, <4>1, <4>2
    <3>2. x = n
      BY <1>5, <2>0, <2>2, <3>1 DEF Lesser
    <3>3. ~Better(o.side, o.px, p)
      BY <2>0, <2>2 DEF Better
    <3> HIDE DEF x
    <3>4. Max({0, x}) = n
      BY <2>0, <2>1, <3>2, MaxOfTwo
    <3> QED BY <2>2, <3>3, <3>4 DEF x
  <2>3. CASE Better(o.side, o.px, p)
    BY <2>0, <2>3 DEF Better
  <2>4. CASE p # o.px /\ ~Better(o.side, o.px, p)
    <3>1. Better(o.side, p, o.px)
      BY <2>0, <2>4 DEF Better
    <3>2. ladder[p] = 0
      BY <3>1 DEF TopOfBook, ladder
    <3>3. x <= 0
      BY <2>0, <3>2 DEF Lesser
    <3> HIDE DEF x
    <3>4. Max({0, x}) = 0
      BY <2>1, <3>3, MaxOfTwo
    <3> QED BY <2>4, <3>4 DEF x
  <2> QED BY <2>2, <2>3, <2>4
<1> HIDE DEF ahead
<1> QED BY <1>6, <1>7

LEMMA TakenSum ==
  ASSUME NEW px \in Prices, NEW n \in Nat
  PROVE  SumFunctionOnSet([p \in Prices |-> IF p = px THEN n ELSE 0], Prices) = n
<1> DEFINE f == [p \in Prices |-> IF p = px THEN n ELSE 0]
<1>1. IsFiniteSet(Prices)
  BY SimulatorAssumption
<1>2. (\A p \in Prices : f[p] \in Int) /\ f[px] = n /\ \A p \in Prices \ {px} : f[p] = 0
  OBVIOUS
<1> HIDE DEF f
<1>3. SumFunctionOnSet(f, Prices) = f[px] + SumFunctionOnSet(f, Prices \ {px})
  BY <1>1, <1>2, SumRemove
<1>4. SumFunctionOnSet(f, Prices \ {px}) = 0
  <2> DEFINE S == Prices \ {px}
  <2>1. IsFiniteSet(S) /\ \A p \in S : f[p] = 0 /\ f[p] \in Int
    BY <1>1, <1>2, FS_Subset
  <2> HIDE DEF S
  <2>2. SumFunctionOnSet(f, S) = SumFunctionOnSet(f, {})
    BY <2>1, SumOutside
  <2> QED BY <2>2, SumEmpty DEF S
<1> QED BY <1>2, <1>3, <1>4 DEF f

LEMMA BestOfOne ==
  ASSUME NEW side, NEW px
  PROVE  BestFirst(side, {px}) = <<px>>
<1>1. Cardinality({px}) = 1
  BY FS_Singleton
<1> DEFINE F == [1..1 -> {px}]
           Good(f) == \A j, k \in 1..1 : j < k => Better(side, f[j], f[k])
<1>2. BestFirst(side, {px}) = CHOOSE f \in F : Good(f)
  BY <1>1 DEF BestFirst
<1>3. <<px>> \in F /\ Good(<<px>>)
  OBVIOUS
<1>4. ASSUME NEW f \in F PROVE f = <<px>>
  <2>1. DOMAIN f = 1..1 /\ f[1] = px
    OBVIOUS
  <2> QED BY <2>1
<1> HIDE DEF F, Good
<1> QED BY <1>2, <1>3, <1>4

LEMMA BestOfNone ==
  ASSUME NEW side
  PROVE  BestFirst(side, {}) = <<>>
<1>1. Cardinality({}) = 0
  BY FS_EmptySet
<1> DEFINE F == [1..0 -> {}]
           Good(f) == \A j, k \in 1..0 : j < k => Better(side, f[j], f[k])
<1>2. BestFirst(side, {}) = CHOOSE f \in F : Good(f)
  BY <1>1 DEF BestFirst
<1>3. 1..0 = {}
  OBVIOUS
<1>4. <<>> \in F /\ Good(<<>>)
  BY <1>3
<1>5. ASSUME NEW f \in F PROVE f = <<>>
  BY <1>3
<1> HIDE DEF F, Good
<1> QED BY <1>2, <1>4, <1>5
-----------------------------------------------------------------------------
(* An OrderManager with one order, and what a report about it leaves.      *)
Manager(ord, fills, position, cash) ==
  [orders |-> <<ord>>, fills |-> fills, net |-> position, cash |-> cash]

LEMMA ManagerFields ==
  ASSUME NEW ord, NEW fills, NEW position, NEW cash
  PROVE  /\ Manager(ord, fills, position, cash).orders[1] = ord
         /\ known_order(Manager(ord, fills, position, cash), 1)
         /\ Manager(ord, fills, position, cash).fills = fills
         /\ Manager(ord, fills, position, cash).net = position
         /\ Manager(ord, fills, position, cash).cash = cash
<1>1. DOMAIN <<ord>> = {1} /\ <<ord>>[1] = ord
  OBVIOUS
<1> QED BY <1>1 DEF Manager, known_order

LEMMA ManagerOrder ==
  ASSUME NEW ord, NEW fills, NEW position, NEW cash, NEW ord2
  PROVE  [Manager(ord, fills, position, cash) EXCEPT !.orders[1] = ord2]
           = Manager(ord2, fills, position, cash)
<1> DEFINE m == Manager(ord, fills, position, cash)
<1>1. [<<ord>> EXCEPT ![1] = ord2] = <<ord2>>
  OBVIOUS
<1>2. m.orders = <<ord>> /\ DOMAIN m = {"orders", "fills", "net", "cash"}
  BY DEF Manager
<1>3. [m EXCEPT !.orders[1] = ord2] = [m EXCEPT !.orders = [m.orders EXCEPT ![1] = ord2]]
  <2> HIDE DEF m
  <2> QED BY <1>2
<1>4. [m EXCEPT !.orders = <<ord2>>] = Manager(ord2, fills, position, cash)
  BY DEF Manager
<1> QED BY <1>1, <1>2, <1>3, <1>4

Put(m, ord, fills, position, cash) ==
  [m EXCEPT !.orders[1] = ord, !.fills = fills, !.net = position, !.cash = cash]

LEMMA ManagerAll ==
  ASSUME NEW ord, NEW fills, NEW position, NEW cash, NEW ord2, NEW fills2, NEW position2,
         NEW cash2
  PROVE  Put(Manager(ord, fills, position, cash), ord2, fills2, position2, cash2)
           = Manager(ord2, fills2, position2, cash2)
<1> DEFINE m == Manager(ord, fills, position, cash)
           k == Manager(ord2, fills, position, cash)
<1>1. [m EXCEPT !.orders[1] = ord2] = k
  BY ManagerOrder
<1>2. [m EXCEPT !.orders[1] = ord2, !.fills = fills2, !.net = position2, !.cash = cash2]
        = [[m EXCEPT !.orders[1] = ord2] EXCEPT !.fills = fills2, !.net = position2, !.cash = cash2]
  <2> HIDE DEF m
  <2> QED BY Zenon
<1>3. [k EXCEPT !.fills = fills2, !.net = position2, !.cash = cash2]
        = Manager(ord2, fills2, position2, cash2)
  <2>1. [k EXCEPT !.fills = fills2] = Manager(ord2, fills2, position, cash)
    BY DEF Manager
  <2>2. [Manager(ord2, fills2, position, cash) EXCEPT !.net = position2]
          = Manager(ord2, fills2, position2, cash)
    BY DEF Manager
  <2>3. [Manager(ord2, fills2, position2, cash) EXCEPT !.cash = cash2]
          = Manager(ord2, fills2, position2, cash2)
    BY DEF Manager
  <2> HIDE DEF k
  <2> QED BY <2>1, <2>2, <2>3, Zenon
<1> HIDE DEF m, k
<1> QED BY <1>1, <1>2, <1>3 DEF m, Put

LEMMA ReportNoFill ==
  ASSUME NEW ord, NEW fills, NEW position, NEW cash, NEW type, NEW reason, type # "Fill"
  PROVE  on_report(Manager(ord, fills, position, cash), Report(type, 0, 0, reason)) =
           Manager(OrderAfter(ord, Report(type, 0, 0, reason)), fills, position, cash)
<1> DEFINE m == Manager(ord, fills, position, cash)
           r == Report(type, 0, 0, reason)
<1>1. r.id = 1 /\ r.type = type
  BY DEF Report
<1>2. m.orders[1] = ord /\ known_order(m, 1)
  BY ManagerFields
<1>3. [m EXCEPT !.orders[1] = OrderAfter(ord, r)]
        = Manager(OrderAfter(ord, r), fills, position, cash)
  BY ManagerOrder
<1> HIDE DEF m, r
<1>4. on_report(m, r) = [m EXCEPT !.orders[1] = OrderAfter(m.orders[1], r)]
  BY <1>1, <1>2 DEF on_report
<1> QED BY <1>2, <1>3, <1>4 DEF m, r

Shift(position, i, n) == [position EXCEPT ![i] = @ + n]
Recorded(ord, fills, px, qty) ==
  Append(fills, [id |-> 1, side |-> ord.intent.side, px |-> px, qty |-> qty])

LEMMA ReportFill ==
  ASSUME NEW ord, NEW fills, NEW position, NEW cash, NEW px, NEW qty
  PROVE  \E c :
           on_report(Manager(ord, fills, position, cash), Report("Fill", px, qty, "none")) =
             Manager(OnFill(ord, qty), Recorded(ord, fills, px, qty),
                     Shift(position, ord.intent.instrument, Signed(ord.intent.side, qty)), c)
<1> DEFINE m == Manager(ord, fills, position, cash)
           r == Report("Fill", px, qty, "none")
           i == ord.intent.instrument
           n == Signed(ord.intent.side, qty)
           f == Append(fills, [id |-> 1, side |-> ord.intent.side, px |-> px, qty |-> qty])
           po == [position EXCEPT ![i] = @ + n]
           ca == [cash EXCEPT ![i] = @ - n * px]
<1>1. r.id = 1 /\ r.type = "Fill" /\ r.qty = qty /\ r.px = px
  BY DEF Report
<1>2. OrderAfter(ord, r) = OnFill(ord, qty)
  BY <1>1 DEF OrderAfter
<1>3. /\ m.orders[1] = ord /\ known_order(m, 1)
      /\ m.fills = fills /\ m.net = position /\ m.cash = cash
  BY ManagerFields
<1>4. Put(m, OrderAfter(ord, r), f, po, ca) = Manager(OrderAfter(ord, r), f, po, ca)
  BY ManagerAll
<1> HIDE DEF m, r
<1>5. on_report(m, r) =
        [m EXCEPT !.orders[1] = OrderAfter(m.orders[1], r),
                  !.fills = Append(m.fills, [id |-> 1, side |-> m.orders[1].intent.side,
                                             px |-> r.px, qty |-> r.qty]),
                  !.net = [m.net EXCEPT ![m.orders[1].intent.instrument] =
                             @ + Signed(m.orders[1].intent.side, r.qty)],
                  !.cash = [m.cash EXCEPT ![m.orders[1].intent.instrument] =
                              @ - Signed(m.orders[1].intent.side, r.qty) * r.px]]
  BY <1>1, <1>3, Zenon DEF on_report
<1>6. on_report(m, r) = Put(m, OrderAfter(ord, r), f, po, ca)
  BY <1>1, <1>3, <1>5, Zenon DEF Put
<1>7. po = Shift(position, i, n)
  BY DEF Shift
<1> HIDE DEF po, ca, f
<1>8. on_report(m, r) = Manager(OnFill(ord, qty), f, Shift(position, i, n), ca)
  BY <1>2, <1>4, <1>6, <1>7
<1>9. f = Recorded(ord, fills, px, qty)
  BY DEF f, Recorded
<1> QED BY <1>8, <1>9 DEF m, r
-----------------------------------------------------------------------------
(* The order of a submit, and what the reports make of it.                 *)
IntentOf(o) == [instrument |-> pair.instrument, side |-> o.side, qty |-> o.qty]

OrderRecords(o) ==
  [intent : {IntentOf(o)}, filled : Nat, done : BOOLEAN,
   state : {"Sent", "Acked", "Partial", "Filled", "Rejected", "Expired"},
   err : {"none"} \cup GatewayErrors]

LEMMA PlacedOrder ==
  ASSUME NEW o
  PROVE  /\ NewOrder(IntentOf(o)) \in OrderRecords(o)
         /\ NewOrder(IntentOf(o)).filled = 0 /\ NewOrder(IntentOf(o)).state = "Sent"
BY DEF NewOrder, OrderRecords

LEMMA AckedOrder ==
  ASSUME NEW o, NEW x \in OrderRecords(o)
  PROVE  LET y == OrderAfter(x, Report("Ack", 0, 0, "none"))
         IN  /\ y \in OrderRecords(o) /\ y.filled = x.filled
             /\ y.state = IF x.state = "Sent" THEN "Acked" ELSE x.state
<1>1. OrderAfter(x, Report("Ack", 0, 0, "none")) = OnAck(x)
  BY DEF OrderAfter, Report
<1>2. /\ OnAck(x) \in OrderRecords(o) /\ OnAck(x).filled = x.filled
      /\ OnAck(x).state = IF x.state = "Sent" THEN "Acked" ELSE x.state
  BY DEF OnAck, OrderRecords
<1> QED BY <1>1, <1>2

LEMMA FilledOrder ==
  ASSUME NEW o, NEW x \in OrderRecords(o), NEW n \in Nat
  PROVE  /\ OnFill(x, n) \in OrderRecords(o) /\ OnFill(x, n).filled = x.filled + n
         /\ OnFill(x, n).state \in {"Filled", "Partial"}
<1> DEFINE full == x.filled + n >= x.intent.qty
           st == IF full THEN "Filled" ELSE "Partial"
           dn == x.done \/ full
<1>1. OnFill(x, n) = [x EXCEPT !.filled = x.filled + n, !.state = st, !.done = dn]
  BY DEF OnFill, OrderRecords
<1>2. x.filled + n \in Nat /\ st \in {"Filled", "Partial"} /\ dn \in BOOLEAN
  BY DEF OrderRecords
<1> HIDE DEF st, dn
<1> QED BY <1>1, <1>2 DEF OrderRecords

LEMMA EndedOrder ==
  ASSUME NEW o, NEW x \in OrderRecords(o), NEW type \in {"Reject", "Expire"},
         NEW reason \in GatewayErrors
  PROVE  LET y == OrderAfter(x, Report(type, 0, 0, reason))
         IN  /\ y \in OrderRecords(o) /\ y.filled = x.filled /\ y.err = reason
             /\ x.filled = 0 => y.state \in {"Rejected", "Expired"}
             /\ x.filled > 0 => y.state = "Partial"
<1>1. OrderAfter(x, Report(type, 0, 0, reason)) = OnEnd(x, type, reason)
  BY DEF OrderAfter, Report
<1> DEFINE st == IF x.filled > 0 THEN "Partial"
                 ELSE IF type = "Reject" THEN "Rejected" ELSE "Expired"
<1>2. OnEnd(x, type, reason) = [x EXCEPT !.done = TRUE, !.state = st, !.err = reason]
  BY DEF OnEnd, OrderRecords
<1>3. /\ st \in {"Partial", "Rejected", "Expired"} /\ x.filled \in Nat
      /\ x.filled = 0 => st \in {"Rejected", "Expired"}
      /\ x.filled > 0 => st = "Partial"
  BY DEF OrderRecords
<1> HIDE DEF st
<1>4. /\ OnEnd(x, type, reason) \in OrderRecords(o)
      /\ OnEnd(x, type, reason).filled = x.filled /\ OnEnd(x, type, reason).err = reason
      /\ OnEnd(x, type, reason).state = st
  BY <1>2, <1>3 DEF OrderRecords
<1> QED BY <1>1, <1>3, <1>4

(* submit, as a fold from the manager with the order alone.                *)
Placed(o) == Manager(NewOrder(IntentOf(o)), <<>>, net, [i \in Instruments |-> 0])

LEMMA SubmitFolds ==
  ASSUME NEW o, NEW rs, NEW n \in 1..3, DOMAIN rs = 1..n
  PROVE  submit(o, rs) = After3(Placed(o), rs, 1..n)
<1>1. submit(o, rs) = FoldLeft(on_report, Placed(o), rs)
  BY DEF submit, Placed, Manager, IntentOf
<1> QED BY <1>1, FoldReports

(* An order that is not filled at all.                                     *)
NotFilled(m, reason) ==
  /\ m.net = net /\ m.fills = <<>>
  /\ m.orders[1].state \in {"Rejected", "Expired"} /\ m.orders[1].err = reason

LEMMA SubmitRejected ==
  ASSUME NEW o, NEW reason \in GatewayErrors
  PROVE  NotFilled(submit(o, <<Report("Reject", 0, 0, reason)>>), reason)
<1> DEFINE r == Report("Reject", 0, 0, reason)
           rs == <<r>>
           x == NewOrder(IntentOf(o))
           y == OrderAfter(x, r)
           zero == [i \in Instruments |-> 0]
<1>1. DOMAIN rs = 1..1 /\ rs[1] = r
  OBVIOUS
<1> HIDE DEF rs
<1>2. submit(o, rs) = After3(Placed(o), rs, 1..1)
  BY <1>1, SubmitFolds
<1>3. submit(o, rs) = on_report(Placed(o), r)
  BY <1>1, <1>2 DEF After1, After2, After3
<1>4. on_report(Placed(o), r) = Manager(y, <<>>, net, zero)
  BY ReportNoFill DEF Placed
<1>5. x \in OrderRecords(o) /\ x.filled = 0
  BY PlacedOrder
<1>6. y.state \in {"Rejected", "Expired"} /\ y.err = reason
  BY <1>5, EndedOrder
<1> HIDE DEF y
<1> QED BY <1>3, <1>4, <1>6, ManagerFields DEF NotFilled, rs

LEMMA SubmitExpired ==
  ASSUME NEW o, NEW reason \in GatewayErrors
  PROVE  NotFilled(submit(o, <<Report("Ack", 0, 0, "none"), Report("Expire", 0, 0, reason)>>),
                   reason)
<1> DEFINE a == Report("Ack", 0, 0, "none")
           e == Report("Expire", 0, 0, reason)
           rs == <<a, e>>
           x == NewOrder(IntentOf(o))
           y == OrderAfter(x, a)
           z == OrderAfter(y, e)
           zero == [i \in Instruments |-> 0]
<1>1. DOMAIN rs = 1..2 /\ rs[1] = a /\ rs[2] = e
  OBVIOUS
<1> HIDE DEF rs
<1>2. submit(o, rs) = After3(Placed(o), rs, 1..2)
  BY <1>1, SubmitFolds
<1>3. submit(o, rs) = on_report(on_report(Placed(o), a), e)
  BY <1>1, <1>2 DEF After1, After2, After3
<1>4. on_report(Placed(o), a) = Manager(y, <<>>, net, zero)
  BY ReportNoFill DEF Placed
<1>5. x \in OrderRecords(o) /\ x.filled = 0
  BY PlacedOrder
<1>6. y \in OrderRecords(o) /\ y.filled = 0
  BY <1>5, AckedOrder
<1> HIDE DEF y
<1>7. on_report(Manager(y, <<>>, net, zero), e) = Manager(z, <<>>, net, zero)
  BY ReportNoFill
<1>8. z.state \in {"Rejected", "Expired"} /\ z.err = reason
  BY <1>6, EndedOrder
<1> HIDE DEF z
<1> QED BY <1>3, <1>4, <1>7, <1>8, ManagerFields DEF NotFilled, rs

(* An order of which n shares are filled, all at its limit.                *)
FillOf(o, n) == [id |-> 1, side |-> o.side, px |-> o.px, qty |-> n]

Executed(o, m, n) ==
  \E z, cash :
    /\ z \in OrderRecords(o)
    /\ m = Manager(z, <<FillOf(o, n)>>, PositionAfter(o, n), cash)
    /\ z.filled = n /\ z.state \in {"Filled", "Partial"}

LEMMA FillMoves ==
  ASSUME NEW o \in SimOrders, NEW n \in Nat, NEW x \in OrderRecords(o), NEW cash, SimTypeOK
  PROVE  \E c : on_report(Manager(x, <<>>, net, cash), Report("Fill", o.px, n, "none")) =
                  Manager(OnFill(x, n), <<FillOf(o, n)>>, PositionAfter(o, n), c)
<1>1. x.intent = IntentOf(o)
  BY DEF OrderRecords
<1>2. x.intent.instrument = pair.instrument /\ x.intent.side = o.side
  BY <1>1 DEF IntentOf
<1>3. Recorded(x, <<>>, o.px, n) = <<FillOf(o, n)>>
  BY <1>2 DEF FillOf, Recorded
<1> DEFINE k == Signed(x.intent.side, n)
           po == Shift(net, x.intent.instrument, k)
<1>4. po = PositionAfter(o, n)
  <2>1. net[pair.instrument] \in Int /\ n \in Int /\ o.side \in Sides
    BY DEF SimTypeOK, SimPairs, SimOrders
  <2>2. net[pair.instrument] + k = IF o.side = "Buy" THEN net[pair.instrument] + n
                                   ELSE net[pair.instrument] - n
    BY <1>2, <2>1 DEF Signed, Sides
  <2> HIDE DEF k
  <2> QED BY <1>2, <2>2, Zenon DEF PositionAfter, Shift
<1>5. \E c : on_report(Manager(x, <<>>, net, cash), Report("Fill", o.px, n, "none")) =
        Manager(OnFill(x, n), Recorded(x, <<>>, o.px, n), po, c)
  BY ReportFill
<1> HIDE DEF po
<1> QED BY <1>3, <1>4, <1>5

LEMMA AckThenFill ==
  ASSUME NEW o \in SimOrders, NEW n \in Nat, SimTypeOK
  PROVE  LET a == Report("Ack", 0, 0, "none")
             f == Report("Fill", o.px, n, "none")
         IN  /\ Executed(o, on_report(on_report(Placed(o), a), f), n)
             /\ Executed(o, on_report(on_report(Placed(o), f), a), n)
<1> DEFINE a == Report("Ack", 0, 0, "none")
           f == Report("Fill", o.px, n, "none")
           x == NewOrder(IntentOf(o))
           zero == [i \in Instruments |-> 0]
<1>1. x \in OrderRecords(o) /\ x.filled = 0 /\ x.state = "Sent"
  BY PlacedOrder
<1>2. Executed(o, on_report(on_report(Placed(o), a), f), n)
  <2> DEFINE y == OrderAfter(x, a)
             z == OnFill(y, n)
  <2>1. y \in OrderRecords(o) /\ y.filled = 0
    BY <1>1, AckedOrder
  <2>2. on_report(Placed(o), a) = Manager(y, <<>>, net, zero)
    BY ReportNoFill DEF Placed
  <2> HIDE DEF y
  <2>3. z \in OrderRecords(o) /\ z.filled = n /\ z.state \in {"Filled", "Partial"}
    BY <2>1, FilledOrder
  <2>4. PICK c : on_report(Manager(y, <<>>, net, zero), f)
                   = Manager(z, <<FillOf(o, n)>>, PositionAfter(o, n), c)
    BY <2>1, FillMoves
  <2> QED BY <2>2, <2>3, <2>4 DEF Executed
<1>3. Executed(o, on_report(on_report(Placed(o), f), a), n)
  <2> DEFINE y == OnFill(x, n)
             z == OrderAfter(y, a)
  <2>1. y \in OrderRecords(o) /\ y.filled = n /\ y.state \in {"Filled", "Partial"}
    BY <1>1, FilledOrder
  <2>2. PICK c : on_report(Placed(o), f)
                   = Manager(y, <<FillOf(o, n)>>, PositionAfter(o, n), c)
    BY <1>1, FillMoves DEF Placed
  <2> HIDE DEF y
  <2>3. z \in OrderRecords(o) /\ z.filled = n /\ z.state \in {"Filled", "Partial"}
    BY <2>1, AckedOrder
  <2>4. on_report(Manager(y, <<FillOf(o, n)>>, PositionAfter(o, n), c), a)
          = Manager(z, <<FillOf(o, n)>>, PositionAfter(o, n), c)
    BY ReportNoFill
  <2> QED BY <2>2, <2>3, <2>4 DEF Executed
<1> QED BY <1>2, <1>3

LEMMA ThenExpire ==
  ASSUME NEW o, NEW n \in Nat, n > 0, NEW m, Executed(o, m, n), NEW reason \in GatewayErrors
  PROVE  Executed(o, on_report(m, Report("Expire", 0, 0, reason)), n)
<1> DEFINE e == Report("Expire", 0, 0, reason)
<1>1. PICK y, c :
        /\ y \in OrderRecords(o)
        /\ m = Manager(y, <<FillOf(o, n)>>, PositionAfter(o, n), c)
        /\ y.filled = n /\ y.state \in {"Filled", "Partial"}
  BY DEF Executed
<1> DEFINE z == OrderAfter(y, e)
<1>2. on_report(m, e) = Manager(z, <<FillOf(o, n)>>, PositionAfter(o, n), c)
  BY <1>1, ReportNoFill
<1>3. z \in OrderRecords(o) /\ z.filled = n /\ z.state = "Partial"
  BY <1>1, EndedOrder
<1> HIDE DEF z
<1> QED BY <1>2, <1>3 DEF Executed

(* submit of an order that is acknowledged and filled, in either order.    *)
LEMMA SubmitFilled ==
  ASSUME NEW o \in SimOrders, NEW n \in Nat, n > 0, SimTypeOK, NEW reason \in GatewayErrors
  PROVE  LET a == Report("Ack", 0, 0, "none")
             f == Report("Fill", o.px, n, "none")
             e == Report("Expire", 0, 0, reason)
         IN  /\ Executed(o, submit(o, <<a, f>>), n) /\ Executed(o, submit(o, <<f, a>>), n)
             /\ Executed(o, submit(o, <<a, f, e>>), n) /\ Executed(o, submit(o, <<f, a, e>>), n)
<1> DEFINE a == Report("Ack", 0, 0, "none")
           f == Report("Fill", o.px, n, "none")
           e == Report("Expire", 0, 0, reason)
<1>1. /\ Executed(o, on_report(on_report(Placed(o), a), f), n)
      /\ Executed(o, on_report(on_report(Placed(o), f), a), n)
  BY AckThenFill
<1>2. /\ Executed(o, on_report(on_report(on_report(Placed(o), a), f), e), n)
      /\ Executed(o, on_report(on_report(on_report(Placed(o), f), a), e), n)
  BY <1>1, ThenExpire
<1> HIDE DEF a, f, e
<1>3. ASSUME NEW r1, NEW r2
      PROVE  submit(o, <<r1, r2>>) = on_report(on_report(Placed(o), r1), r2)
  <2> DEFINE rs == <<r1, r2>>
  <2>1. DOMAIN rs = 1..2 /\ rs[1] = r1 /\ rs[2] = r2
    OBVIOUS
  <2> HIDE DEF rs
  <2>2. submit(o, rs) = After3(Placed(o), rs, 1..2)
    BY <2>1, SubmitFolds
  <2> QED BY <2>1, <2>2 DEF After1, After2, After3, rs
<1>4. ASSUME NEW r1, NEW r2, NEW r3
      PROVE  submit(o, <<r1, r2, r3>>) = on_report(on_report(on_report(Placed(o), r1), r2), r3)
  <2> DEFINE rs == <<r1, r2, r3>>
  <2>1. DOMAIN rs = 1..3 /\ rs[1] = r1 /\ rs[2] = r2 /\ rs[3] = r3
    OBVIOUS
  <2> HIDE DEF rs
  <2>2. submit(o, rs) = After3(Placed(o), rs, 1..3)
    BY <2>1, SubmitFolds
  <2> QED BY <2>1, <2>2 DEF After1, After2, After3, rs
<1> QED BY <1>1, <1>2, <1>3, <1>4 DEF a, f, e
-----------------------------------------------------------------------------
(* What Matched reports of an order that takes n shares at its limit.      *)
AckReport == Report("Ack", 0, 0, "none")
FillReport(o, n) == Report("Fill", o.px, n, "none")
ExpireReport == Report("Expire", 0, 0, "IOC_REMAINDER_EXPIRED")

LEMMA Joins ==
  ASSUME NEW x, NEW y, NEW z
  PROVE  /\ <<x>> \o <<y>> = <<x, y>> /\ <<x, y>> \o <<z>> = <<x, y, z>>
         /\ <<x>> \o <<>> = <<x>> /\ <<>> \o <<x>> = <<x>>
         /\ <<x, y>> \o <<>> = <<x, y>>
<1> DEFINE U == {x, y, z}
<1>1. /\ <<x>> \in Seq(U) /\ <<y>> \in Seq(U) /\ <<z>> \in Seq(U)
      /\ <<x, y>> \in Seq(U) /\ <<x, y, z>> \in Seq(U)
  OBVIOUS
<1>2. <<x>> \o <<y>> = <<x, y>>
  <2>1. Len(<<x>> \o <<y>>) = 2 /\ \A i \in 1..2 : (<<x>> \o <<y>>)[i] = <<x, y>>[i]
    BY <1>1, ConcatProperties
  <2> QED BY <1>1, <2>1, ConcatProperties, SeqEqual
<1>3. <<x, y>> \o <<z>> = <<x, y, z>>
  <2>1. /\ Len(<<x, y>> \o <<z>>) = 3
        /\ \A i \in 1..3 : (<<x, y>> \o <<z>>)[i] = <<x, y, z>>[i]
    BY <1>1, ConcatProperties
  <2> QED BY <1>1, <2>1, ConcatProperties, SeqEqual
<1>4. <<x>> \o <<>> = <<x>> /\ <<>> \o <<x>> = <<x>>
  BY <1>1, ConcatEmptySeq
<1>5. <<x, y>> \o <<>> = <<x, y>>
  BY <1>1, ConcatEmptySeq
<1> QED BY <1>2, <1>3, <1>4, <1>5

LEMMA MatchedReports ==
  ASSUME NEW o, o.px \in Prices, o.qty \in Nat, o.qty > 0, NEW n \in 0..o.qty,
         NEW taken, taken = [p \in Prices |-> IF p = o.px THEN n ELSE 0]
  PROVE  /\ Matched(o, taken).taken = taken
         /\ n = 0 => Matched(o, taken).reports = <<AckReport, ExpireReport>>
         /\ n > 0 => Matched(o, taken).reports \in
                       {<<AckReport, FillReport(o, n)>>, <<FillReport(o, n), AckReport>>,
                        <<AckReport, FillReport(o, n), ExpireReport>>,
                        <<FillReport(o, n), AckReport, ExpireReport>>}
<1> DEFINE S == {p \in Prices : taken[p] > 0}
           levels == BestFirst(o.side, S)
           fills == [k \in DOMAIN levels |-> Report("Fill", levels[k], taken[levels[k]], "none")]
           filled == SumFunctionOnSet(taken, Prices)
           rest == IF filled < o.qty THEN <<ExpireReport>> ELSE <<>>
           all == (IF scenario = "delayed_ack" THEN fills \o <<AckReport>>
                                               ELSE <<AckReport>> \o fills) \o rest
<1>1. Matched(o, taken) = [reports |-> all, taken |-> taken]
  BY DEF Matched, AckReport, ExpireReport
<1>2. n \in Nat /\ filled = n
  BY TakenSum
<1>3. ASSUME n = 0 PROVE all = <<AckReport, ExpireReport>>
  <2>1. S = {}
    BY <1>3
  <2>2. levels = <<>>
    BY <2>1, BestOfNone
  <2> HIDE DEF levels
  <2>3. fills = <<>>
    BY <2>2
  <2>4. rest = <<ExpireReport>>
    BY <1>2, <1>3
  <2> HIDE DEF fills, rest
  <2>5. <<>> \o <<AckReport>> = <<AckReport>> /\ <<AckReport>> \o <<>> = <<AckReport>>
        /\ <<AckReport>> \o <<ExpireReport>> = <<AckReport, ExpireReport>>
    BY Joins
  <2> QED BY <2>3, <2>4, <2>5, Zenon
<1>4. ASSUME n > 0
      PROVE  all \in {<<AckReport, FillReport(o, n)>>, <<FillReport(o, n), AckReport>>,
                      <<AckReport, FillReport(o, n), ExpireReport>>,
                      <<FillReport(o, n), AckReport, ExpireReport>>}
  <2>1. S = {o.px} /\ taken[o.px] = n
    BY <1>2, <1>4
  <2>2. levels = <<o.px>>
    BY <2>1, BestOfOne
  <2> HIDE DEF levels
  <2>3. fills = <<FillReport(o, n)>>
    <3>1. DOMAIN levels = {1} /\ levels[1] = o.px
      BY <2>2
    <3>2. fills = [k \in {1} |-> FillReport(o, n)]
      BY <2>1, <3>1 DEF FillReport
    <3>3. {1} = 1..1
      OBVIOUS
    <3> QED BY <3>2, <3>3
  <2>4. rest \in {<<ExpireReport>>, <<>>}
    OBVIOUS
  <2> HIDE DEF fills, rest
  <2>5. all \in {(<<FillReport(o, n)>> \o <<AckReport>>) \o rest,
                 (<<AckReport>> \o <<FillReport(o, n)>>) \o rest}
    BY <2>3
  <2>6. /\ <<FillReport(o, n)>> \o <<AckReport>> = <<FillReport(o, n), AckReport>>
        /\ <<AckReport>> \o <<FillReport(o, n)>> = <<AckReport, FillReport(o, n)>>
    BY Joins
  <2>7. \A x, y : /\ <<x, y>> \o <<>> = <<x, y>>
                  /\ <<x, y>> \o <<ExpireReport>> = <<x, y, ExpireReport>>
    BY Joins
  <2> HIDE DEF all
  <2> QED BY <2>4, <2>5, <2>6, <2>7
<1> HIDE DEF all
<1> QED BY <1>1, <1>3, <1>4

(* How much of an order MatchingEngine::send fills.                        *)
Fillable(o) ==
  IF disconnected(o.venue) \/ o.role \in rejects \/ updated[o.venue][pair.instrument] = 0
  THEN 0 ELSE cap_fill_qty(o.role, o.qty)

LEMMA CapRange ==
  ASSUME NEW role, NEW qty \in Nat
  PROVE  cap_fill_qty(role, qty) \in 0..qty
BY SimulatorAssumption DEF cap_fill_qty, Lesser

(* send and submit together: the order fills Fillable(o) at its limit.     *)
LEMMA SendOutcome ==
  ASSUME SimTypeOK, NEW o \in SimOrders, TopOfBook(o)
  PROVE  LET n == Fillable(o)
             m == submit(o, send(o).reports)
         IN  /\ n \in 0..o.qty
             /\ send(o).taken = [p \in Prices |-> IF p = o.px THEN n ELSE 0]
             /\ n = 0 => \E reason \in GatewayErrors :
                           /\ NotFilled(m, reason)
                           /\ reason = "GATEWAY_DISCONNECT" <=> disconnected(o.venue)
             /\ n > 0 => Executed(o, m, n)
<1> DEFINE n == Fillable(o)
           Goal == /\ n \in 0..o.qty
                   /\ send(o).taken = [p \in Prices |-> IF p = o.px THEN n ELSE 0]
                   /\ n = 0 => \E reason \in GatewayErrors :
                                 /\ NotFilled(submit(o, send(o).reports), reason)
                                 /\ reason = "GATEWAY_DISCONNECT" <=> disconnected(o.venue)
                   /\ n > 0 => Executed(o, submit(o, send(o).reports), n)
<1>1. o.qty \in Nat /\ o.qty > 0 /\ o.px \in Prices
  BY DEF TopOfBook
<1>2. ASSUME NEW reason \in GatewayErrors, send(o) = Unfilled(reason), n = 0,
             reason = "GATEWAY_DISCONNECT" <=> disconnected(o.venue)
      PROVE  Goal
  <2>1. /\ send(o).reports = <<Report("Reject", 0, 0, reason)>>
        /\ send(o).taken = [p \in Prices |-> 0]
    BY <1>2 DEF Unfilled
  <2>2. send(o).taken = [p \in Prices |-> IF p = o.px THEN n ELSE 0]
    BY <1>2, <2>1
  <2>3. NotFilled(submit(o, send(o).reports), reason)
    BY <2>1, SubmitRejected
  <2> HIDE DEF n
  <2> QED BY <1>1, <1>2, <2>2, <2>3
<1>3. CASE disconnected(o.venue)
  BY <1>2, <1>3 DEF send, Fillable, GatewayErrors
<1>4. CASE ~disconnected(o.venue) /\ o.role \in rejects
  BY <1>2, <1>4 DEF send, Fillable, GatewayErrors
<1>5. CASE ~disconnected(o.venue) /\ o.role \notin rejects
           /\ updated[o.venue][pair.instrument] = 0
  BY <1>2, <1>5 DEF send, Fillable, GatewayErrors
<1>6. CASE ~disconnected(o.venue) /\ o.role \notin rejects
           /\ updated[o.venue][pair.instrument] # 0
  <2> DEFINE taken == [p \in Prices |-> IF p = o.px THEN n ELSE 0]
  <2>1. n = cap_fill_qty(o.role, o.qty) /\ n \in 0..o.qty
    BY <1>1, <1>6, CapRange DEF Fillable
  <2> HIDE DEF n
  <2>2. Taken(o, n) = taken
    BY <2>1, TakenAtTop
  <2>3. send(o) = Matched(o, taken)
    BY <1>6, <2>1, <2>2 DEF send
  <2> HIDE DEF taken
  <2>4. /\ send(o).taken = taken
        /\ n = 0 => send(o).reports = <<AckReport, ExpireReport>>
        /\ n > 0 => send(o).reports \in
                      {<<AckReport, FillReport(o, n)>>, <<FillReport(o, n), AckReport>>,
                       <<AckReport, FillReport(o, n), ExpireReport>>,
                       <<FillReport(o, n), AckReport, ExpireReport>>}
    <3>1. taken = [p \in Prices |-> IF p = o.px THEN n ELSE 0]
      BY DEF taken
    <3> QED BY <1>1, <2>1, <2>3, <3>1, MatchedReports
  <2>5. ASSUME n = 0 PROVE NotFilled(submit(o, send(o).reports), "IOC_REMAINDER_EXPIRED")
    BY <2>4, <2>5, SubmitExpired DEF AckReport, ExpireReport, GatewayErrors
  <2>6. ASSUME n > 0 PROVE Executed(o, submit(o, send(o).reports), n)
    <3>1. "IOC_REMAINDER_EXPIRED" \in GatewayErrors /\ n \in Nat
      BY <1>1, <2>1 DEF GatewayErrors
    <3>2. /\ Executed(o, submit(o, <<AckReport, FillReport(o, n)>>), n)
          /\ Executed(o, submit(o, <<FillReport(o, n), AckReport>>), n)
          /\ Executed(o, submit(o, <<AckReport, FillReport(o, n), ExpireReport>>), n)
          /\ Executed(o, submit(o, <<FillReport(o, n), AckReport, ExpireReport>>), n)
      BY <2>6, <3>1, SubmitFilled DEF AckReport, FillReport, ExpireReport
    <3> QED BY <2>4, <2>6, <3>2
  <2>7. "IOC_REMAINDER_EXPIRED" \in GatewayErrors
    BY DEF GatewayErrors
  <2>8. n = 0 => \E reason \in GatewayErrors :
                   /\ NotFilled(submit(o, send(o).reports), reason)
                   /\ reason = "GATEWAY_DISCONNECT" <=> disconnected(o.venue)
    <3>1. "IOC_REMAINDER_EXPIRED" # "GATEWAY_DISCONNECT"
      OBVIOUS
    <3> QED BY <1>6, <2>5, <2>7, <3>1
  <2>9. send(o).taken = [p \in Prices |-> IF p = o.px THEN n ELSE 0]
    BY <2>4 DEF taken
  <2> QED BY <2>1, <2>6, <2>8, <2>9 DEF n
<1>7. Goal
  BY <1>3, <1>4, <1>5, <1>6
<1> QED BY <1>7
-----------------------------------------------------------------------------
(* The book an order leaves: less at its limit, the same elsewhere.        *)
TakenAt(o, n) == [p \in Prices |-> IF p = o.px THEN n ELSE 0]

LEMMA SentBook ==
  ASSUME SimTypeOK, NEW o \in SimOrders, TopOfBook(o), NEW n \in 0..o.qty,
         SentTo(o, TakenAt(o, n))
  PROVE  /\ book' \in [Venues -> [Instruments -> [Sides -> Ladder]]]
         /\ rejects' \subseteq rejects
         /\ \A v \in Venues \ {o.venue} : book'[v] = book[v]
         /\ n = 0 => book' = book
         /\ \A v \in Venues, i \in Instruments, s \in Sides, p \in Prices :
              book'[v][i][s][p] <= book[v][i][s][p]
<1> DEFINE v0 == o.venue
           i0 == pair.instrument
           s0 == Opposite(o.side)
           L == Resting(o)
           M == [p \in Prices |-> L[p] - TakenAt(o, n)[p]]
<1>1. v0 \in Venues /\ i0 \in Instruments /\ s0 \in Sides
  BY DEF SimTypeOK, SimPairs, SimOrders, Opposite, Sides
<1>2. book \in [Venues -> [Instruments -> [Sides -> Ladder]]] /\ book[v0][i0][s0] = L
  BY DEF SimTypeOK, Resting
<1>3. L \in [Prices -> Nat]
  BY <1>1, <1>2 DEF Ladder
<1>4. book' = [book EXCEPT ![v0][i0][s0] = M]
  BY DEF SentTo, Resting
<1>5. rejects' \subseteq rejects
  BY DEF SentTo
<1>6. ASSUME NEW p \in Prices
      PROVE  M[p] \in Nat /\ M[p] <= L[p] /\ (n = 0 => M[p] = L[p])
  <2>1. o.qty \in Nat /\ o.qty <= L[o.px]
    BY DEF TopOfBook
  <2>2. n \in Nat /\ n <= o.qty
    BY <2>1
  <2>3. M[p] = IF p = o.px THEN L[p] - n ELSE L[p] - 0
    BY DEF TakenAt
  <2> HIDE DEF L, M
  <2> QED BY <1>3, <2>1, <2>2, <2>3
<1>7. DOMAIN M = Prices /\ M \in Ladder
  BY <1>6 DEF Ladder
<1>8. n = 0 => M = L
  BY <1>3, <1>6
<1> HIDE DEF L, M, v0, i0, s0
<1> DEFINE B == [book[v0][i0] EXCEPT ![s0] = M]
           C == [book[v0] EXCEPT ![i0] = B]
<1>9. book' = [book EXCEPT ![v0] = C]
  BY <1>4
<1>10. B \in [Sides -> Ladder] /\ C \in [Instruments -> [Sides -> Ladder]]
  <2>1. book[v0] \in [Instruments -> [Sides -> Ladder]] /\ book[v0][i0] \in [Sides -> Ladder]
    BY <1>1, <1>2
  <2>2. B \in [Sides -> Ladder]
    BY <1>1, <1>7, <2>1
  <2> HIDE DEF B
  <2> QED BY <1>1, <2>1, <2>2
<1>11. book' \in [Venues -> [Instruments -> [Sides -> Ladder]]]
  <2> HIDE DEF C
  <2> QED BY <1>1, <1>2, <1>9, <1>10
<1>12. \A v \in Venues \ {v0} : book'[v] = book[v]
  <2> HIDE DEF C
  <2> QED BY <1>1, <1>2, <1>9
<1>13. n = 0 => book' = book
  <2> SUFFICES ASSUME n = 0 PROVE book' = book
    OBVIOUS
  <2>1. B = book[v0][i0]
    BY <1>1, <1>2, <1>8
  <2> HIDE DEF B
  <2>2. C = book[v0]
    BY <1>1, <1>2, <2>1
  <2> HIDE DEF C
  <2> QED BY <1>1, <1>2, <1>9, <2>2
<1>14. ASSUME NEW v \in Venues, NEW i \in Instruments, NEW s \in Sides, NEW p \in Prices
       PROVE  book'[v][i][s][p] <= book[v][i][s][p]
  <2>1. book[v][i][s][p] \in Nat
    BY <1>2 DEF Ladder
  <2>2. CASE v = v0 /\ i = i0 /\ s = s0
    <3>1. book'[v][i][s] = M
      <4>1. book'[v] = C
        BY <1>1, <1>2, <1>9, <2>2
      <4>2. C[i] = B
        BY <1>1, <1>2, <2>2
      <4>3. B[s] = M
        BY <1>1, <1>2, <2>2
      <4> QED BY <4>1, <4>2, <4>3
    <3> QED BY <1>2, <1>6, <2>2, <3>1
  <2>3. CASE v # v0
    BY <1>12, <2>1, <2>3
  <2>4. CASE v = v0 /\ i # i0
    <3>1. book'[v] = C /\ C[i] = book[v0][i]
      BY <1>1, <1>2, <1>9, <2>4
    <3> QED BY <2>1, <2>4, <3>1
  <2>5. CASE v = v0 /\ i = i0 /\ s # s0
    <3>1. book'[v] = C /\ C[i] = B /\ B[s] = book[v0][i0][s]
      BY <1>1, <1>2, <1>9, <2>5
    <3> QED BY <2>1, <2>5, <3>1
  <2> QED BY <2>2, <2>3, <2>4, <2>5
<1> QED BY <1>5, <1>11, <1>12, <1>13, <1>14 DEF v0

(* send_one of execute_opportunity in terms of what is filled.             *)
LegRefused(rule) ==
  pair' = mark_leg_failed(pair, rule) /\ net' = net /\ book' = book /\ rejects' = rejects

LegLost(o) ==
  /\ Fillable(o) = 0 /\ net' = net
  /\ \E reason \in GatewayErrors :
       /\ pair' = mark_leg_failed(pair, reason)
       /\ reason = "GATEWAY_DISCONNECT" <=> disconnected(o.venue)

LegFilled(o) ==
  LET n == Fillable(o)
  IN  n > 0 /\ net' = PositionAfter(o, n) /\ pair' = apply_fill(pair, o.side, n, o.px * n)

LEMMA LegOutcome ==
  ASSUME SimTypeOK, NEW o \in SimOrders, SimSendOne(o),
         Check(o, quotes[o.venue]) = "APPROVED" => TopOfBook(o)
  PROVE  LET rule == Check(o, quotes[o.venue])
         IN  /\ Account(rule)
             /\ UNCHANGED <<sellFirst, quotes, opp, enabled, sec, trades, carry,
                            scenario, updated, now>>
             /\ rule # "APPROVED" => LegRefused(rule)
             /\ rule = "APPROVED" =>
                  /\ Fillable(o) \in 0..o.qty /\ SentTo(o, TakenAt(o, Fillable(o)))
                  /\ LegLost(o) \/ LegFilled(o)
<1> DEFINE rule == Check(o, quotes[o.venue])
           s == send(o)
           m == submit(o, s.reports)
           p == ApplyFills(pair, m.fills)
           n == Fillable(o)
<1>1. /\ Account(rule)
      /\ UNCHANGED <<sellFirst, quotes, opp, enabled, sec, trades, carry,
                     scenario, updated, now>>
      /\ rule # "APPROVED" => pair' = mark_leg_failed(pair, rule)
                              /\ UNCHANGED <<net, book, rejects>>
      /\ rule = "APPROVED" =>
           /\ SentTo(o, s.taken) /\ net' = m.net
           /\ pair' = IF m.orders[1].state \in {"Rejected", "Expired"}
                      THEN mark_leg_failed(p, m.orders[1].err) ELSE p
  BY DEF SimSendOne
<1>2. ASSUME rule = "APPROVED"
      PROVE  /\ n \in 0..o.qty
             /\ s.taken = [x \in Prices |-> IF x = o.px THEN n ELSE 0]
             /\ n = 0 => \E reason \in GatewayErrors :
                           /\ NotFilled(m, reason)
                           /\ reason = "GATEWAY_DISCONNECT" <=> disconnected(o.venue)
             /\ n > 0 => Executed(o, m, n)
  BY <1>2, SendOutcome
<1> HIDE DEF rule, s, m
<1>3. ASSUME rule = "APPROVED", n = 0 PROVE LegLost(o)
  <2>1. PICK reason \in GatewayErrors :
          /\ NotFilled(m, reason)
          /\ reason = "GATEWAY_DISCONNECT" <=> disconnected(o.venue)
    BY <1>2, <1>3
  <2>2. p = pair
    BY <2>1, ApplyNoFill DEF NotFilled
  <2> HIDE DEF p
  <2>3. pair' = mark_leg_failed(pair, reason) /\ net' = net
    BY <1>1, <1>3, <2>1, <2>2 DEF NotFilled
  <2> QED BY <1>3, <2>1, <2>3 DEF LegLost
<1>4. ASSUME rule = "APPROVED", n > 0 PROVE LegFilled(o)
  <2>1. PICK z, cash :
          /\ z \in OrderRecords(o)
          /\ m = Manager(z, <<FillOf(o, n)>>, PositionAfter(o, n), cash)
          /\ z.filled = n /\ z.state \in {"Filled", "Partial"}
    BY <1>2, <1>4 DEF Executed
  <2>2. m.fills = <<FillOf(o, n)>> /\ m.net = PositionAfter(o, n) /\ m.orders[1] = z
    BY <2>1, ManagerFields
  <2>3. p = apply_fill(pair, FillOf(o, n).side, FillOf(o, n).qty, FillOf(o, n).px * FillOf(o, n).qty)
    BY <2>2, ApplyOneFill
  <2>4. FillOf(o, n).side = o.side /\ FillOf(o, n).qty = n /\ FillOf(o, n).px = o.px
    BY DEF FillOf
  <2> HIDE DEF p, n
  <2>5. pair' = p /\ net' = PositionAfter(o, n)
    BY <1>1, <1>4, <2>1, <2>2
  <2> QED BY <1>4, <2>3, <2>4, <2>5 DEF LegFilled, n
<1>5. rule = "APPROVED" => LegLost(o) \/ LegFilled(o)
  <2>1. o.qty \in Nat /\ n \in 0..o.qty => n = 0 \/ n > 0
    <3> HIDE DEF n
    <3> QED OBVIOUS
  <2>2. rule = "APPROVED" => o.qty \in Nat
    BY DEF TopOfBook, rule
  <2> QED BY <1>2, <1>3, <1>4, <2>1, <2>2
<1>6. rule = "APPROVED" => SentTo(o, TakenAt(o, n))
  BY <1>1, <1>2 DEF TakenAt
<1> QED BY <1>1, <1>2, <1>5, <1>6 DEF LegRefused, rule

(* A hedge in terms of what is filled.                                     *)
Tried == [pair EXCEPT !.attempts = @ + 1]

HedgeRefused(rule) ==
  /\ pair' = [Tried EXCEPT !.state = "ErrorRecovery", !.error = rule]
  /\ net' = net /\ book' = book /\ rejects' = rejects

HedgeLost(o) == Fillable(o) = 0 /\ net' = net /\ pair' = Tried

HedgeFilled(o) ==
  LET n == Fillable(o)
  IN  n > 0 /\ net' = PositionAfter(o, n) /\ pair' = apply_fill(Tried, o.side, n, o.px * n)

LEMMA HedgeOutcome ==
  ASSUME SimTypeOK, NEW o \in SimOrders, HedgeOne(o),
         Check(o, HedgeQuotes[o.venue]) = "APPROVED" => TopOfBook(o)
  PROVE  LET rule == Check(o, HedgeQuotes[o.venue])
         IN  /\ Account(rule)
             /\ rule # "APPROVED" => HedgeRefused(rule)
             /\ rule = "APPROVED" =>
                  /\ Fillable(o) \in 0..o.qty /\ SentTo(o, TakenAt(o, Fillable(o)))
                  /\ HedgeLost(o) \/ HedgeFilled(o)
<1> DEFINE rule == Check(o, HedgeQuotes[o.venue])
           s == send(o)
           m == submit(o, s.reports)
           n == Fillable(o)
<1>1. /\ Account(rule)
      /\ rule # "APPROVED" =>
           /\ pair' = [Tried EXCEPT !.state = "ErrorRecovery", !.error = rule]
           /\ UNCHANGED <<net, book, rejects>>
      /\ rule = "APPROVED" =>
           SentTo(o, s.taken) /\ net' = m.net /\ pair' = ApplyFills(Tried, m.fills)
  BY DEF HedgeOne, Tried
<1>2. ASSUME rule = "APPROVED"
      PROVE  /\ n \in 0..o.qty
             /\ s.taken = [x \in Prices |-> IF x = o.px THEN n ELSE 0]
             /\ n = 0 => \E reason \in GatewayErrors :
                           /\ NotFilled(m, reason)
                           /\ reason = "GATEWAY_DISCONNECT" <=> disconnected(o.venue)
             /\ n > 0 => Executed(o, m, n)
  BY <1>2, SendOutcome
<1> HIDE DEF rule, s, m
<1>3. ASSUME rule = "APPROVED", n = 0 PROVE HedgeLost(o)
  <2>1. m.net = net /\ m.fills = <<>>
    BY <1>2, <1>3 DEF NotFilled
  <2>2. ApplyFills(Tried, m.fills) = Tried
    BY <2>1, ApplyNoFill
  <2> QED BY <1>1, <1>3, <2>1, <2>2 DEF HedgeLost
<1>4. ASSUME rule = "APPROVED", n > 0 PROVE HedgeFilled(o)
  <2>1. PICK z, cash :
          m = Manager(z, <<FillOf(o, n)>>, PositionAfter(o, n), cash)
    BY <1>2, <1>4 DEF Executed
  <2>2. m.fills = <<FillOf(o, n)>> /\ m.net = PositionAfter(o, n)
    BY <2>1, ManagerFields
  <2>3. ApplyFills(Tried, m.fills) =
          apply_fill(Tried, FillOf(o, n).side, FillOf(o, n).qty, FillOf(o, n).px * FillOf(o, n).qty)
    BY <2>2, ApplyOneFill
  <2>4. FillOf(o, n).side = o.side /\ FillOf(o, n).qty = n /\ FillOf(o, n).px = o.px
    BY DEF FillOf
  <2> HIDE DEF n
  <2>5. pair' = ApplyFills(Tried, m.fills) /\ net' = PositionAfter(o, n)
    BY <1>1, <1>4, <2>2
  <2> QED BY <1>4, <2>3, <2>4, <2>5 DEF HedgeFilled, n
<1>5. rule = "APPROVED" => HedgeLost(o) \/ HedgeFilled(o)
  <2>1. o.qty \in Nat /\ n \in 0..o.qty => n = 0 \/ n > 0
    <3> HIDE DEF n
    <3> QED OBVIOUS
  <2>2. rule = "APPROVED" => o.qty \in Nat
    BY DEF TopOfBook, rule
  <2> QED BY <1>2, <1>3, <1>4, <2>1, <2>2
<1>6. rule = "APPROVED" => SentTo(o, TakenAt(o, n))
  BY <1>1, <1>2 DEF TakenAt
<1> QED BY <1>1, <1>2, <1>5, <1>6 DEF HedgeRefused, rule
-----------------------------------------------------------------------------
(* A book's quote shows its best prices and what rests there.              *)
LEMMA QuoteFacts ==
  ASSUME NEW b \in [Sides -> Ladder], NEW last \in Nat, NEW t \in Nat
  PROVE  LET q == quote(b, last, t)
         IN  /\ q \in BestQuote
             /\ valid(q) => /\ q.bid_px \in Prices /\ q.bid_qty = b["Buy"][q.bid_px]
                            /\ \A p \in Prices : p > q.bid_px => b["Buy"][p] = 0
                            /\ q.ask_px \in Prices /\ q.ask_qty = b["Sell"][q.ask_px]
                            /\ \A p \in Prices : p < q.ask_px => b["Sell"][p] = 0
<1> DEFINE q == quote(b, last, t)
           B == b["Buy"]
           S == b["Sell"]
           bids == Depth(B)
           asks == Depth(S)
<1>1. B \in [Prices -> Nat] /\ S \in [Prices -> Nat]
  BY DEF Sides, Ladder
<1>2. IsFiniteSet(Prices) /\ Prices \subseteq Int
  BY SimulatorAssumption
<1> HIDE DEF B, S
<1>3. ASSUME NEW L \in [Prices -> Nat], Depth(L) # {}
      PROVE  /\ Max(Depth(L)) \in Prices /\ \A p \in Prices : p > Max(Depth(L)) => L[p] = 0
             /\ Min(Depth(L)) \in Prices /\ \A p \in Prices : p < Min(Depth(L)) => L[p] = 0
  <2> DEFINE D == Depth(L)
  <2>1. D \subseteq Prices /\ IsFiniteSet(D) /\ D \subseteq Int
    BY <1>2, FS_Subset DEF Depth
  <2>2. Max(D) \in D /\ (\A y \in D : y <= Max(D)) /\ Min(D) \in D /\ \A y \in D : Min(D) <= y
    <3> HIDE DEF D
    <3> QED BY <1>3, <2>1, MaxMin DEF D
  <2>3. \A p \in Prices : p \notin D => L[p] = 0
    BY <1>3 DEF Depth
  <2> HIDE DEF D
  <2> QED BY <1>2, <2>1, <2>2, <2>3 DEF D
<1> DEFINE bid == IF bids = {} THEN 0 ELSE Max(bids)
           ask == IF asks = {} THEN 0 ELSE Min(asks)
           age == IF last > 0 /\ t >= last THEN t - last ELSE 0
           bidQty == IF bids = {} THEN 0 ELSE B[bid]
           askQty == IF asks = {} THEN 0 ELSE S[ask]
<1>4. q = [bid_px |-> bid, bid_qty |-> bidQty, ask_px |-> ask, ask_qty |-> askQty, age |-> age]
  BY DEF quote, B, S
<1>5. age \in Nat
  OBVIOUS
<1>6. /\ bid \in Int /\ bidQty \in Int
      /\ bid > 0 => /\ bid \in Prices /\ bidQty = B[bid]
                    /\ \A p \in Prices : p > bid => B[p] = 0
  <2>1. CASE bids = {}
    BY <2>1
  <2>2. CASE bids # {}
    <3>1. bid \in Prices /\ \A p \in Prices : p > bid => B[p] = 0
      BY <1>1, <1>3, <2>2
    <3>2. bidQty = B[bid]
      BY <2>2
    <3> HIDE DEF bid, bidQty
    <3> QED BY <1>1, <1>2, <3>1, <3>2
  <2> QED BY <2>1, <2>2
<1>7. /\ ask \in Int /\ askQty \in Int
      /\ ask > 0 => /\ ask \in Prices /\ askQty = S[ask]
                    /\ \A p \in Prices : p < ask => S[p] = 0
  <2>1. CASE asks = {}
    BY <2>1
  <2>2. CASE asks # {}
    <3>1. ask \in Prices /\ \A p \in Prices : p < ask => S[p] = 0
      BY <1>1, <1>3, <2>2
    <3>2. askQty = S[ask]
      BY <2>2
    <3> HIDE DEF ask, askQty
    <3> QED BY <1>1, <1>2, <3>1, <3>2
  <2> QED BY <2>1, <2>2
<1> HIDE DEF q, bid, ask, age, bidQty, askQty
<1>8. q \in BestQuote
  BY <1>4, <1>5, <1>6, <1>7 DEF BestQuote
<1>9. /\ q.bid_px = bid /\ q.bid_qty = bidQty /\ q.ask_px = ask /\ q.ask_qty = askQty
  BY <1>4
<1> QED BY <1>6, <1>7, <1>8, <1>9 DEF valid, q, B, S
-----------------------------------------------------------------------------
(* The simulator's inductive invariant.  A book nobody has written to is   *)
(* empty.                                                                  *)
EmptyUntilUpdated ==
  \A v \in Venues, i \in Instruments :
    updated[v][i] = 0 => \A s \in Sides, p \in Prices : book[v][i][s][p] = 0

(* The legs still to be sent are priced from quotes the books still show.  *)
Current(v) == quotes[v] = HedgeQuotes[v]

Planned ==
  pc \in {"first", "second"} =>
    /\ opp = best_opportunity(quotes)
    /\ pair.buy_venue = opp.buy_venue /\ pair.sell_venue = opp.sell_venue
    /\ pair.attempts = 0 /\ Current(SecondLeg.venue)
    /\ IF sellFirst THEN pair.bought = 0 ELSE pair.sold = 0

Starting ==
  pc = "first" => /\ Current(FirstLeg.venue)
                  /\ pair.bought = 0 /\ pair.sold = 0 /\ pair.error = "none"

(* Where no fault is injected an approved leg fills whole.                 *)
CleanLegs ==
  scenario \in {"clean", "delayed_ack"} /\ pair.error = "none" =>
    /\ pc = "second" => opp.qty > 0 /\ (IF sellFirst THEN pair.sold ELSE pair.bought) = opp.qty
    /\ pc = "settle" => pair.bought > 0 /\ pair.sold = pair.bought /\ pair.attempts = 0
    /\ pc # "hedge"
    /\ pc = "idle" /\ trades > 0 =>
         pair.state = "Flat" /\ pair.bought > 0 /\ pair.attempts = 0

(* The leg the disconnected NSE lost stays unfilled: the NSE's book is     *)
(* still as it was, so every hedge goes there first and is lost too.       *)
NseLegLost ==
  pair.error = "GATEWAY_DISCONNECT" =>
    /\ pc # "idle" =>
         /\ scenario = "gateway_disconnect_nse" /\ pair.buy_venue # pair.sell_venue
         /\ pair.buy_venue = "NSE" => pair.bought = 0
         /\ pair.sell_venue = "NSE" => pair.sold = 0
         /\ valid(HedgeQuotes["NSE"]) /\ HedgeQuotes["NSE"].age <= MaxBookAge
         /\ MaxOrderQty > 0
    /\ pc = "idle" /\ pair.bought + pair.sold > 0 =>
         pair.state \in {"ErrorRecovery", "KillSwitch"}

Killed == scenario = "manual_kill" => ~enabled /\ pair.bought = 0 /\ pair.sold = 0

HedgeStates ==
  pc = "hedge" /\ residual(pair) # 0 => pair.state \in {"Hedging", "ErrorRecovery", "KillSwitch"}

SimInv ==
  /\ SimTypeOK /\ EmptyUntilUpdated /\ Planned /\ Starting
  /\ CleanLegs /\ NseLegLost /\ Killed /\ HedgeStates
-----------------------------------------------------------------------------
LEMMA HedgeQuotesTyped ==
  ASSUME SimTypeOK
  PROVE  HedgeQuotes \in [Venues -> BestQuote]
<1> DEFINE i == pair.instrument
<1>1. i \in Instruments
  BY DEF SimTypeOK, SimPairs
<1>2. ASSUME NEW v \in Venues PROVE quote(book[v][i], updated[v][i], now) \in BestQuote
  <2>1. book[v][i] \in [Sides -> Ladder] /\ updated[v][i] \in Nat /\ now \in Nat
    BY <1>1 DEF SimTypeOK
  <2> HIDE DEF i
  <2> QED BY <2>1, QuoteFacts
<1> QED BY <1>2 DEF HedgeQuotes, QuotesOf

(* An order at a valid quote of the book as it is finds its shares there.  *)
LEMMA OrderAtTop ==
  ASSUME SimTypeOK, EmptyUntilUpdated, NEW o \in SimOrders, o.qty > 0,
         valid(HedgeQuotes[o.venue]),
         o.side = "Buy" => /\ o.px = HedgeQuotes[o.venue].ask_px
                           /\ o.qty <= HedgeQuotes[o.venue].ask_qty,
         o.side = "Sell" => /\ o.px = HedgeQuotes[o.venue].bid_px
                            /\ o.qty <= HedgeQuotes[o.venue].bid_qty
  PROVE  TopOfBook(o) /\ updated[o.venue][pair.instrument] # 0
<1> DEFINE v == o.venue
           i == pair.instrument
           b == book[v][i]
           q == quote(b, updated[v][i], now)
<1>1. v \in Venues /\ i \in Instruments /\ o.side \in Sides /\ o.qty \in Int
  BY DEF SimOrders, SimTypeOK, SimPairs
<1>2. b \in [Sides -> Ladder] /\ updated[v][i] \in Nat /\ now \in Nat
  BY <1>1 DEF SimTypeOK
<1>3. HedgeQuotes[v] = q
  BY <1>1 DEF HedgeQuotes, QuotesOf
<1>4. valid(q)
  BY <1>3
<1> HIDE DEF q
<1>5. /\ q.bid_px \in Prices /\ q.bid_qty = b["Buy"][q.bid_px]
      /\ \A p \in Prices : p > q.bid_px => b["Buy"][p] = 0
      /\ q.ask_px \in Prices /\ q.ask_qty = b["Sell"][q.ask_px]
      /\ \A p \in Prices : p < q.ask_px => b["Sell"][p] = 0
  <2> HIDE DEF b
  <2> QED BY <1>2, <1>4, QuoteFacts DEF q
<1>6. TopOfBook(o)
  <2>1. Resting(o) = b[Opposite(o.side)]
    BY DEF Resting
  <2> HIDE DEF b
  <2>2. CASE o.side = "Buy"
    <3>1. o.px = q.ask_px /\ o.qty <= q.ask_qty /\ Resting(o) = b["Sell"]
      BY <1>3, <2>1, <2>2 DEF Opposite
    <3>2. \A p \in Prices : Better(o.side, p, o.px) => Resting(o)[p] = 0
      BY <1>5, <2>2, <3>1 DEF Better
    <3> QED BY <1>1, <1>5, <3>1, <3>2 DEF TopOfBook
  <2>3. CASE o.side = "Sell"
    <3>1. o.px = q.bid_px /\ o.qty <= q.bid_qty /\ Resting(o) = b["Buy"]
      BY <1>3, <2>1, <2>3 DEF Opposite
    <3>2. \A p \in Prices : Better(o.side, p, o.px) => Resting(o)[p] = 0
      BY <1>5, <2>3, <3>1 DEF Better
    <3> QED BY <1>1, <1>5, <3>1, <3>2 DEF TopOfBook
  <2> QED BY <1>1, <2>2, <2>3 DEF Sides
<1>7. updated[v][i] # 0
  <2> SUFFICES ASSUME updated[v][i] = 0 PROVE FALSE
    OBVIOUS
  <2>1. b["Buy"][q.bid_px] = 0
    BY <1>1, <1>5 DEF EmptyUntilUpdated, Sides
  <2>2. q.bid_qty > 0
    BY <1>4 DEF valid
  <2> QED BY <1>5, <2>1, <2>2
<1> QED BY <1>6, <1>7

(* What an approved order says of the quote it was checked against.        *)
LEMMA ApprovedQuote ==
  ASSUME NEW o, o.qty \in Int, NEW q \in BestQuote, NEW e \in BOOLEAN, NEW n, NEW b, NEW s,
         check_order(o, q, e, n, b, s) = "APPROVED"
  PROVE  e /\ valid(q) /\ q.age <= MaxBookAge /\ o.qty > 0 /\ MaxOrderQty > 0
<1>1. q.age \in Int /\ MaxBookAge \in Int /\ MaxOrderQty \in Int
  BY RiskConfigAssumption DEF BestQuote
<1> QED BY <1>1 DEF check_order

(* An opportunity buys at one venue's ask and sells at the other's bid.    *)
LEMMA OpportunityPrices ==
  ASSUME NEW q \in [Venues -> BestQuote]
  PROVE  LET p == best_opportunity(q)
         IN  /\ p.buy_venue \in Venues /\ p.sell_venue \in Venues
             /\ p.buy_venue # p.sell_venue /\ p.qty \in Int
             /\ p.buy_px = q[p.buy_venue].ask_px /\ p.qty <= q[p.buy_venue].ask_qty
             /\ p.sell_px = q[p.sell_venue].bid_px /\ p.qty <= q[p.sell_venue].bid_qty
<1>1. ASSUME NEW v \in Venues, NEW w \in Venues
      PROVE  LET p == try_direction(v, w, q)
             IN  /\ p.buy_venue = v /\ p.sell_venue = w /\ p.qty \in Int
                 /\ p.buy_px = q[v].ask_px /\ p.qty <= q[v].ask_qty
                 /\ p.sell_px = q[w].bid_px /\ p.qty <= q[w].bid_qty
  <2>1. q[v].ask_qty \in Int /\ q[w].bid_qty \in Int /\ StrategyMaxQty \in Int
    BY StrategyAssumption DEF BestQuote
  <2> QED BY <2>1 DEF try_direction, Lesser
<1>2. "NSE" \in Venues /\ "BSE" \in Venues /\ "NSE" # "BSE"
  BY DEF Venues
<1>3. best_opportunity(q) \in {try_direction("BSE", "NSE", q), try_direction("NSE", "BSE", q)}
  BY DEF best_opportunity
<1> QED BY <1>1, <1>2, <1>3

(* A leg that is still to be sent and passes the risk check.               *)
LEMMA LegReady ==
  ASSUME SimTypeOK, EmptyUntilUpdated, opp = best_opportunity(quotes),
         NEW l \in {BuyLeg, SellLeg}, Current(l.venue)
  PROVE  LET o == Leg(l)
         IN  /\ o \in SimOrders /\ o.venue = l.venue /\ o.side = l.side /\ o.qty = opp.qty
             /\ o.px = l.px /\ o.role \in {"AlphaBuy", "AlphaSell"}
             /\ l.venue = (IF l.side = "Buy" THEN opp.buy_venue ELSE opp.sell_venue)
             /\ Check(o, quotes[o.venue]) = "APPROVED" =>
                  /\ enabled /\ TopOfBook(o) /\ opp.qty > 0
                  /\ updated[o.venue][pair.instrument] # 0
                  /\ valid(HedgeQuotes[l.venue]) /\ HedgeQuotes[l.venue].age <= MaxBookAge
                  /\ MaxOrderQty > 0
<1> DEFINE o == Leg(l)
<1>1. /\ opp.buy_venue \in Venues /\ opp.sell_venue \in Venues /\ opp.qty \in Int
      /\ opp.buy_px = quotes[opp.buy_venue].ask_px /\ opp.qty <= quotes[opp.buy_venue].ask_qty
      /\ opp.sell_px = quotes[opp.sell_venue].bid_px /\ opp.qty <= quotes[opp.sell_venue].bid_qty
      /\ quotes \in [Venues -> BestQuote]
  BY OpportunityPrices DEF SimTypeOK
<1>2. opp.buy_px \in Int /\ opp.sell_px \in Int
  BY DEF SimTypeOK, Opportunities
<1>3. /\ o \in SimOrders /\ o.venue = l.venue /\ o.side = l.side /\ o.qty = opp.qty
      /\ o.px = l.px /\ o.role \in {"AlphaBuy", "AlphaSell"}
      /\ l.venue = (IF l.side = "Buy" THEN opp.buy_venue ELSE opp.sell_venue)
      /\ l.px = (IF l.side = "Buy" THEN opp.buy_px ELSE opp.sell_px)
  BY <1>1, <1>2 DEF Leg, WithRole, BuyLeg, SellLeg, SimOrders, Sides
<1> HIDE DEF o
<1>4. ASSUME Check(o, quotes[o.venue]) = "APPROVED"
      PROVE  /\ enabled /\ TopOfBook(o) /\ opp.qty > 0
             /\ updated[o.venue][pair.instrument] # 0
             /\ valid(HedgeQuotes[l.venue]) /\ HedgeQuotes[l.venue].age <= MaxBookAge
             /\ MaxOrderQty > 0
  <2> DEFINE q == quotes[l.venue]
  <2>1. l.venue \in Venues /\ q \in BestQuote /\ q = HedgeQuotes[l.venue]
    BY <1>1, <1>3 DEF Current
  <2>2. enabled /\ valid(q) /\ q.age <= MaxBookAge /\ o.qty > 0 /\ MaxOrderQty > 0
    <3>1. enabled \in BOOLEAN /\ o.qty \in Int
      BY <1>1, <1>3 DEF SimTypeOK
    <3>2. check_order(o, q, enabled, net[pair.instrument], bucket[pair.instrument], sec) = "APPROVED"
      BY <1>3, <1>4 DEF Check
    <3> HIDE DEF q
    <3> QED BY <2>1, <3>1, <3>2, ApprovedQuote
  <2>3. /\ o.side = "Buy" => o.px = HedgeQuotes[o.venue].ask_px
                             /\ o.qty <= HedgeQuotes[o.venue].ask_qty
        /\ o.side = "Sell" => o.px = HedgeQuotes[o.venue].bid_px
                              /\ o.qty <= HedgeQuotes[o.venue].bid_qty
    BY <1>1, <1>3, <2>1
  <2>4. TopOfBook(o) /\ updated[o.venue][pair.instrument] # 0
    BY <1>3, <2>1, <2>2, <2>3, OrderAtTop
  <2> QED BY <1>3, <2>1, <2>2, <2>4
<1> QED BY <1>3, <1>4 DEF o
-----------------------------------------------------------------------------
(* What the operations on a pair leave alone.                              *)
Kept(p, r) ==
  /\ r \in SimPairs /\ r.instrument = p.instrument /\ r.attempts = p.attempts
  /\ r.buy_venue = p.buy_venue /\ r.sell_venue = p.sell_venue

Count(p, side) == IF side = "Buy" THEN p.bought ELSE p.sold

LEMMA SimLegFailed ==
  ASSUME NEW p \in SimPairs, NEW reason \in Errors \cup GatewayErrors
  PROVE  LET r == mark_leg_failed(p, reason)
         IN  /\ Kept(p, r) /\ r.error = reason
             /\ r.bought = p.bought /\ r.sold = p.sold
<1> DEFINE st == IF residual(p) = 0 THEN "Flat" ELSE "Hedging"
<1>1. st \in PairStates
  BY DEF PairStates
<1>2. mark_leg_failed(p, reason) = [p EXCEPT !.error = reason, !.state = st]
  BY DEF mark_leg_failed
<1> HIDE DEF st
<1> QED BY <1>1, <1>2 DEF Kept, SimPairs

LEMMA SimApplyFill ==
  ASSUME NEW p \in SimPairs, NEW side \in Sides, NEW qty \in Nat, NEW notional \in Int
  PROVE  LET r == apply_fill(p, side, qty, notional)
         IN  /\ Kept(p, r) /\ r.error = p.error
             /\ Count(r, side) = Count(p, side) + qty
             /\ Count(r, Opposite(side)) = Count(p, Opposite(side))
             /\ r.state = IF residual(r) = 0 THEN "Flat" ELSE "Hedging"
<1> DEFINE f == AddFill(p, side, qty, notional)
           r == apply_fill(p, side, qty, notional)
           st == IF residual(f) = 0 THEN "Flat" ELSE "Hedging"
<1>1. /\ Kept(p, f) /\ f.error = p.error
      /\ Count(f, side) = Count(p, side) + qty
      /\ Count(f, Opposite(side)) = Count(p, Opposite(side))
  <2>1. CASE side = "Buy"
    <3>1. f = [p EXCEPT !.bought = @ + qty, !.bought_notional = @ + notional]
      BY <2>1 DEF AddFill
    <3>2. p.bought + qty \in Nat /\ p.bought_notional + notional \in Int
      BY DEF SimPairs
    <3> HIDE DEF f
    <3> QED BY <2>1, <3>1, <3>2 DEF SimPairs, Kept, Count, Opposite
  <2>2. CASE side = "Sell"
    <3>1. f = [p EXCEPT !.sold = @ + qty, !.sold_notional = @ + notional]
      BY <2>2 DEF AddFill
    <3>2. p.sold + qty \in Nat /\ p.sold_notional + notional \in Int
      BY DEF SimPairs
    <3> HIDE DEF f
    <3> QED BY <2>2, <3>1, <3>2 DEF SimPairs, Kept, Count, Opposite
  <2> QED BY <2>1, <2>2 DEF Sides
<1>2. r = [f EXCEPT !.state = st]
  BY DEF apply_fill
<1>3. st \in PairStates
  BY DEF PairStates
<1> HIDE DEF f, r, st
<1>4. /\ Kept(p, r) /\ r.error = f.error /\ r.bought = f.bought /\ r.sold = f.sold
      /\ r.state = st
  BY <1>1, <1>2, <1>3 DEF Kept, SimPairs
<1>5. residual(r) = residual(f)
  BY <1>4 DEF residual
<1> QED BY <1>1, <1>4, <1>5 DEF Count, r, st

(* One leg: refused or lost, which leaves an error and the books' quotes,  *)
(* or filled.                                                              *)
LegMissed(l) ==
  /\ Count(pair', l.side) = Count(pair, l.side) /\ pair'.error # "none"
  /\ pair'.error = "GATEWAY_DISCONNECT" =>
       /\ disconnected(l.venue)
       /\ valid(HedgeQuotes'[l.venue]) /\ HedgeQuotes'[l.venue].age <= MaxBookAge
       /\ MaxOrderQty > 0

LegTaken(l) ==
  /\ enabled /\ ~disconnected(l.venue) /\ pair'.error = pair.error
  /\ Count(pair', l.side) = Count(pair, l.side) + Fillable(Leg(l))
  /\ scenario \in {"clean", "delayed_ack"} => Fillable(Leg(l)) = opp.qty
  /\ opp.qty > 0

LegStep(l) ==
  /\ Kept(pair, pair') /\ net' \in [Instruments -> Int]
  /\ book' \in [Venues -> [Instruments -> [Sides -> Ladder]]]
  /\ rejects' \subseteq rejects /\ EmptyUntilUpdated'
  /\ UNCHANGED <<sellFirst, quotes, opp, enabled, sec, trades, carry, scenario, updated, now>>
  /\ \A v \in Venues \ {l.venue} : HedgeQuotes'[v] = HedgeQuotes[v]
  /\ Count(pair', Opposite(l.side)) = Count(pair, Opposite(l.side))
  /\ LegMissed(l) \/ LegTaken(l)

LEMMA SameQuotes ==
  ASSUME NEW v \in Venues, book'[v] = book[v], updated' = updated, now' = now,
         pair'.instrument = pair.instrument
  PROVE  HedgeQuotes'[v] = HedgeQuotes[v]
BY DEF HedgeQuotes, QuotesOf

LEMMA StillEmpty ==
  ASSUME SimTypeOK, EmptyUntilUpdated, updated' = updated,
         book' \in [Venues -> [Instruments -> [Sides -> Ladder]]],
         \A v \in Venues, i \in Instruments, s \in Sides, p \in Prices :
           book'[v][i][s][p] <= book[v][i][s][p]
  PROVE  EmptyUntilUpdated'
<1> SUFFICES ASSUME NEW v \in Venues, NEW i \in Instruments, updated[v][i] = 0,
                    NEW s \in Sides, NEW p \in Prices
             PROVE  book'[v][i][s][p] = 0
  BY DEF EmptyUntilUpdated
<1>1. book[v][i][s][p] = 0
  BY DEF EmptyUntilUpdated
<1>2. book'[v][i][s][p] \in Nat
  BY DEF Ladder
<1>3. book'[v][i][s][p] <= book[v][i][s][p]
  OBVIOUS
<1> QED BY <1>1, <1>2, <1>3

LEMMA PositionTyped ==
  ASSUME SimTypeOK, NEW o, NEW n \in Int
  PROVE  PositionAfter(o, n) \in [Instruments -> Int]
<1> DEFINE i == pair.instrument
           k == IF o.side = "Buy" THEN net[i] + n ELSE net[i] - n
<1>1. i \in Instruments /\ net \in [Instruments -> Int] /\ k \in Int
  BY DEF SimTypeOK, SimPairs
<1>2. PositionAfter(o, n) = [net EXCEPT ![i] = k]
  BY DEF PositionAfter
<1> HIDE DEF k
<1> QED BY <1>1, <1>2

(* A fault-free scenario fills what it is sent.                            *)
LEMMA CleanFills ==
  ASSUME SimTypeOK, NEW o \in SimOrders, scenario \in {"clean", "delayed_ack"},
         updated[o.venue][pair.instrument] # 0
  PROVE  Fillable(o) = o.qty
<1>1. rejects = {}
  BY DEF SimTypeOK, reject_roles_once
<1> QED BY <1>1 DEF Fillable, disconnected, cap_fill_qty

LEMMA LegSteps ==
  ASSUME SimTypeOK, EmptyUntilUpdated, opp = best_opportunity(quotes),
         NEW l \in {BuyLeg, SellLeg}, Current(l.venue), SimSendOne(Leg(l))
  PROVE  LegStep(l)
<1> DEFINE o == Leg(l)
           rule == Check(o, quotes[o.venue])
           n == Fillable(o)
<1>1. /\ o \in SimOrders /\ o.venue = l.venue /\ o.side = l.side /\ o.qty = opp.qty
      /\ o.px = l.px
      /\ rule = "APPROVED" =>
           /\ enabled /\ TopOfBook(o) /\ opp.qty > 0
           /\ updated[o.venue][pair.instrument] # 0
           /\ valid(HedgeQuotes[l.venue]) /\ HedgeQuotes[l.venue].age <= MaxBookAge
           /\ MaxOrderQty > 0
  BY LegReady
<1>2. /\ UNCHANGED <<sellFirst, quotes, opp, enabled, sec, trades, carry, scenario, updated, now>>
      /\ rule # "APPROVED" => LegRefused(rule)
      /\ rule = "APPROVED" =>
           /\ n \in 0..o.qty /\ SentTo(o, TakenAt(o, n))
           /\ LegLost(o) \/ LegFilled(o)
  BY <1>1, LegOutcome
<1>3. /\ pair \in SimPairs /\ net \in [Instruments -> Int]
      /\ book \in [Venues -> [Instruments -> [Sides -> Ladder]]]
      /\ l.side \in Sides /\ l.venue \in Venues /\ o.px \in Int
  BY <1>1 DEF SimTypeOK, SimOrders
<1> HIDE DEF o, rule, n
<1>4. ASSUME rule # "APPROVED" PROVE LegStep(l)
  <2>1. rule \in Rules \cup {"APPROVED"}
    BY CheckRange DEF Check, rule
  <2>2. rule \in Errors /\ rule # "none" /\ rule # "GATEWAY_DISCONNECT"
    BY <1>4, <2>1 DEF Errors, Rules
  <2>3. pair' = mark_leg_failed(pair, rule) /\ net' = net /\ book' = book /\ rejects' = rejects
    BY <1>2, <1>4 DEF LegRefused
  <2>4. /\ Kept(pair, pair') /\ pair'.error = rule
        /\ pair'.bought = pair.bought /\ pair'.sold = pair.sold
    BY <1>3, <2>2, <2>3, SimLegFailed
  <2>5. EmptyUntilUpdated'
    BY <1>2, <2>3 DEF EmptyUntilUpdated
  <2>6. \A v \in Venues \ {l.venue} : HedgeQuotes'[v] = HedgeQuotes[v]
    BY <1>2, <2>3, <2>4, SameQuotes DEF Kept
  <2>7. LegMissed(l)
    BY <2>2, <2>4 DEF LegMissed, Count
  <2> QED BY <1>2, <1>3, <2>3, <2>4, <2>5, <2>6, <2>7 DEF LegStep, Count
<1>5. ASSUME rule = "APPROVED"
      PROVE  /\ book' \in [Venues -> [Instruments -> [Sides -> Ladder]]]
             /\ rejects' \subseteq rejects /\ EmptyUntilUpdated'
             /\ \A v \in Venues \ {l.venue} : book'[v] = book[v]
             /\ n = 0 => book' = book
  <2>1. /\ book' \in [Venues -> [Instruments -> [Sides -> Ladder]]]
        /\ rejects' \subseteq rejects
        /\ \A v \in Venues \ {l.venue} : book'[v] = book[v]
        /\ n = 0 => book' = book
        /\ \A v \in Venues, i \in Instruments, s \in Sides, p \in Prices :
             book'[v][i][s][p] <= book[v][i][s][p]
    BY <1>1, <1>2, <1>5, SentBook
  <2>2. EmptyUntilUpdated'
    BY <1>2, <2>1, StillEmpty
  <2> QED BY <2>1, <2>2
<1>6. ASSUME rule = "APPROVED", LegLost(o) PROVE LegStep(l)
  <2>1. PICK reason \in GatewayErrors :
          /\ pair' = mark_leg_failed(pair, reason)
          /\ reason = "GATEWAY_DISCONNECT" <=> disconnected(o.venue)
    BY <1>6 DEF LegLost
  <2>2. n = 0 /\ net' = net
    BY <1>6 DEF LegLost, n
  <2>3. /\ Kept(pair, pair') /\ pair'.error = reason
        /\ pair'.bought = pair.bought /\ pair'.sold = pair.sold
    BY <1>3, <2>1, SimLegFailed
  <2>4. book' = book
    BY <1>5, <1>6, <2>2
  <2>5. \A v \in Venues : HedgeQuotes'[v] = HedgeQuotes[v]
    BY <1>2, <2>3, <2>4, SameQuotes DEF Kept
  <2>6. LegMissed(l)
    <3>1. reason # "none"
      BY DEF GatewayErrors
    <3> QED BY <1>1, <1>3, <1>6, <2>1, <2>3, <2>5, <3>1 DEF LegMissed, Count
  <2> QED BY <1>2, <1>3, <1>5, <1>6, <2>2, <2>3, <2>5, <2>6 DEF LegStep, Count
<1>7. ASSUME rule = "APPROVED", LegFilled(o) PROVE LegStep(l)
  <2>1. n > 0 /\ net' = PositionAfter(o, n) /\ pair' = apply_fill(pair, o.side, n, o.px * n)
    BY <1>7 DEF LegFilled, n
  <2>2. opp.qty \in Int /\ n \in Nat /\ o.px * n \in Int
    <3>1. opp.qty \in Int
      BY DEF SimTypeOK, Opportunities
    <3>2. n \in Nat
      BY <1>1, <1>2, <1>7, <3>1
    <3> QED BY <1>3, <3>1, <3>2
  <2>3. /\ Kept(pair, pair') /\ pair'.error = pair.error
        /\ Count(pair', l.side) = Count(pair, l.side) + n
        /\ Count(pair', Opposite(l.side)) = Count(pair, Opposite(l.side))
    BY <1>1, <1>3, <2>1, <2>2, SimApplyFill
  <2>4. net' \in [Instruments -> Int]
    BY <2>1, <2>2, PositionTyped
  <2>5. \A v \in Venues \ {l.venue} : HedgeQuotes'[v] = HedgeQuotes[v]
    BY <1>2, <1>5, <1>7, <2>3, SameQuotes DEF Kept
  <2>6. ~disconnected(l.venue)
    BY <1>1, <2>1 DEF n, Fillable
  <2>7. scenario \in {"clean", "delayed_ack"} => n = opp.qty
    BY <1>1, <1>7, CleanFills DEF n
  <2>8. LegTaken(l)
    BY <1>1, <1>7, <2>3, <2>6, <2>7 DEF LegTaken, n, o
  <2> QED BY <1>2, <1>5, <1>7, <2>3, <2>4, <2>5, <2>8 DEF LegStep
<1> QED BY <1>2, <1>4, <1>6, <1>7

(* Both legs keep the invariant.                                           *)
LEMMA LegTyped ==
  ASSUME SimTypeOK, NEW l, LegStep(l), pc' \in {"second", "settle"}
  PROVE  SimTypeOK'
BY DEF SimTypeOK, LegStep, Kept

LEMMA LegVenues ==
  ASSUME SimTypeOK, opp = best_opportunity(quotes)
  PROVE  /\ FirstLeg \in {BuyLeg, SellLeg} /\ SecondLeg \in {BuyLeg, SellLeg}
         /\ BuyLeg.venue = opp.buy_venue /\ SellLeg.venue = opp.sell_venue
         /\ BuyLeg.side = "Buy" /\ SellLeg.side = "Sell"
         /\ FirstLeg = (IF sellFirst THEN SellLeg ELSE BuyLeg)
         /\ SecondLeg = (IF sellFirst THEN BuyLeg ELSE SellLeg)
         /\ FirstLeg.venue # SecondLeg.venue /\ opp.buy_venue # opp.sell_venue
         /\ opp.buy_venue \in Venues /\ opp.sell_venue \in Venues
         /\ FirstLeg.venue \in Venues /\ SecondLeg.venue \in Venues
<1>1. /\ opp.buy_venue \in Venues /\ opp.sell_venue \in Venues
      /\ opp.buy_venue # opp.sell_venue
  BY OpportunityPrices DEF SimTypeOK
<1>2. BuyLeg.venue = opp.buy_venue /\ SellLeg.venue = opp.sell_venue
      /\ BuyLeg.side = "Buy" /\ SellLeg.side = "Sell"
  BY DEF BuyLeg, SellLeg
<1> QED BY <1>1, <1>2 DEF FirstLeg, SecondLeg

LEMMA SimSendFirstKeeps ==
  ASSUME SimInv, SimSendFirst
  PROVE  SimInv'
<1> DEFINE l == FirstLeg
<1>1. /\ pc = "first" /\ pc' = "second" /\ SimSendOne(Leg(l))
      /\ SimTypeOK /\ EmptyUntilUpdated
  BY DEF SimInv, SimSendFirst
<1>2. /\ opp = best_opportunity(quotes) /\ pair.attempts = 0
      /\ pair.buy_venue = opp.buy_venue /\ pair.sell_venue = opp.sell_venue
      /\ Current(SecondLeg.venue) /\ Current(l.venue)
      /\ pair.bought = 0 /\ pair.sold = 0 /\ pair.error = "none"
  BY <1>1 DEF SimInv, Planned, Starting
<1>3. /\ l \in {BuyLeg, SellLeg} /\ l.venue # SecondLeg.venue /\ SecondLeg.venue \in Venues
      /\ l.venue \in Venues /\ opp.buy_venue # opp.sell_venue
      /\ l.side = (IF sellFirst THEN "Sell" ELSE "Buy")
  BY <1>1, <1>2, LegVenues
<1>4. LegStep(l)
  BY <1>1, <1>2, <1>3, LegSteps
<1> HIDE DEF l
<1>5. /\ UNCHANGED <<sellFirst, quotes, opp, enabled, trades, scenario, updated, now>>
      /\ Kept(pair, pair') /\ EmptyUntilUpdated'
      /\ HedgeQuotes'[SecondLeg.venue] = HedgeQuotes[SecondLeg.venue]
      /\ Count(pair', Opposite(l.side)) = Count(pair, Opposite(l.side))
      /\ LegMissed(l) \/ LegTaken(l)
  BY <1>3, <1>4 DEF LegStep
<1>6. SimTypeOK'
  BY <1>1, <1>4, LegTyped
<1>7. SecondLeg' = SecondLeg
  BY <1>5 DEF SecondLeg, BuyLeg, SellLeg
<1>8. Planned'
  <2>1. IF sellFirst THEN pair'.bought = 0 ELSE pair'.sold = 0
    BY <1>2, <1>3, <1>5 DEF Count, Opposite, SimTypeOK
  <2>2. Current(SecondLeg.venue)'
    BY <1>2, <1>5, <1>7 DEF Current
  <2>3. opp' = best_opportunity(quotes')
    BY <1>2, <1>5
  <2> QED BY <1>2, <1>5, <2>1, <2>2, <2>3 DEF Planned, Kept
<1>9. Starting' /\ HedgeStates'
  BY <1>1 DEF Starting, HedgeStates
<1>10. pair'.bought \in Nat /\ pair'.sold \in Nat /\ sellFirst \in BOOLEAN /\ opp.qty \in Int
  BY <1>1, <1>5 DEF Kept, SimPairs, SimTypeOK, Opportunities
<1>11. CleanLegs'
  <2> SUFFICES ASSUME scenario \in {"clean", "delayed_ack"}, pair'.error = "none"
               PROVE  opp.qty > 0 /\ (IF sellFirst THEN pair'.sold ELSE pair'.bought) = opp.qty
    BY <1>1, <1>5 DEF CleanLegs
  <2>1. LegTaken(l)
    BY <1>5 DEF LegMissed
  <2>2. opp.qty > 0 /\ Count(pair', l.side) = Count(pair, l.side) + opp.qty
    BY <2>1 DEF LegTaken
  <2> QED BY <1>2, <1>3, <1>10, <2>2 DEF Count
<1>12. NseLegLost'
  <2> SUFFICES ASSUME pair'.error = "GATEWAY_DISCONNECT"
               PROVE  /\ scenario = "gateway_disconnect_nse"
                      /\ pair'.buy_venue # pair'.sell_venue
                      /\ pair'.bought = 0 /\ pair'.sold = 0
                      /\ valid(HedgeQuotes'["NSE"]) /\ HedgeQuotes'["NSE"].age <= MaxBookAge
                      /\ MaxOrderQty > 0
    BY <1>1, <1>5 DEF NseLegLost
  <2>1. LegMissed(l)
    BY <1>2, <1>5 DEF LegTaken
  <2>2. l.venue = "NSE" /\ scenario = "gateway_disconnect_nse"
    BY <2>1 DEF LegMissed, disconnected
  <2>3. pair'.bought = 0 /\ pair'.sold = 0
    BY <1>2, <1>3, <1>5, <2>1 DEF LegMissed, Count, Opposite
  <2> QED BY <1>2, <1>3, <1>5, <2>1, <2>2, <2>3 DEF LegMissed, Kept
<1>13. Killed'
  <2> SUFFICES ASSUME scenario = "manual_kill"
               PROVE  ~enabled /\ pair'.bought = 0 /\ pair'.sold = 0
    BY <1>5 DEF Killed
  <2>1. ~enabled
    BY DEF SimInv, Killed
  <2>2. LegMissed(l)
    BY <1>5, <2>1 DEF LegTaken
  <2> QED BY <1>2, <1>3, <1>5, <2>1, <2>2 DEF LegMissed, Count, Opposite
<1> QED BY <1>5, <1>6, <1>8, <1>9, <1>11, <1>12, <1>13 DEF SimInv

LEMMA SimSendSecondKeeps ==
  ASSUME SimInv, SimSendSecond
  PROVE  SimInv'
<1> DEFINE l == SecondLeg
<1>1. /\ pc = "second" /\ pc' = "settle" /\ SimSendOne(Leg(l))
      /\ SimTypeOK /\ EmptyUntilUpdated
  BY DEF SimInv, SimSendSecond
<1>2. /\ opp = best_opportunity(quotes) /\ pair.attempts = 0
      /\ pair.buy_venue = opp.buy_venue /\ pair.sell_venue = opp.sell_venue
      /\ Current(l.venue) /\ IF sellFirst THEN pair.bought = 0 ELSE pair.sold = 0
  BY <1>1 DEF SimInv, Planned
<1>3. /\ l \in {BuyLeg, SellLeg} /\ l.venue \in Venues /\ opp.buy_venue # opp.sell_venue
      /\ l.side = (IF sellFirst THEN "Buy" ELSE "Sell")
      /\ l.venue = (IF sellFirst THEN opp.buy_venue ELSE opp.sell_venue)
      /\ opp.buy_venue \in Venues /\ opp.sell_venue \in Venues
  BY <1>1, <1>2, LegVenues
<1>4. LegStep(l)
  BY <1>1, <1>2, <1>3, LegSteps
<1> HIDE DEF l
<1>5. /\ UNCHANGED <<sellFirst, quotes, opp, enabled, trades, scenario, updated, now>>
      /\ Kept(pair, pair') /\ EmptyUntilUpdated'
      /\ \A v \in Venues \ {l.venue} : HedgeQuotes'[v] = HedgeQuotes[v]
      /\ Count(pair', Opposite(l.side)) = Count(pair, Opposite(l.side))
      /\ LegMissed(l) \/ LegTaken(l)
  BY <1>4 DEF LegStep
<1>6. SimTypeOK'
  BY <1>1, <1>4, LegTyped
<1>7. Planned' /\ Starting' /\ HedgeStates'
  BY <1>1 DEF Planned, Starting, HedgeStates
<1>8. /\ pair'.bought \in Nat /\ pair'.sold \in Nat /\ sellFirst \in BOOLEAN /\ opp.qty \in Int
      /\ pair.bought \in Nat /\ pair.sold \in Nat
  BY <1>1, <1>5 DEF Kept, SimPairs, SimTypeOK, Opportunities
<1>9. CleanLegs'
  <2> SUFFICES ASSUME scenario \in {"clean", "delayed_ack"}, pair'.error = "none"
               PROVE  pair'.bought > 0 /\ pair'.sold = pair'.bought /\ pair'.attempts = 0
    BY <1>1, <1>5 DEF CleanLegs
  <2>1. LegTaken(l)
    BY <1>5 DEF LegMissed
  <2>2. /\ pair.error = "none" /\ opp.qty > 0
        /\ Count(pair', l.side) = Count(pair, l.side) + opp.qty
    BY <2>1 DEF LegTaken
  <2>3. (IF sellFirst THEN pair.sold ELSE pair.bought) = opp.qty
    BY <1>1, <2>2 DEF SimInv, CleanLegs
  <2> QED BY <1>2, <1>3, <1>5, <1>8, <2>2, <2>3 DEF Count, Opposite, Kept
<1>10. NseLegLost'
  <2> SUFFICES ASSUME pair'.error = "GATEWAY_DISCONNECT"
               PROVE  /\ scenario = "gateway_disconnect_nse"
                      /\ pair'.buy_venue # pair'.sell_venue
                      /\ pair'.buy_venue = "NSE" => pair'.bought = 0
                      /\ pair'.sell_venue = "NSE" => pair'.sold = 0
                      /\ valid(HedgeQuotes'["NSE"]) /\ HedgeQuotes'["NSE"].age <= MaxBookAge
                      /\ MaxOrderQty > 0
    BY <1>1, <1>5 DEF NseLegLost
  <2>1. CASE LegMissed(l)
    <3>1. l.venue = "NSE" /\ scenario = "gateway_disconnect_nse"
      BY <2>1 DEF LegMissed, disconnected
    <3>2. Count(pair', l.side) = Count(pair, l.side)
      BY <2>1 DEF LegMissed
    <3>3. /\ pair'.buy_venue = "NSE" => pair'.bought = 0
          /\ pair'.sell_venue = "NSE" => pair'.sold = 0
      BY <1>2, <1>3, <1>5, <3>1, <3>2 DEF Count, Kept
    <3> QED BY <1>2, <1>3, <1>5, <2>1, <3>1, <3>3 DEF LegMissed, Kept
  <2>2. CASE LegTaken(l)
    <3>1. pair.error = "GATEWAY_DISCONNECT" /\ ~disconnected(l.venue)
      BY <2>2 DEF LegTaken
    <3>2. /\ scenario = "gateway_disconnect_nse"
          /\ pair.buy_venue = "NSE" => pair.bought = 0
          /\ pair.sell_venue = "NSE" => pair.sold = 0
          /\ valid(HedgeQuotes["NSE"]) /\ HedgeQuotes["NSE"].age <= MaxBookAge
          /\ MaxOrderQty > 0
      BY <1>1, <3>1 DEF SimInv, NseLegLost
    <3>3. l.venue # "NSE"
      BY <3>1, <3>2 DEF disconnected
    <3>4. HedgeQuotes'["NSE"] = HedgeQuotes["NSE"]
      BY <1>5, <3>3 DEF Venues
    <3>5. /\ pair'.buy_venue = "NSE" => pair'.bought = 0
          /\ pair'.sell_venue = "NSE" => pair'.sold = 0
      BY <1>2, <1>3, <1>5, <3>2, <3>3 DEF Count, Opposite, Kept
    <3> QED BY <1>2, <1>3, <1>5, <3>2, <3>4, <3>5 DEF Kept
  <2> QED BY <1>5, <2>1, <2>2
<1>11. Killed'
  <2> SUFFICES ASSUME scenario = "manual_kill"
               PROVE  ~enabled /\ pair'.bought = 0 /\ pair'.sold = 0
    BY <1>5 DEF Killed
  <2>1. ~enabled /\ pair.bought = 0 /\ pair.sold = 0
    BY DEF SimInv, Killed
  <2>2. LegMissed(l)
    BY <1>5, <2>1 DEF LegTaken
  <2> QED BY <1>3, <1>5, <2>1, <2>2 DEF LegMissed, Count, Opposite
<1> QED BY <1>5, <1>6, <1>7, <1>9, <1>10, <1>11 DEF SimInv
-----------------------------------------------------------------------------
(* The initial states, and the events of the feed.                         *)
LEMMA SimInvInit == SimInit => SimInv
<1> SUFFICES ASSUME SimInit PROVE SimInv
  OBVIOUS
<1>1. PICK i \in Instruments : pair = [NewPair(i, "NSE", "BSE") EXCEPT !.state = "Flat"]
  BY DEF SimInit, Init
<1>2. /\ pair \in Pairs /\ pair.bought = 0 /\ pair.sold = 0 /\ pair.error = "none"
  <2>1. /\ NewPair(i, "NSE", "BSE") \in Pairs /\ NewPair(i, "NSE", "BSE").error = "none"
        /\ NewPair(i, "NSE", "BSE").bought = 0 /\ NewPair(i, "NSE", "BSE").sold = 0
    BY NewPairFacts DEF Venues, NewPair
  <2> QED BY <1>1, <2>1 DEF Pairs, PairStates
<1>3. pair \in SimPairs
  BY <1>2 DEF Pairs, SimPairs
<1>4. pc = "idle" /\ trades = 0
  BY DEF SimInit, Init
<1>5. quotes \in [Venues -> BestQuote] /\ opp \in Opportunities
  BY DEF SimInit, Init, NoQuotes, NoQuote, BestQuote, NoOpp, Opportunities, Venues
<1>6. /\ book \in [Venues -> [Instruments -> [Sides -> Ladder]]]
      /\ updated \in [Venues -> [Instruments -> Nat]] /\ now \in Nat
  BY DEF SimInit, Ladder
<1>7. SimTypeOK
  BY <1>3, <1>4, <1>5, <1>6 DEF SimInit, Init, SimTypeOK
<1>8. EmptyUntilUpdated
  BY DEF SimInit, EmptyUntilUpdated
<1>9. Planned /\ Starting /\ HedgeStates /\ CleanLegs /\ NseLegLost
  BY <1>2, <1>4 DEF Planned, Starting, HedgeStates, CleanLegs, NseLegLost
<1>10. Killed
  BY <1>2 DEF SimInit, Killed
<1> QED BY <1>7, <1>8, <1>9, <1>10 DEF SimInv

LEMMA QuotesTyped ==
  ASSUME NEW i \in Instruments, NEW b \in [Venues -> [Instruments -> [Sides -> Ladder]]],
         NEW u \in [Venues -> [Instruments -> Nat]], NEW t \in Nat
  PROVE  QuotesOf(i, b, u, t) \in [Venues -> BestQuote]
<1>1. ASSUME NEW v \in Venues PROVE quote(b[v][i], u[v][i], t) \in BestQuote
  <2>1. b[v][i] \in [Sides -> Ladder] /\ u[v][i] \in Nat
    OBVIOUS
  <2> QED BY <2>1, QuoteFacts
<1> QED BY <1>1 DEF QuotesOf

LEMMA UpdateKeeps ==
  ASSUME SimTypeOK, EmptyUntilUpdated, NEW v \in Venues, NEW i \in Instruments,
         NEW b \in Books, NEW t \in 1..MaxTime, Update(v, i, b, t)
  PROVE  /\ book' \in [Venues -> [Instruments -> [Sides -> Ladder]]]
         /\ updated' \in [Venues -> [Instruments -> Nat]] /\ now' = t /\ t \in Nat
         /\ EmptyUntilUpdated' /\ UNCHANGED <<scenario, rejects>> /\ pc = "idle"
<1>1. /\ book' = [book EXCEPT ![v][i] = b] /\ updated' = [updated EXCEPT ![v][i] = t]
      /\ now' = t /\ UNCHANGED <<scenario, rejects>> /\ pc = "idle"
  BY DEF Update
<1>2. b \in [Sides -> Ladder] /\ t \in Nat /\ t # 0
  BY SimulatorAssumption
<1>3. /\ book \in [Venues -> [Instruments -> [Sides -> Ladder]]]
      /\ updated \in [Venues -> [Instruments -> Nat]]
  BY DEF SimTypeOK
<1>4. /\ book' \in [Venues -> [Instruments -> [Sides -> Ladder]]]
      /\ updated' \in [Venues -> [Instruments -> Nat]]
  BY <1>1, <1>2, <1>3
<1>5. EmptyUntilUpdated'
  <2> SUFFICES ASSUME NEW w \in Venues, NEW j \in Instruments, updated'[w][j] = 0,
                      NEW s \in Sides, NEW p \in Prices
               PROVE  book'[w][j][s][p] = 0
    BY DEF EmptyUntilUpdated
  <2>1. ~(w = v /\ j = i)
    BY <1>1, <1>2, <1>3
  <2>2. book'[w][j] = book[w][j] /\ updated'[w][j] = updated[w][j]
    BY <1>1, <1>3, <2>1
  <2> QED BY <2>2 DEF EmptyUntilUpdated
<1> QED BY <1>1, <1>2, <1>4, <1>5

LEMMA EventKeeps ==
  ASSUME SimInv, Event
  PROVE  SimInv'
<1>1. PICK v \in Venues, i \in Instruments, b \in Books, t \in 1..MaxTime :
        EventTrade(v, i, b, t) \/ EventPassed(v, i, b, t)
  BY DEF Event
<1>2. SimTypeOK /\ EmptyUntilUpdated
  BY DEF SimInv
<1>3. Update(v, i, b, t)
  BY <1>1 DEF EventTrade, EventPassed
<1>4. /\ book' \in [Venues -> [Instruments -> [Sides -> Ladder]]]
      /\ updated' \in [Venues -> [Instruments -> Nat]] /\ now' = t /\ t \in Nat
      /\ EmptyUntilUpdated' /\ UNCHANGED <<scenario, rejects>> /\ pc = "idle"
  BY <1>2, <1>3, UpdateKeeps
<1>5. CASE EventTrade(v, i, b, t)
  <2> DEFINE q == QuotesOf(i, book', updated', t)
  <2>1. /\ quotes' = q /\ opp' = best_opportunity(q) /\ pc' = "first"
        /\ pair' = NewPair(i, opp'.buy_venue, opp'.sell_venue)
        /\ UNCHANGED <<sellFirst, net, enabled, trades>>
    BY <1>5 DEF EventTrade, BeginTrade
  <2>2. q \in [Venues -> BestQuote]
    BY <1>4, QuotesTyped
  <2> HIDE DEF q
  <2>3. opp' \in Opportunities /\ opp'.buy_venue \in Venues /\ opp'.sell_venue \in Venues
    BY <2>1, <2>2, OpportunityFacts DEF Opportunities
  <2>4. /\ pair' \in Pairs /\ pair'.instrument = i /\ pair'.bought = 0 /\ pair'.sold = 0
        /\ pair'.attempts = 0 /\ pair'.error = "none"
        /\ pair'.buy_venue = opp'.buy_venue /\ pair'.sell_venue = opp'.sell_venue
    BY <2>1, <2>3, NewPairFacts DEF NewPair
  <2>5. pair' \in SimPairs
    BY <2>4 DEF Pairs, SimPairs
  <2>6. SimTypeOK'
    BY <1>2, <1>4, <2>1, <2>2, <2>3, <2>5 DEF SimTypeOK
  <2>7. HedgeQuotes' = q
    BY <1>4, <2>4 DEF HedgeQuotes, q
  <2>8. Planned' /\ Starting'
    BY <2>1, <2>4, <2>7 DEF Planned, Starting, Current
  <2>9. CleanLegs' /\ NseLegLost' /\ HedgeStates'
    BY <2>1, <2>4 DEF CleanLegs, NseLegLost, HedgeStates
  <2>10. Killed'
    BY <1>4, <2>1, <2>4 DEF SimInv, Killed
  <2> QED BY <1>4, <2>6, <2>8, <2>9, <2>10 DEF SimInv
<1>6. CASE EventPassed(v, i, b, t)
  <2>1. UNCHANGED vars
    BY <1>6 DEF EventPassed
  <2>2. UNCHANGED <<pc, sellFirst, quotes, opp, pair, net, enabled, trades>>
    BY <2>1 DEF vars
  <2>3. SimTypeOK'
    BY <1>2, <1>4, <2>2 DEF SimTypeOK
  <2>4. Planned' /\ Starting' /\ HedgeStates'
    BY <1>4, <2>2 DEF Planned, Starting, HedgeStates
  <2>5. CleanLegs' /\ NseLegLost' /\ Killed'
    BY <1>4, <2>2 DEF SimInv, CleanLegs, NseLegLost, Killed
  <2> QED BY <1>4, <2>3, <2>4, <2>5 DEF SimInv
<1> QED BY <1>1, <1>5, <1>6
-----------------------------------------------------------------------------
(* Settling a trade and the turns of hedge_until_flat.                     *)
LEMMA SimStateFields ==
  ASSUME NEW p \in SimPairs, NEW st \in PairStates
  PROVE  LET r == [p EXCEPT !.state = st]
         IN  /\ Kept(p, r) /\ r.bought = p.bought /\ r.sold = p.sold
             /\ r.state = st /\ r.error = p.error
BY DEF SimPairs, Kept

(* The end of execute_opportunity, from either of its two returns.         *)
LEMMA SimReturnKeeps ==
  ASSUME SimInv, Return, pc # "idle", NEW st \in PairStates, pair' = [pair EXCEPT !.state = st],
         UNCHANGED <<sellFirst, net, enabled, market>>,
         residual(pair) = 0 => st = "Flat",
         residual(pair) # 0 => st \in {"ErrorRecovery", "KillSwitch"},
         scenario \in {"clean", "delayed_ack"} /\ pair.error = "none" =>
           residual(pair) = 0 /\ pair.bought > 0 /\ pair.attempts = 0
  PROVE  SimInv'
<1>1. /\ UNCHANGED <<sellFirst, net, enabled, scenario, rejects, book, updated, now>>
      /\ pc' = "idle" /\ trades' = trades + 1 /\ quotes' = NoQuotes /\ opp' = NoOpp
      /\ SimTypeOK /\ EmptyUntilUpdated
  BY DEF SimInv, Return, market
<1>2. /\ Kept(pair, pair') /\ pair'.bought = pair.bought /\ pair'.sold = pair.sold
      /\ pair'.state = st /\ pair'.error = pair.error
      /\ pair.bought \in Nat /\ pair.sold \in Nat
      /\ pair.buy_venue \in Venues /\ pair.sell_venue \in Venues
  <2>1. pair \in SimPairs
    BY <1>1 DEF SimTypeOK
  <2>2. pair.bought \in Nat /\ pair.sold \in Nat
        /\ pair.buy_venue \in Venues /\ pair.sell_venue \in Venues
    BY <2>1 DEF SimPairs
  <2> QED BY <2>1, <2>2, SimStateFields
<1>3. quotes' \in [Venues -> BestQuote] /\ opp' \in Opportunities
  BY <1>1 DEF NoQuotes, NoQuote, BestQuote, NoOpp, Opportunities, Venues
<1>4. SimTypeOK'
  BY <1>1, <1>2, <1>3 DEF SimTypeOK, Kept
<1>5. Planned' /\ Starting' /\ HedgeStates' /\ EmptyUntilUpdated'
  BY <1>1 DEF Planned, Starting, HedgeStates, EmptyUntilUpdated
<1>6. Killed'
  BY <1>1, <1>2 DEF SimInv, Killed
<1>7. CleanLegs'
  BY <1>1, <1>2 DEF CleanLegs, Kept
<1>8. NseLegLost'
  <2> SUFFICES ASSUME pair.error = "GATEWAY_DISCONNECT", pair.bought + pair.sold > 0
               PROVE  st \in {"ErrorRecovery", "KillSwitch"}
    BY <1>1, <1>2 DEF NseLegLost
  <2>1. /\ pair.buy_venue # pair.sell_venue
        /\ pair.buy_venue = "NSE" => pair.bought = 0
        /\ pair.sell_venue = "NSE" => pair.sold = 0
    BY DEF SimInv, NseLegLost
  <2>2. pair.bought = 0 \/ pair.sold = 0
    BY <1>2, <2>1 DEF Venues
  <2>3. residual(pair) # 0
    BY <1>2, <2>2 DEF residual
  <2> QED BY <2>3
<1> QED BY <1>4, <1>5, <1>6, <1>7, <1>8 DEF SimInv

LEMMA SimSettleKeeps ==
  ASSUME SimInv, Settle
  PROVE  SimInv'
<1>1. UNCHANGED market /\ SimTypeOK /\ pair \in SimPairs
  BY DEF Settle, SimInv, SimTypeOK
<1>2. CASE SettleFlat
  <2>1. /\ pc = "settle" /\ residual(pair) = 0 /\ Return /\ "Flat" \in PairStates
        /\ pair' = [pair EXCEPT !.state = "Flat"]
        /\ UNCHANGED <<sellFirst, net, enabled>>
    BY <1>2 DEF SettleFlat, PairStates
  <2>2. scenario \in {"clean", "delayed_ack"} /\ pair.error = "none" =>
           pair.bought > 0 /\ pair.attempts = 0
    BY <2>1 DEF SimInv, CleanLegs
  <2>3. UNCHANGED <<sellFirst, net, enabled, market>>
    BY <1>1, <2>1
  <2> QED BY <2>1, <2>2, <2>3, SimReturnKeeps
<1>3. CASE SettleOpen
  <2>1. /\ pc = "settle" /\ pc' = "hedge" /\ residual(pair) # 0
        /\ pair' = [pair EXCEPT !.state = "Hedging"]
        /\ UNCHANGED <<sellFirst, quotes, opp, net, enabled, trades>>
        /\ UNCHANGED <<scenario, rejects, book, updated, now>>
    BY <1>1, <1>3 DEF SettleOpen, market
  <2>2. /\ Kept(pair, pair') /\ pair'.bought = pair.bought /\ pair'.sold = pair.sold
        /\ pair'.state = "Hedging" /\ pair'.error = pair.error
        /\ pair.bought \in Nat /\ pair.sold \in Nat
    <3>1. pair.bought \in Nat /\ pair.sold \in Nat /\ "Hedging" \in PairStates
      BY <1>1 DEF SimPairs, PairStates
    <3> QED BY <1>1, <2>1, <3>1, SimStateFields
  <2>3. SimTypeOK'
    BY <1>1, <2>1, <2>2 DEF SimTypeOK, Kept
  <2>4. HedgeQuotes' = HedgeQuotes
    BY <2>1, <2>2 DEF HedgeQuotes, Kept
  <2>5. EmptyUntilUpdated' /\ Planned' /\ Starting' /\ HedgeStates' /\ Killed'
    BY <2>1, <2>2 DEF SimInv, EmptyUntilUpdated, Planned, Starting, HedgeStates, Killed
  <2>6. CleanLegs'
    <3>1. ~(scenario \in {"clean", "delayed_ack"} /\ pair.error = "none")
      BY <2>1, <2>2 DEF SimInv, CleanLegs, residual
    <3> QED BY <2>1, <2>2, <3>1 DEF CleanLegs
  <2>7. NseLegLost'
    BY <2>1, <2>2, <2>4 DEF SimInv, NseLegLost, Kept
  <2> QED BY <2>3, <2>5, <2>6, <2>7 DEF SimInv
<1> QED BY <1>2, <1>3 DEF Settle

LEMMA SimHedgeDoneKeeps ==
  ASSUME SimInv, SimHedgeDone
  PROVE  SimInv'
<1> DEFINE st == IF residual(pair) = 0 THEN "Flat"
                 ELSE IF pair.state = "Hedging" THEN "ErrorRecovery" ELSE pair.state
<1>1. /\ pc = "hedge" /\ Return /\ pair' = [pair EXCEPT !.state = st]
      /\ UNCHANGED <<sellFirst, net, enabled>> /\ UNCHANGED market
  BY DEF SimHedgeDone, HedgeDone
<1>2. residual(pair) # 0 => pair.state \in {"Hedging", "ErrorRecovery", "KillSwitch"}
  BY <1>1 DEF SimInv, HedgeStates
<1>3. /\ st \in PairStates /\ (residual(pair) = 0 => st = "Flat")
      /\ residual(pair) # 0 => st \in {"ErrorRecovery", "KillSwitch"}
  BY <1>2 DEF PairStates
<1>4. ~(scenario \in {"clean", "delayed_ack"} /\ pair.error = "none")
  BY <1>1 DEF SimInv, CleanLegs
<1> HIDE DEF st
<1>5. UNCHANGED <<sellFirst, net, enabled, market>>
  BY <1>1
<1> QED BY <1>1, <1>3, <1>4, <1>5, SimReturnKeeps
-----------------------------------------------------------------------------
(* HedgePolicy does not look at a pair's error or state.                   *)
SameToPolicy(p, r) ==
  /\ r.bought = p.bought /\ r.sold = p.sold /\ r.attempts = p.attempts
  /\ r.bought_notional = p.bought_notional /\ r.sold_notional = p.sold_notional
  /\ r.buy_venue = p.buy_venue /\ r.sell_venue = p.sell_venue

LEMMA SameDecision ==
  ASSUME NEW p, NEW r, SameToPolicy(p, r), NEW q
  PROVE  next_order(r, q) = next_order(p, q)
<1>1. residual(r) = residual(p) /\ avg_buy_px(r) = avg_buy_px(p) /\ avg_sell_px(r) = avg_sell_px(p)
  BY DEF SameToPolicy, residual, avg_buy_px, avg_sell_px
<1>2. ASSUME NEW v, NEW a PROVE HedgeIntent(r, v, a) = HedgeIntent(p, v, a)
  BY <1>1 DEF HedgeIntent
<1>3. ASSUME NEW o PROVE HedgeLoss(r, o) = HedgeLoss(p, o)
  BY <1>1 DEF HedgeLoss
<1>4. ASSUME NEW v, NEW a PROVE candidate_for_venue(r, v, a) = candidate_for_venue(p, v, a)
  BY <1>2, <1>3 DEF candidate_for_venue
<1>5. /\ r.attempts = p.attempts
      /\ r.buy_venue = p.buy_venue /\ r.sell_venue = p.sell_venue
  BY DEF SameToPolicy
<1> DEFINE v == IF residual(p) > 0 THEN p.sell_venue ELSE p.buy_venue
           w == other_venue(v)
           From(d1, d2) ==
             IF residual(p) = 0 THEN Decision(FALSE, FALSE, NoIntent, "ALREADY_FLAT")
             ELSE IF p.attempts >= MaxHedgeAttempts
                  THEN Decision(FALSE, TRUE, NoIntent, "MAX_HEDGE_ATTEMPTS")
             ELSE IF d1.should_send \/ d1.kill THEN d1
             ELSE IF d2.should_send \/ d2.kill THEN d2
             ELSE Decision(FALSE, TRUE, NoIntent, "NO_SAFE_HEDGE_QUOTE")
<1>6. next_order(p, q) = From(candidate_for_venue(p, v, q[v]), candidate_for_venue(p, w, q[w]))
  BY DEF next_order
<1>7. next_order(r, q) = From(candidate_for_venue(r, v, q[v]), candidate_for_venue(r, w, q[w]))
  BY <1>1, <1>5 DEF next_order
<1>8. /\ candidate_for_venue(r, v, q[v]) = candidate_for_venue(p, v, q[v])
      /\ candidate_for_venue(r, w, q[w]) = candidate_for_venue(p, w, q[w])
  BY <1>4
<1> HIDE DEF From
<1> QED BY <1>6, <1>7, <1>8

(* A pair as the policy sees it, without the gateway's error.              *)
Plain(p) == [p EXCEPT !.error = "none"]

LEMMA PlainPair ==
  ASSUME NEW p \in SimPairs
  PROVE  /\ Plain(p) \in Pairs /\ SameToPolicy(p, Plain(p)) /\ residual(Plain(p)) = residual(p)
         /\ \A v, q : HedgeIntent(Plain(p), v, q) = HedgeIntent(p, v, q)
<1>1. "none" \in Errors
  BY DEF Errors
<1>2. Plain(p) \in Pairs /\ SameToPolicy(p, Plain(p))
  BY <1>1 DEF Plain, Pairs, SimPairs, SameToPolicy
<1>3. residual(Plain(p)) = residual(p)
  BY <1>2 DEF SameToPolicy, residual
<1> QED BY <1>2, <1>3 DEF HedgeIntent

(* The order a turn of the loop proposes, at the quotes it has just read.  *)
LEMMA SimNextOrder ==
  ASSUME SimTypeOK, LoopGuard, NEW q \in [Venues -> BestQuote]
  PROVE  LET d == next_order(pair, q)
             v == d.intent.venue
         IN  /\ d.should_send =>
                  /\ d.intent \in OrderIntent /\ d.intent.qty > 0 /\ valid(q[v])
                  /\ d.intent.side = IF residual(pair) > 0 THEN "Sell" ELSE "Buy"
                  /\ d.intent.qty <= IF residual(pair) > 0 THEN residual(pair) ELSE -residual(pair)
                  /\ d.intent.px = IF residual(pair) > 0 THEN q[v].bid_px ELSE q[v].ask_px
                  /\ d.intent.qty <= IF residual(pair) > 0 THEN q[v].bid_qty ELSE q[v].ask_qty
             /\ ~d.should_send => /\ d.kill
                                  /\ d.reason \in {"MAX_HEDGE_LOSS", "NO_SAFE_HEDGE_QUOTE"}
<1> DEFINE d == next_order(pair, q)
           v == d.intent.venue
           r == residual(pair)
<1>1. pair \in SimPairs /\ r # 0 /\ pair.attempts < MaxHedgeAttempts
  BY DEF SimTypeOK, LoopGuard
<1>2. /\ Plain(pair) \in Pairs /\ d = next_order(Plain(pair), q) /\ residual(Plain(pair)) = r
      /\ \A w, x : HedgeIntent(Plain(pair), w, x) = HedgeIntent(pair, w, x)
      /\ Plain(pair).attempts = pair.attempts
  BY <1>1, PlainPair, SameDecision DEF SameToPolicy
<1>3. /\ d.should_send => /\ d.intent \in OrderIntent
                          /\ d.intent = HedgeIntent(pair, v, q[v])
                          /\ d.intent.qty > 0 /\ valid(q[v])
      /\ ~d.should_send => /\ d.kill
                           /\ d.reason \in {"MAX_HEDGE_LOSS", "NO_SAFE_HEDGE_QUOTE"}
  BY <1>1, <1>2, NextOrderFacts
<1> HIDE DEF d
<1>4. ASSUME d.should_send
      PROVE  LET o == d.intent
             IN  /\ o.side = IF r > 0 THEN "Sell" ELSE "Buy"
                 /\ o.qty <= IF r > 0 THEN r ELSE -r
                 /\ o.px = IF r > 0 THEN q[v].bid_px ELSE q[v].ask_px
                 /\ o.qty <= IF r > 0 THEN q[v].bid_qty ELSE q[v].ask_qty
  <2>1. v \in Venues /\ q[v] \in BestQuote
    BY <1>3, <1>4 DEF OrderIntent
  <2>2. q[v].bid_qty \in Int /\ q[v].ask_qty \in Int /\ r \in Int /\ MaxOrderQty \in Int
    BY <1>1, <2>1, RiskConfigAssumption DEF BestQuote, residual, SimPairs
  <2> HIDE DEF v, r
  <2>3. d.intent = IF r > 0
                   THEN [venue |-> v, side |-> "Sell", px |-> q[v].bid_px,
                         qty |-> Lesser(r, Lesser(q[v].bid_qty, MaxOrderQty))]
                   ELSE [venue |-> v, side |-> "Buy", px |-> q[v].ask_px,
                         qty |-> Lesser(-r, Lesser(q[v].ask_qty, MaxOrderQty))]
    BY <1>3, <1>4 DEF HedgeIntent, r
  <2> QED BY <2>2, <2>3 DEF Lesser
<1> QED BY <1>3, <1>4 DEF d, v

(* The hedge of a leg the disconnected NSE lost goes to the NSE.           *)
LEMMA NsePreferred ==
  ASSUME SimInv, pc = "hedge", LoopGuard, pair.error = "GATEWAY_DISCONNECT",
         next_order(pair, HedgeQuotes).should_send
  PROVE  next_order(pair, HedgeQuotes).intent.venue = "NSE"
<1> DEFINE q == HedgeQuotes["NSE"]
           r == residual(pair)
           preferred == IF r > 0 THEN pair.sell_venue ELSE pair.buy_venue
           fallback == other_venue(preferred)
           d1 == candidate_for_venue(pair, preferred, HedgeQuotes[preferred])
           d2 == candidate_for_venue(pair, fallback, HedgeQuotes[fallback])
           o == HedgeIntent(pair, "NSE", q)
<1>1. /\ pair.buy_venue # pair.sell_venue
      /\ pair.buy_venue = "NSE" => pair.bought = 0
      /\ pair.sell_venue = "NSE" => pair.sold = 0
      /\ valid(q) /\ q.age <= MaxBookAge /\ MaxOrderQty > 0
  BY DEF SimInv, NseLegLost
<1>2. /\ pair.bought \in Nat /\ pair.sold \in Nat /\ r \in Int /\ pair.attempts \in Int
      /\ pair.buy_venue \in Venues /\ pair.sell_venue \in Venues
      /\ r # 0 /\ pair.attempts < MaxHedgeAttempts /\ q \in BestQuote
  <2>1. HedgeQuotes \in [Venues -> BestQuote] /\ pair \in SimPairs
    BY HedgeQuotesTyped DEF SimInv, SimTypeOK
  <2> QED BY <2>1 DEF LoopGuard, SimPairs, residual, Venues
<1>3. preferred = "NSE"
  BY <1>1, <1>2 DEF Venues, residual
<1>4. ~(pair.attempts >= MaxHedgeAttempts)
  BY <1>2, RiskConfigAssumption
<1>5. next_order(pair, HedgeQuotes) =
        IF d1.should_send \/ d1.kill THEN d1
        ELSE IF d2.should_send \/ d2.kill THEN d2
        ELSE Decision(FALSE, TRUE, NoIntent, "NO_SAFE_HEDGE_QUOTE")
  BY <1>2, <1>4, Zenon DEF next_order
<1>6. o.qty > 0 /\ o.qty \in Int /\ o.venue = "NSE"
  <2>1. /\ q.bid_qty > 0 /\ q.ask_qty > 0 /\ q.bid_qty \in Int /\ q.ask_qty \in Int
        /\ MaxOrderQty \in Int
    BY <1>1, <1>2, RiskConfigAssumption DEF valid, BestQuote
  <2> HIDE DEF q, r
  <2>2. o = IF r > 0
            THEN [venue |-> "NSE", side |-> "Sell", px |-> q.bid_px,
                  qty |-> Lesser(r, Lesser(q.bid_qty, MaxOrderQty))]
            ELSE [venue |-> "NSE", side |-> "Buy", px |-> q.ask_px,
                  qty |-> Lesser(-r, Lesser(q.ask_qty, MaxOrderQty))]
    BY DEF HedgeIntent, r
  <2> QED BY <1>1, <1>2, <2>1, <2>2 DEF Lesser
<1>7. d1 = candidate_for_venue(pair, "NSE", q)
  BY <1>3
<1>8. q.age \in Int /\ MaxBookAge \in Int
  BY <1>2, RiskConfigAssumption DEF BestQuote
<1> HIDE DEF d1, d2, o, q
<1>9. d1 = Decision(TRUE, FALSE, o, "HEDGE_ORDER")
      \/ d1 = Decision(FALSE, TRUE, NoIntent, "MAX_HEDGE_LOSS")
  <2>1. ~(q.age > MaxBookAge) /\ ~(o.qty <= 0)
    BY <1>1, <1>6, <1>8
  <2> QED BY <1>1, <1>7, <2>1, Zenon DEF candidate_for_venue, o
<1> QED BY <1>5, <1>6, <1>9 DEF Decision

LEMMA SimHedgeStopKeeps ==
  ASSUME SimInv, SimHedgeStop
  PROVE  SimInv'
<1> DEFINE d == next_order(pair, HedgeQuotes)
<1>1. /\ pc = "hedge" /\ LoopGuard /\ ~d.should_send
      /\ pair' = [pair EXCEPT !.state = IF d.kill THEN "KillSwitch" ELSE "ErrorRecovery",
                              !.error = d.reason]
      /\ enabled' = (enabled /\ ~d.kill)
      /\ UNCHANGED <<pc, sellFirst, quotes, opp, net, trades>>
      /\ UNCHANGED <<scenario, rejects, book, updated, now>>
  BY DEF SimHedgeStop, HedgeStop, market
<1>2. SimTypeOK /\ HedgeQuotes \in [Venues -> BestQuote] /\ pair \in SimPairs
  BY HedgeQuotesTyped DEF SimInv, SimTypeOK
<1>3. d.kill /\ d.reason \in {"MAX_HEDGE_LOSS", "NO_SAFE_HEDGE_QUOTE"}
  BY <1>1, <1>2, SimNextOrder
<1> HIDE DEF d
<1>4. pair' = [pair EXCEPT !.state = "KillSwitch", !.error = d.reason] /\ enabled' = FALSE
  BY <1>1, <1>3
<1>5. d.reason \in Errors /\ d.reason # "none" /\ d.reason # "GATEWAY_DISCONNECT"
      /\ "KillSwitch" \in PairStates
  BY <1>3 DEF Errors, PairStates
<1>6. /\ Kept(pair, pair') /\ pair'.bought = pair.bought /\ pair'.sold = pair.sold
      /\ pair'.state = "KillSwitch" /\ pair'.error = d.reason
  BY <1>2, <1>4, <1>5 DEF SimPairs, Kept
<1>7. SimTypeOK'
  BY <1>1, <1>2, <1>4, <1>6 DEF SimTypeOK, Kept
<1>8. EmptyUntilUpdated' /\ Planned' /\ Starting' /\ HedgeStates' /\ Killed'
  BY <1>1, <1>4, <1>6 DEF SimInv, EmptyUntilUpdated, Planned, Starting, HedgeStates, Killed
<1>9. CleanLegs' /\ NseLegLost'
  BY <1>5, <1>6 DEF CleanLegs, NseLegLost
<1> QED BY <1>7, <1>8, <1>9 DEF SimInv

(* A turn that sends: refused, lost at the gateway, or filled.             *)
SimHedgeOrder == WithRole(next_order(pair, HedgeQuotes).intent, "Hedge")

LEMMA SimHedgeOrderFacts ==
  ASSUME SimInv, pc = "hedge", LoopGuard, next_order(pair, HedgeQuotes).should_send
  PROVE  LET o == SimHedgeOrder
             d == next_order(pair, HedgeQuotes).intent
         IN  /\ o \in SimOrders /\ o.role = "Hedge" /\ o.qty \in Nat /\ o.qty > 0
             /\ d.venue = o.venue /\ d.side = o.side /\ d.px = o.px /\ d.qty = o.qty
             /\ o.side = IF residual(pair) > 0 THEN "Sell" ELSE "Buy"
             /\ o.qty <= IF residual(pair) > 0 THEN residual(pair) ELSE -residual(pair)
             /\ TopOfBook(o) /\ updated[o.venue][pair.instrument] # 0
<1> DEFINE d == next_order(pair, HedgeQuotes).intent
           o == SimHedgeOrder
           v == d.venue
           q == HedgeQuotes
           r == residual(pair)
<1>1. SimTypeOK /\ EmptyUntilUpdated /\ q \in [Venues -> BestQuote]
  BY HedgeQuotesTyped DEF SimInv
<1>2. /\ d \in OrderIntent /\ d.qty > 0 /\ valid(q[v])
      /\ d.side = IF r > 0 THEN "Sell" ELSE "Buy"
      /\ d.qty <= IF r > 0 THEN r ELSE -r
      /\ d.px = IF r > 0 THEN q[v].bid_px ELSE q[v].ask_px
      /\ d.qty <= IF r > 0 THEN q[v].bid_qty ELSE q[v].ask_qty
  BY <1>1, SimNextOrder
<1>3. o = WithRole(d, "Hedge")
  BY DEF SimHedgeOrder
<1> HIDE DEF d, o, r, q
<1>4. /\ o \in SimOrders /\ o.role = "Hedge" /\ o.qty \in Nat /\ o.qty > 0
      /\ d.venue = o.venue /\ d.side = o.side /\ d.px = o.px /\ d.qty = o.qty
  BY <1>2, <1>3 DEF WithRole, SimOrders, OrderIntent
<1>5. /\ o.side = "Buy" => o.px = q[o.venue].ask_px /\ o.qty <= q[o.venue].ask_qty
      /\ o.side = "Sell" => o.px = q[o.venue].bid_px /\ o.qty <= q[o.venue].bid_qty
  BY <1>2, <1>4
<1>6. TopOfBook(o) /\ updated[o.venue][pair.instrument] # 0
  BY <1>1, <1>2, <1>4, <1>5, OrderAtTop DEF q
<1> QED BY <1>2, <1>4, <1>6 DEF o, d, r

(* What a turn that sends leaves.                                          *)
HedgeTurn(o) ==
  LET rule == Check(o, HedgeQuotes[o.venue])
  IN  /\ pc = "hedge" /\ LoopGuard /\ next_order(pair, HedgeQuotes).should_send
      /\ UNCHANGED <<pc, sellFirst, quotes, opp, enabled, sec, trades, carry, scenario, updated, now>>
      /\ Account(rule)
      /\ rule # "APPROVED" => HedgeRefused(rule)
      /\ rule = "APPROVED" => /\ Fillable(o) \in 0..o.qty /\ SentTo(o, TakenAt(o, Fillable(o)))
                              /\ HedgeLost(o) \/ HedgeFilled(o)

LEMMA SimHedgeSends ==
  ASSUME SimInv, SimHedgeSend
  PROVE  HedgeTurn(SimHedgeOrder)
<1> DEFINE o == SimHedgeOrder
<1>1. /\ pc = "hedge" /\ LoopGuard /\ next_order(pair, HedgeQuotes).should_send
      /\ HedgeOne(o)
      /\ UNCHANGED <<pc, sellFirst, quotes, opp, enabled, sec, trades, carry, scenario, updated, now>>
  BY DEF SimHedgeSend, SimHedgeOrder
<1>2. o \in SimOrders /\ TopOfBook(o) /\ SimTypeOK
  BY <1>1, SimHedgeOrderFacts DEF SimInv
<1> HIDE DEF o
<1>3. LET rule == Check(o, HedgeQuotes[o.venue])
      IN  /\ Account(rule)
          /\ rule # "APPROVED" => HedgeRefused(rule)
          /\ rule = "APPROVED" =>
               /\ Fillable(o) \in 0..o.qty /\ SentTo(o, TakenAt(o, Fillable(o)))
               /\ HedgeLost(o) \/ HedgeFilled(o)
  BY <1>1, <1>2, HedgeOutcome
<1> QED BY <1>1, <1>3 DEF HedgeTurn, o

LEMMA TriedFields ==
  ASSUME NEW p \in SimPairs, p.attempts < MaxHedgeAttempts
  PROVE  LET r == [p EXCEPT !.attempts = @ + 1]
         IN  /\ r \in SimPairs /\ r.instrument = p.instrument /\ r.attempts = p.attempts + 1
             /\ r.buy_venue = p.buy_venue /\ r.sell_venue = p.sell_venue
             /\ r.bought = p.bought /\ r.sold = p.sold /\ r.state = p.state /\ r.error = p.error
<1>1. p.attempts + 1 \in 0..MaxHedgeAttempts
  BY RiskConfigAssumption DEF SimPairs
<1> QED BY <1>1 DEF SimPairs

LEMMA SimHedgeSendKeeps ==
  ASSUME SimInv, SimHedgeSend
  PROVE  SimInv'
<1> DEFINE o == SimHedgeOrder
           rule == Check(o, HedgeQuotes[o.venue])
           n == Fillable(o)
<1>1. /\ pc = "hedge" /\ LoopGuard /\ next_order(pair, HedgeQuotes).should_send
      /\ UNCHANGED <<pc, sellFirst, quotes, opp, enabled, trades, scenario, updated, now>>
      /\ rule # "APPROVED" => HedgeRefused(rule)
      /\ rule = "APPROVED" => /\ n \in 0..o.qty /\ SentTo(o, TakenAt(o, n))
                              /\ HedgeLost(o) \/ HedgeFilled(o)
  BY SimHedgeSends DEF HedgeTurn
<1>2. /\ o \in SimOrders /\ o.role = "Hedge" /\ o.qty \in Nat /\ TopOfBook(o)
      /\ o.venue = next_order(pair, HedgeQuotes).intent.venue
      /\ o.side \in Sides /\ o.venue \in Venues /\ o.px \in Int
  BY <1>1, SimHedgeOrderFacts DEF SimOrders
<1> HIDE DEF o, rule, n
<1>3. /\ SimTypeOK /\ EmptyUntilUpdated /\ pair \in SimPairs
      /\ residual(pair) # 0 /\ pair.attempts < MaxHedgeAttempts /\ pair.state = "Hedging"
  BY <1>1 DEF SimInv, SimTypeOK, LoopGuard
<1>4. /\ Tried \in SimPairs /\ Tried.instrument = pair.instrument
      /\ Tried.buy_venue = pair.buy_venue /\ Tried.sell_venue = pair.sell_venue
      /\ Tried.bought = pair.bought /\ Tried.sold = pair.sold
      /\ Tried.state = pair.state /\ Tried.error = pair.error
  BY <1>3, TriedFields DEF Tried
<1>5. Planned' /\ Starting'
  BY <1>1 DEF Planned, Starting
<1>6. scenario # "manual_kill"
  <2>1. pair.bought \in Nat /\ pair.sold \in Nat
    BY <1>3 DEF SimPairs
  <2> QED BY <1>3, <2>1 DEF SimInv, Killed, residual
<1>7. Killed'
  BY <1>1, <1>6 DEF Killed
<1>8. scenario \in {"clean", "delayed_ack"} => pair.error # "none"
  BY <1>1 DEF SimInv, CleanLegs
<1>9. ASSUME pair'.error \in {pair.error} \cup Rules PROVE CleanLegs'
  <2>1. "none" \notin Rules
    BY DEF Rules
  <2> QED BY <1>1, <1>8, <1>9, <2>1 DEF CleanLegs
<1>10. CASE rule # "APPROVED"
  <2>1. /\ pair' = [Tried EXCEPT !.state = "ErrorRecovery", !.error = rule]
        /\ net' = net /\ book' = book /\ rejects' = rejects
    BY <1>1, <1>10 DEF HedgeRefused
  <2>2. rule \in Rules
    BY <1>10, CheckRange DEF Check, rule
  <2>3. rule \in Errors /\ rule # "GATEWAY_DISCONNECT" /\ "ErrorRecovery" \in PairStates
    BY <2>2 DEF Errors, Rules, PairStates
  <2>4. pair' \in SimPairs /\ pair'.state = "ErrorRecovery" /\ pair'.error = rule
    <3> HIDE DEF Tried
    <3> QED BY <1>4, <2>1, <2>3 DEF SimPairs
  <2>5. SimTypeOK'
    BY <1>1, <1>3, <2>1, <2>4 DEF SimTypeOK
  <2>6. EmptyUntilUpdated' /\ HedgeStates' /\ NseLegLost'
    BY <1>1, <1>3, <2>1, <2>3, <2>4 DEF EmptyUntilUpdated, HedgeStates, NseLegLost
  <2> QED BY <1>5, <1>7, <1>9, <2>2, <2>4, <2>5, <2>6 DEF SimInv
<1>11. ASSUME rule = "APPROVED"
       PROVE  /\ book' \in [Venues -> [Instruments -> [Sides -> Ladder]]]
              /\ rejects' \subseteq rejects /\ EmptyUntilUpdated'
              /\ n = 0 => book' = book
  <2>1. /\ book' \in [Venues -> [Instruments -> [Sides -> Ladder]]]
        /\ rejects' \subseteq rejects /\ (n = 0 => book' = book)
        /\ \A v \in Venues, i \in Instruments, s \in Sides, p \in Prices :
             book'[v][i][s][p] <= book[v][i][s][p]
    BY <1>1, <1>2, <1>3, <1>11, SentBook
  <2>2. EmptyUntilUpdated'
    BY <1>1, <1>3, <2>1, StillEmpty
  <2> QED BY <2>1, <2>2
<1>12. CASE rule = "APPROVED" /\ HedgeLost(o)
  <2>1. n = 0 /\ net' = net /\ pair' = Tried /\ book' = book
    BY <1>11, <1>12 DEF HedgeLost, n
  <2>2. SimTypeOK'
    BY <1>1, <1>3, <1>4, <1>11, <1>12, <2>1 DEF SimTypeOK
  <2>3. HedgeQuotes' = HedgeQuotes
    BY <1>1, <1>4, <2>1 DEF HedgeQuotes
  <2>4. HedgeStates'
    BY <1>3, <1>4, <2>1 DEF HedgeStates
  <2>5. NseLegLost'
    BY <1>1, <1>4, <2>1, <2>3 DEF SimInv, NseLegLost
  <2> QED BY <1>4, <1>5, <1>7, <1>9, <1>11, <1>12, <2>1, <2>2, <2>4, <2>5 DEF SimInv
<1>13. CASE rule = "APPROVED" /\ HedgeFilled(o)
  <2>1. n > 0 /\ net' = PositionAfter(o, n) /\ pair' = apply_fill(Tried, o.side, n, o.px * n)
    BY <1>13 DEF HedgeFilled, n
  <2>2. n \in Nat /\ o.px * n \in Int
    <3>1. n \in Nat
      BY <1>1, <1>2, <1>13
    <3> QED BY <1>2, <3>1
  <2>3. /\ Kept(Tried, pair') /\ pair'.error = Tried.error
        /\ pair'.state = IF residual(pair') = 0 THEN "Flat" ELSE "Hedging"
    <3> HIDE DEF Tried
    <3> QED BY <1>2, <1>4, <2>1, <2>2, SimApplyFill
  <2>4. net' \in [Instruments -> Int]
    BY <1>3, <2>1, <2>2, PositionTyped
  <2>5. SimTypeOK'
    BY <1>1, <1>3, <1>11, <1>13, <2>3, <2>4 DEF SimTypeOK, Kept
  <2>6. pair.error # "GATEWAY_DISCONNECT"
    <3> SUFFICES ASSUME pair.error = "GATEWAY_DISCONNECT" PROVE FALSE
      OBVIOUS
    <3>1. o.venue = "NSE"
      BY <1>1, <1>2, NsePreferred
    <3>2. scenario = "gateway_disconnect_nse"
      BY <1>1 DEF SimInv, NseLegLost
    <3>3. n = 0
      BY <3>1, <3>2 DEF n, Fillable, disconnected
    <3> QED BY <2>1, <3>3
  <2>7. HedgeStates' /\ NseLegLost'
    BY <1>4, <2>3, <2>6 DEF HedgeStates, NseLegLost
  <2> QED BY <1>4, <1>5, <1>7, <1>9, <1>11, <1>13, <2>3, <2>5, <2>7 DEF SimInv
<1> QED BY <1>1, <1>10, <1>12, <1>13

LEMMA SimInvNext == SimInv /\ [SimNext]_simVars => SimInv'
<1> SUFFICES ASSUME SimInv, [SimNext]_simVars PROVE SimInv'
  OBVIOUS
<1>1. CASE Event
  BY <1>1, EventKeeps
<1>2. CASE SimSendFirst
  BY <1>2, SimSendFirstKeeps
<1>3. CASE SimSendSecond
  BY <1>3, SimSendSecondKeeps
<1>4. CASE Settle
  BY <1>4, SimSettleKeeps
<1>5. CASE SimHedgeStop
  BY <1>5, SimHedgeStopKeeps
<1>6. CASE SimHedgeSend
  BY <1>6, SimHedgeSendKeeps
<1>7. CASE SimHedgeDone
  BY <1>7, SimHedgeDoneKeeps
<1>8. CASE UNCHANGED simVars
  <2>1. /\ UNCHANGED <<pc, sellFirst, quotes, opp, pair, net, enabled, trades>>
        /\ UNCHANGED <<scenario, rejects, book, updated, now>>
    BY <1>8 DEF simVars, vars, market
  <2>2. HedgeQuotes' = HedgeQuotes /\ FirstLeg' = FirstLeg /\ SecondLeg' = SecondLeg
    BY <2>1 DEF HedgeQuotes, FirstLeg, SecondLeg, BuyLeg, SellLeg
  <2>3. SimTypeOK' /\ EmptyUntilUpdated'
    BY <2>1 DEF SimInv, SimTypeOK, EmptyUntilUpdated
  <2>4. Planned' /\ Starting' /\ HedgeStates'
    BY <2>1, <2>2 DEF SimInv, Planned, Starting, HedgeStates, Current
  <2>5. CleanLegs' /\ NseLegLost' /\ Killed'
    BY <2>1, <2>2 DEF SimInv, CleanLegs, NseLegLost, Killed
  <2> QED BY <2>3, <2>4, <2>5 DEF SimInv
<1> QED BY <1>1, <1>2, <1>3, <1>4, <1>5, <1>6, <1>7, <1>8 DEF SimNext, SimExecute

(* The relations between books, quotes, legs and faults are inductive.     *)
THEOREM SimInvariance == SimSpec => []SimInv
<1>1. SimInit => SimInv
  BY SimInvInit
<1>2. SimInv /\ [SimNext]_simVars => SimInv'
  BY SimInvNext
<1> QED BY <1>1, <1>2, PTL DEF SimSpec

(* The verdicts of the scenario suite hold of every trade: fault-free legs *)
(* that pass the risk check cancel out without a hedge, a leg lost to the  *)
(* disconnected NSE never passes for flat, and after the manual kill       *)
(* execute_opportunity trades nothing.                                     *)
THEOREM VerdictHolds == SimSpec => []ScenarioVerdict
<1>1. SimInv => ScenarioVerdict
  BY DEF SimInv, CleanLegs, NseLegLost, Killed, ScenarioVerdict
<1> QED BY <1>1, SimInvariance, PTL
-----------------------------------------------------------------------------
(* Only a connected venue matters to a hedge: no scenario rejects or caps  *)
(* one, and the book it was priced from holds its shares.                  *)
LEMMA HedgeFills ==
  ASSUME SimTypeOK, NEW o, o.role = "Hedge", updated[o.venue][pair.instrument] # 0,
         scenario # "gateway_disconnect_nse"
  PROVE  Fillable(o) = o.qty
<1>1. "Hedge" \notin rejects
  BY DEF SimTypeOK, reject_roles_once
<1> QED BY <1>1 DEF Fillable, disconnected, cap_fill_qty

LEMMA HedgeTakes ==
  ASSUME SimInv, SimHedgeSend, pair'.state # "ErrorRecovery", scenario # "gateway_disconnect_nse"
  PROVE  Abs(residual(pair')) < Abs(residual(pair))
<1> DEFINE o == SimHedgeOrder
           rule == Check(o, HedgeQuotes[o.venue])
           n == Fillable(o)
           r == residual(pair)
<1>1. /\ pc = "hedge" /\ LoopGuard /\ next_order(pair, HedgeQuotes).should_send
      /\ rule # "APPROVED" => HedgeRefused(rule)
      /\ rule = "APPROVED" => HedgeLost(o) \/ HedgeFilled(o)
  BY SimHedgeSends DEF HedgeTurn
<1>2. /\ o \in SimOrders /\ o.role = "Hedge" /\ o.qty \in Nat /\ o.qty > 0
      /\ updated[o.venue][pair.instrument] # 0
      /\ o.side = IF r > 0 THEN "Sell" ELSE "Buy"
      /\ o.qty <= IF r > 0 THEN r ELSE -r
      /\ o.side \in Sides /\ o.px \in Int
  BY <1>1, SimHedgeOrderFacts DEF SimOrders
<1> HIDE DEF o, rule, n
<1>3. /\ SimTypeOK /\ pair \in SimPairs /\ r # 0 /\ pair.attempts < MaxHedgeAttempts
      /\ pair.bought \in Nat /\ pair.sold \in Nat
  <2>1. pair \in SimPairs
    BY DEF SimInv, SimTypeOK
  <2> QED BY <1>1, <2>1 DEF SimInv, LoopGuard, SimPairs
<1>4. Tried \in SimPairs /\ Tried.bought = pair.bought /\ Tried.sold = pair.sold
  BY <1>3, TriedFields DEF Tried
<1>5. n = o.qty
  BY <1>2, <1>3, HedgeFills DEF n
<1>6. rule = "APPROVED"
  <2> SUFFICES ASSUME rule # "APPROVED" PROVE FALSE
    OBVIOUS
  <2>1. pair' = [Tried EXCEPT !.state = "ErrorRecovery", !.error = rule]
    BY <1>1 DEF HedgeRefused
  <2>2. pair'.state = "ErrorRecovery"
    <3> HIDE DEF Tried
    <3> QED BY <1>4, <2>1 DEF SimPairs
  <2> QED BY <2>2
<1>7. HedgeFilled(o)
  BY <1>1, <1>2, <1>5, <1>6 DEF HedgeLost, n
<1>8. pair' = apply_fill(Tried, o.side, n, o.px * n)
  BY <1>7 DEF HedgeFilled, n
<1>9. o.px * n \in Int /\ n \in Nat
  BY <1>2, <1>5
<1>10. /\ Count(pair', o.side) = Count(Tried, o.side) + n
       /\ Count(pair', Opposite(o.side)) = Count(Tried, Opposite(o.side))
  <2> HIDE DEF Tried
  <2> QED BY <1>2, <1>4, <1>8, <1>9, SimApplyFill
<1>11. r = pair.bought - pair.sold
  BY DEF residual
<1> HIDE DEF r, Tried
<1>12. CASE r > 0
  <2>1. pair'.sold = pair.sold + n /\ pair'.bought = pair.bought
    BY <1>2, <1>4, <1>10, <1>12 DEF Count, Opposite
  <2>2. residual(pair') = r - n
    BY <1>3, <1>9, <1>11, <2>1 DEF residual
  <2> QED BY <1>2, <1>3, <1>5, <1>9, <1>11, <1>12, <2>2 DEF Abs, r
<1>13. CASE r < 0
  <2>0. o.side = "Buy" /\ o.qty <= -r
    BY <1>2, <1>3, <1>11, <1>13
  <2>1. pair'.bought = pair.bought + n /\ pair'.sold = pair.sold
    BY <1>4, <1>10, <2>0 DEF Count, Opposite
  <2>2. residual(pair') = r + n
    BY <1>3, <1>9, <1>11, <2>1 DEF residual
  <2> QED BY <1>2, <1>3, <1>5, <1>9, <1>11, <1>13, <2>0, <2>2 DEF Abs, r
<1> QED BY <1>3, <1>11, <1>12, <1>13

(* Every other step leaves the number of attempts or starts a new pair.    *)
LEMMA AttemptsOnlyHedge ==
  ASSUME SimInv, [SimNext]_simVars, ~SimHedgeSend
  PROVE  ~(pair'.attempts > pair.attempts)
<1>1. /\ pair \in SimPairs /\ pair.attempts \in Nat /\ SimTypeOK /\ EmptyUntilUpdated
  BY RiskConfigAssumption DEF SimInv, SimTypeOK, SimPairs
<1>2. CASE Event
  <2>1. PICK v \in Venues, i \in Instruments, b \in Books, t \in 1..MaxTime :
          EventTrade(v, i, b, t) \/ EventPassed(v, i, b, t)
    BY <1>2 DEF Event
  <2>2. pair'.attempts = 0 \/ pair' = pair
    BY <2>1 DEF EventTrade, EventPassed, BeginTrade, NewPair, vars
  <2> QED BY <1>1, <2>2
<1>3. CASE SimSendFirst
  <2>1. /\ SimSendOne(Leg(FirstLeg)) /\ opp = best_opportunity(quotes) /\ Current(FirstLeg.venue)
    BY <1>3 DEF SimSendFirst, SimInv, Planned, Starting
  <2>2. Kept(pair, pair')
    BY <1>1, <2>1, LegVenues, LegSteps DEF LegStep
  <2> QED BY <1>1, <2>2 DEF Kept
<1>4. CASE SimSendSecond
  <2>1. /\ SimSendOne(Leg(SecondLeg)) /\ opp = best_opportunity(quotes) /\ Current(SecondLeg.venue)
    BY <1>4 DEF SimSendSecond, SimInv, Planned
  <2>2. Kept(pair, pair')
    BY <1>1, <2>1, LegVenues, LegSteps DEF LegStep
  <2> QED BY <1>1, <2>2 DEF Kept
<1>5. CASE Settle \/ SimHedgeStop \/ SimHedgeDone \/ UNCHANGED simVars
  <2>1. \/ \E st : pair' = [pair EXCEPT !.state = st]
        \/ \E st, e : pair' = [pair EXCEPT !.state = st, !.error = e]
        \/ pair' = pair
    BY <1>5 DEF Settle, SettleFlat, SettleOpen, SimHedgeStop, HedgeStop, SimHedgeDone, HedgeDone,
                simVars, vars
  <2>2. pair'.attempts = pair.attempts
    BY <1>1, <2>1 DEF SimPairs
  <2> QED BY <1>1, <2>2
<1> QED BY <1>2, <1>3, <1>4, <1>5 DEF SimNext, SimExecute

(* Every hedge that passes RiskEngine takes something off the residual,    *)
(* unless its venue is disconnected: hedge_until_flat spends no attempt on *)
(* an order MatchingEngine cannot fill.                                    *)
THEOREM HedgesCount == SimSpec => NoWastedHedge
<1>1. SimInv /\ [SimNext]_simVars =>
        [pair'.attempts > pair.attempts /\ pair'.state # "ErrorRecovery"
           /\ scenario # "gateway_disconnect_nse"
         => Abs(residual(pair')) < Abs(residual(pair))]_simVars
  BY HedgeTakes, AttemptsOnlyHedge
<1> QED BY <1>1, SimInvariance, PTL DEF SimSpec, NoWastedHedge
-----------------------------------------------------------------------------
(* The copies of the core's operators that ImplementsCore uses.            *)
LEMMA CoreArithmetic ==
  ASSUME NEW p, NEW a, NEW b
  PROVE  /\ Abstract!residual(p) = residual(p) /\ Abstract!Lesser(a, b) = Lesser(a, b)
         /\ Abstract!avg_buy_px(p) = avg_buy_px(p) /\ Abstract!avg_sell_px(p) = avg_sell_px(p)
         /\ Abstract!valid(a) = valid(a) /\ Abstract!other_venue(a) = other_venue(a)
BY DEF Abstract!residual, residual, Abstract!Lesser, Lesser, Abstract!avg_buy_px, avg_buy_px,
       Abstract!avg_sell_px, avg_sell_px, Abstract!valid, valid, Abstract!other_venue, other_venue

LEMMA CorePair ==
  ASSUME NEW p, NEW i, NEW v, NEW w, NEW side, NEW n, NEW m, NEW reason
  PROVE  /\ Abstract!NewPair(i, v, w) = NewPair(i, v, w)
         /\ Abstract!apply_fill(p, side, n, m) = apply_fill(p, side, n, m)
         /\ Abstract!mark_leg_failed(p, reason) = mark_leg_failed(p, reason)
<1>1. Abstract!AddFill(p, side, n, m) = AddFill(p, side, n, m)
  BY DEF Abstract!AddFill, AddFill
<1>2. Abstract!residual(p) = residual(p)
      /\ Abstract!residual(AddFill(p, side, n, m)) = residual(AddFill(p, side, n, m))
  BY CoreArithmetic
<1>3. Abstract!NewPair(i, v, w) = NewPair(i, v, w)
  BY DEF Abstract!NewPair, NewPair
<1>4. Abstract!apply_fill(p, side, n, m) = apply_fill(p, side, n, m)
  BY <1>1, <1>2 DEF Abstract!apply_fill, apply_fill
<1>5. Abstract!mark_leg_failed(p, reason) = mark_leg_failed(p, reason)
  BY <1>2 DEF Abstract!mark_leg_failed, mark_leg_failed
<1> QED BY <1>3, <1>4, <1>5

LEMMA CoreCheck ==
  ASSUME NEW o, NEW q, NEW e, NEW n, NEW b, NEW s, NEW rule
  PROVE  /\ Abstract!check_order(o, q, e, n, b, s) = check_order(o, q, e, n, b, s)
         /\ Abstract!BucketAfter(rule, b, s) = BucketAfter(rule, b, s)
<1>1. Abstract!valid(q) = valid(q) /\ Abstract!Roll(b, s) = Roll(b, s)
  BY CoreArithmetic DEF Abstract!Roll, Roll
<1>2. Abstract!Allow(b, s) = Allow(b, s) /\ Abstract!signed_effect(o) = signed_effect(o)
      /\ Abstract!InsideBand(o, q) = InsideBand(o, q)
  BY <1>1 DEF Abstract!Allow, Allow, Abstract!signed_effect, signed_effect,
              Abstract!InsideBand, InsideBand
<1>3. Abstract!InsidePosition(o, n) = InsidePosition(o, n)
  BY <1>2 DEF Abstract!InsidePosition, InsidePosition
<1>4. Abstract!check_order(o, q, e, n, b, s) = check_order(o, q, e, n, b, s)
  BY <1>1, <1>2, <1>3 DEF Abstract!check_order, check_order
<1>5. Abstract!BucketAfter(rule, b, s) = BucketAfter(rule, b, s)
  BY <1>1 DEF Abstract!BucketAfter, BucketAfter
<1> QED BY <1>4, <1>5

LEMMA CoreStrategy ==
  ASSUME NEW q
  PROVE  /\ Abstract!best_opportunity(q) = best_opportunity(q)
         /\ Abstract!should_trade(q) = should_trade(q)
<1>1. Abstract!all_in_cost = all_in_cost /\ Abstract!threshold = threshold
      /\ Abstract!Venues = Venues
  BY DEF Abstract!all_in_cost, all_in_cost, Abstract!threshold, threshold, Abstract!Venues, Venues
<1>2. ASSUME NEW v, NEW w PROVE Abstract!try_direction(v, w, q) = try_direction(v, w, q)
  BY <1>1, CoreArithmetic DEF Abstract!try_direction, try_direction
<1>3. Abstract!best_opportunity(q) = best_opportunity(q)
  BY <1>2 DEF Abstract!best_opportunity, best_opportunity
<1> QED BY <1>1, <1>3, CoreArithmetic DEF Abstract!should_trade, should_trade

LEMMA CorePolicy ==
  ASSUME NEW p, NEW q
  PROVE  Abstract!next_order(p, q) = next_order(p, q)
<1>1. /\ Abstract!residual(p) = residual(p) /\ Abstract!avg_buy_px(p) = avg_buy_px(p)
      /\ Abstract!avg_sell_px(p) = avg_sell_px(p) /\ Abstract!NoIntent = NoIntent
      /\ \A sends, kill, intent, reason :
           Abstract!Decision(sends, kill, intent, reason) = Decision(sends, kill, intent, reason)
  BY CoreArithmetic DEF Abstract!NoIntent, NoIntent, Abstract!Decision, Decision
<1>2. ASSUME NEW v, NEW a PROVE Abstract!HedgeIntent(p, v, a) = HedgeIntent(p, v, a)
  BY <1>1, CoreArithmetic DEF Abstract!HedgeIntent, HedgeIntent
<1>3. ASSUME NEW o PROVE Abstract!HedgeLoss(p, o) = HedgeLoss(p, o)
  BY <1>1 DEF Abstract!HedgeLoss, HedgeLoss
<1>4. ASSUME NEW v, NEW a
      PROVE  Abstract!candidate_for_venue(p, v, a) = candidate_for_venue(p, v, a)
  <2>1. Abstract!valid(a) = valid(a) /\ Abstract!HedgeIntent(p, v, a) = HedgeIntent(p, v, a)
        /\ Abstract!HedgeLoss(p, HedgeIntent(p, v, a)) = HedgeLoss(p, HedgeIntent(p, v, a))
    BY <1>2, <1>3, CoreArithmetic
  <2> QED BY <1>1, <2>1 DEF Abstract!candidate_for_venue, candidate_for_venue
<1> DEFINE v == IF residual(p) > 0 THEN p.sell_venue ELSE p.buy_venue
           w == other_venue(v)
           From(d1, d2) ==
             IF residual(p) = 0 THEN Decision(FALSE, FALSE, NoIntent, "ALREADY_FLAT")
             ELSE IF p.attempts >= MaxHedgeAttempts
                  THEN Decision(FALSE, TRUE, NoIntent, "MAX_HEDGE_ATTEMPTS")
             ELSE IF d1.should_send \/ d1.kill THEN d1
             ELSE IF d2.should_send \/ d2.kill THEN d2
             ELSE Decision(FALSE, TRUE, NoIntent, "NO_SAFE_HEDGE_QUOTE")
<1>5. next_order(p, q) = From(candidate_for_venue(p, v, q[v]), candidate_for_venue(p, w, q[w]))
  BY DEF next_order
<1>6. Abstract!other_venue(v) = w
  BY CoreArithmetic
<1>7. Abstract!next_order(p, q) =
        From(Abstract!candidate_for_venue(p, v, q[v]), Abstract!candidate_for_venue(p, w, q[w]))
  BY <1>1, <1>6 DEF Abstract!next_order
<1> HIDE DEF From
<1> QED BY <1>4, <1>5, <1>7

(* The pair of the core: the gateway's errors are one to it.               *)
CoreError(e) == IF e \in GatewayErrors THEN "NOT_FILLED" ELSE e

LEMMA AbstractFields ==
  ASSUME NEW p \in SimPairs
  PROVE  LET a == [p EXCEPT !.error = CoreError(p.error)]
         IN  /\ a \in Pairs /\ SameToPolicy(p, a) /\ residual(a) = residual(p)
             /\ a.instrument = p.instrument /\ a.state = p.state /\ a.error = CoreError(p.error)
<1>1. CoreError(p.error) \in Errors
  BY DEF SimPairs, Errors, CoreError
<1>2. LET a == [p EXCEPT !.error = CoreError(p.error)]
      IN  /\ a \in Pairs /\ SameToPolicy(p, a)
          /\ a.instrument = p.instrument /\ a.state = p.state /\ a.error = CoreError(p.error)
  BY <1>1 DEF SimPairs, Pairs, SameToPolicy
<1> QED BY <1>2 DEF SameToPolicy, residual

Core(p) == [p EXCEPT !.error = CoreError(p.error)]

LEMMA AbstractIsCore ==
  AbstractPair = Core(pair) /\ AbstractPair' = Core(pair')
BY DEF AbstractPair, Core, CoreError

(* The assignments to a pair's fields, by name.                            *)
InState(p, st) == [p EXCEPT !.state = st]
Ended(p, st, e) == [p EXCEPT !.state = st, !.error = e]
OneMoreTry(p) == [p EXCEPT !.attempts = @ + 1]

LEMMA CoreStates ==
  ASSUME NEW p \in SimPairs, NEW st, NEW e
  PROVE  /\ Core(InState(p, st)) = InState(Core(p), st)
         /\ Core(Ended(p, st, e)) = Ended(Core(p), st, CoreError(e))
         /\ Core(OneMoreTry(p)) = OneMoreTry(Core(p))
<1> DEFINE c == CoreError(p.error)
           d == CoreError(e)
<1>1. Core(p) = [p EXCEPT !.error = c]
  BY DEF Core
<1>2. Core(InState(p, st)) = [p EXCEPT !.state = st, !.error = c]
  BY DEF Core, SimPairs, InState
<1>3. Core(Ended(p, st, e)) = [p EXCEPT !.state = st, !.error = d]
  BY DEF Core, SimPairs, Ended
<1>4. Core(OneMoreTry(p)) = [p EXCEPT !.attempts = @ + 1, !.error = c]
  BY DEF Core, SimPairs, OneMoreTry
<1> HIDE DEF c, d
<1>5. InState(Core(p), st) = [p EXCEPT !.state = st, !.error = c]
  BY <1>1 DEF SimPairs, InState
<1>6. Ended(Core(p), st, d) = [p EXCEPT !.state = st, !.error = d]
  BY <1>1 DEF SimPairs, Ended
<1>7. OneMoreTry(Core(p)) = [p EXCEPT !.attempts = @ + 1, !.error = c]
  BY <1>1 DEF SimPairs, OneMoreTry
<1> QED BY <1>2, <1>3, <1>4, <1>5, <1>6, <1>7 DEF d

LEMMA CoreFailed ==
  ASSUME NEW p \in SimPairs, NEW reason
  PROVE  Core(mark_leg_failed(p, reason)) = mark_leg_failed(Core(p), CoreError(reason))
<1> DEFINE st == IF residual(p) = 0 THEN "Flat" ELSE "Hedging"
<1>1. mark_leg_failed(p, reason) = Ended(p, st, reason)
  BY DEF mark_leg_failed, SimPairs, Ended
<1>2. residual(Core(p)) = residual(p)
  BY AbstractFields DEF Core
<1>3. mark_leg_failed(Core(p), CoreError(reason)) = Ended(Core(p), st, CoreError(reason))
  <2>1. Core(p) \in Pairs
    BY AbstractFields DEF Core
  <2> HIDE DEF st
  <2> QED BY <1>2, <2>1 DEF mark_leg_failed, Pairs, Ended, st
<1> HIDE DEF st
<1> QED BY <1>1, <1>3, CoreStates

LEMMA CoreFill ==
  ASSUME NEW p \in SimPairs, NEW side \in Sides, NEW n \in Nat, NEW m \in Int
  PROVE  Core(apply_fill(p, side, n, m)) = apply_fill(Core(p), side, n, m)
<1> DEFINE c == CoreError(p.error)
           f == AddFill(p, side, n, m)
           g == AddFill(Core(p), side, n, m)
<1>1. Core(p) \in Pairs /\ Core(p) = [p EXCEPT !.error = c] /\ SameToPolicy(p, Core(p))
  BY AbstractFields DEF Core
<1>2. f \in SimPairs /\ f.error = p.error /\ g = [f EXCEPT !.error = c]
  <2> HIDE DEF c
  <2>1. CASE side = "Buy"
    <3>1. f = [p EXCEPT !.bought = @ + n, !.bought_notional = @ + m]
      BY <2>1 DEF AddFill
    <3>2. g = [Core(p) EXCEPT !.bought = @ + n, !.bought_notional = @ + m]
      BY <2>1 DEF AddFill
    <3>3. p.bought + n \in Nat /\ p.bought_notional + m \in Int
      BY DEF SimPairs
    <3> HIDE DEF f, g
    <3> QED BY <1>1, <3>1, <3>2, <3>3 DEF SimPairs
  <2>2. CASE side = "Sell"
    <3>1. f = [p EXCEPT !.sold = @ + n, !.sold_notional = @ + m]
      BY <2>2 DEF AddFill
    <3>2. g = [Core(p) EXCEPT !.sold = @ + n, !.sold_notional = @ + m]
      BY <2>2 DEF AddFill
    <3>3. p.sold + n \in Nat /\ p.sold_notional + m \in Int
      BY DEF SimPairs
    <3> HIDE DEF f, g
    <3> QED BY <1>1, <3>1, <3>2, <3>3 DEF SimPairs
  <2> QED BY <2>1, <2>2 DEF Sides
<1> DEFINE st == IF residual(f) = 0 THEN "Flat" ELSE "Hedging"
<1>3. apply_fill(p, side, n, m) = InState(f, st)
  BY DEF apply_fill, InState
<1>4. g = Core(f)
  <2> HIDE DEF f, g
  <2> QED BY <1>2 DEF Core
<1>5. residual(g) = residual(f)
  <2> HIDE DEF f, g
  <2> QED BY <1>2, <1>4, AbstractFields DEF Core
<1>6. apply_fill(Core(p), side, n, m) = InState(g, st)
  BY <1>5 DEF apply_fill, InState
<1>7. Core(InState(f, st)) = InState(Core(f), st)
  <2> HIDE DEF f, st
  <2> QED BY <1>2, CoreStates
<1> QED BY <1>3, <1>4, <1>6, <1>7

(* The rules of RiskEngine and the reasons of HedgePolicy are themselves.  *)
LEMMA CoreReasons ==
  /\ \A e \in Rules \cup {"none", "MAX_HEDGE_LOSS", "NO_SAFE_HEDGE_QUOTE"} : CoreError(e) = e
  /\ \A e \in GatewayErrors : CoreError(e) = "NOT_FILLED"
BY DEF Rules, GatewayErrors, CoreError
-----------------------------------------------------------------------------
(* Each step of the simulator is a step of the core.                       *)
LEMMA CoreOrders ==
  ASSUME SimTypeOK, NEW o, NEW l, NEW q, NEW n, NEW rule,
         o.venue = l.venue, o.side = l.side, o.px = l.px, o.qty = l.qty
  PROVE  /\ Abstract!Check(l, q) = Check(o, q)
         /\ Abstract!Account(rule) = Account(rule)
         /\ Abstract!PositionAfter(l, n) = PositionAfter(o, n)
<1>1. AbstractPair.instrument = pair.instrument
  BY AbstractIsCore, AbstractFields DEF Core, SimTypeOK
<1>2. /\ InsidePosition(l, net[pair.instrument]) = InsidePosition(o, net[pair.instrument])
      /\ InsideBand(l, q) = InsideBand(o, q)
  BY DEF InsidePosition, signed_effect, InsideBand
<1>3. \A b, s : check_order(l, q, enabled, net[pair.instrument], b, s) =
                check_order(o, q, enabled, net[pair.instrument], b, s)
  BY <1>2 DEF check_order
<1>4. Abstract!Check(l, q) = Check(o, q)
  BY <1>1, <1>3, CoreCheck DEF Abstract!Check, Check
<1>5. Abstract!Account(rule) = Account(rule)
  BY <1>1, CoreCheck DEF Abstract!Account, Account
<1>6. Abstract!PositionAfter(l, n) = PositionAfter(o, n)
  BY <1>1 DEF Abstract!PositionAfter, PositionAfter
<1> QED BY <1>4, <1>5, <1>6

(* With nothing better than the limit a fill is worth its limit price.     *)
LEMMA CoreNotional ==
  ASSUME NEW l, l.px \in Int, NEW n \in Nat
  PROVE  Abstract!Notional(l, n, 0) = l.px * n /\ 0 \in 0..(n * 0)
BY DEF Abstract!Notional

LEMMA CoreSend ==
  ASSUME SimTypeOK, EmptyUntilUpdated, opp = best_opportunity(quotes),
         NEW l \in {BuyLeg, SellLeg}, Current(l.venue), SimSendOne(Leg(l))
  PROVE  Abstract!SendOne(l)
<1> DEFINE o == Leg(l)
           rule == Check(o, quotes[o.venue])
           n == Fillable(o)
<1>1. /\ o \in SimOrders /\ o.venue = l.venue /\ o.side = l.side /\ o.px = l.px
      /\ o.qty = opp.qty /\ l.qty = opp.qty
      /\ rule = "APPROVED" => TopOfBook(o)
  BY LegReady DEF BuyLeg, SellLeg
<1>2. /\ Account(rule)
      /\ UNCHANGED <<sellFirst, quotes, opp, enabled, sec, trades, carry>>
      /\ rule # "APPROVED" => LegRefused(rule)
      /\ rule = "APPROVED" => /\ n \in 0..o.qty
                              /\ LegLost(o) \/ LegFilled(o)
  BY <1>1, LegOutcome
<1>3. pair \in SimPairs /\ l.side \in Sides /\ l.px \in Int /\ l.qty \in Int
  BY <1>1 DEF SimTypeOK, SimOrders
<1>4. /\ Abstract!Check(l, quotes[l.venue]) = rule /\ Abstract!Account(rule) = Account(rule)
      /\ Abstract!PositionAfter(l, n) = PositionAfter(o, n)
  <2> HIDE DEF o, n
  <2> QED BY <1>1, CoreOrders DEF rule
<1> HIDE DEF o, rule, n
<1> DEFINE Refused == /\ rule # "APPROVED"
                      /\ AbstractPair' = Abstract!mark_leg_failed(AbstractPair, rule)
                      /\ net' = net
           Lost == /\ rule = "APPROVED"
                   /\ AbstractPair' = Abstract!mark_leg_failed(AbstractPair, "NOT_FILLED")
                   /\ net' = net
           Taking(f, better) ==
             /\ AbstractPair' = Abstract!apply_fill(AbstractPair, l.side, f,
                                                    Abstract!Notional(l, f, better))
             /\ net' = Abstract!PositionAfter(l, f)
           Took == /\ rule = "APPROVED"
                   /\ \E f \in 1..l.qty : \E better \in 0..(f * 0) : Taking(f, better)
<1>5. ASSUME rule # "APPROVED" PROVE Refused
  <2>1. rule \in Rules
    BY <1>5, CheckRange DEF Check, rule
  <2>2. pair' = mark_leg_failed(pair, rule) /\ net' = net
    BY <1>2, <1>5 DEF LegRefused
  <2>3. Core(pair') = mark_leg_failed(Core(pair), rule)
    BY <1>3, <2>1, <2>2, CoreFailed, CoreReasons
  <2> QED BY <1>5, <2>2, <2>3, AbstractIsCore, CorePair
<1>6. ASSUME rule = "APPROVED", LegLost(o) PROVE Lost
  <2>1. PICK reason \in GatewayErrors : pair' = mark_leg_failed(pair, reason)
    BY <1>6 DEF LegLost
  <2>2. Core(pair') = mark_leg_failed(Core(pair), "NOT_FILLED")
    BY <1>3, <2>1, CoreFailed, CoreReasons
  <2>3. net' = net
    BY <1>6 DEF LegLost
  <2> QED BY <1>6, <2>2, <2>3, AbstractIsCore, CorePair
<1>7. ASSUME rule = "APPROVED", LegFilled(o) PROVE Took
  <2>1. n > 0 /\ net' = PositionAfter(o, n) /\ pair' = apply_fill(pair, l.side, n, l.px * n)
    BY <1>1, <1>7 DEF LegFilled, n
  <2>2. n \in 1..l.qty /\ n \in Nat /\ l.px * n \in Int
    <3>1. n \in 1..l.qty /\ n \in Nat
      BY <1>1, <1>2, <1>3, <1>7, <2>1
    <3> QED BY <1>3, <3>1
  <2>3. Core(pair') = apply_fill(Core(pair), l.side, n, l.px * n)
    BY <1>3, <2>1, <2>2, CoreFill
  <2>4. Abstract!Notional(l, n, 0) = l.px * n /\ 0 \in 0..(n * 0)
    BY <1>3, <2>2, CoreNotional
  <2>5. Taking(n, 0)
    BY <1>4, <2>1, <2>3, <2>4, AbstractIsCore, CorePair
  <2> HIDE DEF Taking
  <2> QED BY <1>7, <2>2, <2>4, <2>5
<1>8. Refused \/ Lost \/ Took
  BY <1>2, <1>5, <1>6, <1>7
<1>9. Abstract!Account(rule)
  BY <1>2, <1>4
<1> QED BY <1>2, <1>4, <1>8, <1>9 DEF Abstract!SendOne

(* One turn of the hedge loop.                                             *)
LEMMA CoreGuard ==
  ASSUME SimTypeOK
  PROVE  /\ Abstract!LoopGuard = LoopGuard
         /\ Abstract!residual(AbstractPair) = residual(pair)
         /\ \A q : Abstract!next_order(AbstractPair, q) = next_order(pair, q)
<1>1. pair \in SimPairs
  BY DEF SimTypeOK
<1>2. /\ SameToPolicy(pair, AbstractPair) /\ residual(AbstractPair) = residual(pair)
      /\ AbstractPair.state = pair.state
  BY <1>1, AbstractIsCore, AbstractFields DEF Core
<1>3. ASSUME NEW q PROVE Abstract!next_order(AbstractPair, q) = next_order(pair, q)
  <2>1. next_order(AbstractPair, q) = next_order(pair, q)
    BY <1>2, SameDecision
  <2> QED BY <2>1, CorePolicy
<1>4. Abstract!residual(AbstractPair) = residual(pair)
  BY <1>2, CoreArithmetic
<1>5. AbstractPair.attempts = pair.attempts
  BY <1>2 DEF SameToPolicy
<1> QED BY <1>2, <1>3, <1>4, <1>5 DEF Abstract!LoopGuard, LoopGuard

LEMMA CoreHedgeStop ==
  ASSUME SimInv, SimHedgeStop
  PROVE  Abstract!HedgeStop(HedgeQuotes)
<1> DEFINE q == HedgeQuotes
           d == next_order(pair, q)
           a == Abstract!next_order(AbstractPair, q)
<1>1. SimTypeOK /\ pair \in SimPairs /\ q \in [Venues -> BestQuote]
  BY HedgeQuotesTyped DEF SimInv, SimTypeOK
<1>2. /\ pc = "hedge" /\ LoopGuard /\ ~d.should_send
      /\ pair' = Ended(pair, IF d.kill THEN "KillSwitch" ELSE "ErrorRecovery", d.reason)
      /\ enabled' = (enabled /\ ~d.kill)
      /\ UNCHANGED <<pc, sellFirst, quotes, opp, net, bucket, sec, trades, carry, approved>>
  BY DEF SimHedgeStop, HedgeStop, Ended
<1>3. a = d /\ Abstract!LoopGuard
  BY <1>1, <1>2, CoreGuard
<1>4. d.kill /\ d.reason \in {"MAX_HEDGE_LOSS", "NO_SAFE_HEDGE_QUOTE"}
  BY <1>1, <1>2, SimNextOrder
<1> HIDE DEF d, a, q
<1>5. pair' = Ended(pair, "KillSwitch", d.reason)
  BY <1>2, <1>4
<1>6. Core(pair') = Ended(Core(pair), "KillSwitch", d.reason)
  BY <1>1, <1>4, <1>5, CoreStates, CoreReasons
<1>7. AbstractPair' = [AbstractPair EXCEPT !.state = IF a.kill THEN "KillSwitch" ELSE "ErrorRecovery",
                                           !.error = a.reason]
  BY <1>3, <1>4, <1>6, AbstractIsCore DEF Ended
<1> QED BY <1>2, <1>3, <1>7 DEF Abstract!HedgeStop, a, q

LEMMA CoreHedgeSend ==
  ASSUME SimInv, SimHedgeSend
  PROVE  Abstract!HedgeSend(HedgeQuotes)
<1> DEFINE o == SimHedgeOrder
           q == HedgeQuotes
           d == next_order(pair, q)
           a == Abstract!next_order(AbstractPair, q)
           l == a.intent
           rule == Check(o, q[o.venue])
           n == Fillable(o)
           p == OneMoreTry(AbstractPair)
<1>1. /\ pc = "hedge" /\ LoopGuard /\ d.should_send
      /\ UNCHANGED <<pc, sellFirst, quotes, opp, enabled, sec, trades, carry>>
      /\ Account(rule)
      /\ rule # "APPROVED" => HedgeRefused(rule)
      /\ rule = "APPROVED" => n \in 0..o.qty /\ (HedgeLost(o) \/ HedgeFilled(o))
  BY SimHedgeSends DEF HedgeTurn
<1>2. /\ o \in SimOrders /\ o.qty \in Nat
      /\ d.intent.venue = o.venue /\ d.intent.side = o.side
      /\ d.intent.px = o.px /\ d.intent.qty = o.qty
      /\ o.side \in Sides /\ o.px \in Int
  BY <1>1, SimHedgeOrderFacts DEF SimOrders
<1>3. SimTypeOK /\ pair \in SimPairs /\ pair.attempts < MaxHedgeAttempts
  BY <1>1 DEF SimInv, SimTypeOK, LoopGuard
<1>4. a = d /\ Abstract!LoopGuard
  BY <1>1, <1>3, CoreGuard
<1>5. Tried \in SimPairs /\ Tried = OneMoreTry(pair)
  BY <1>3, TriedFields DEF Tried, OneMoreTry
<1>6. p = Core(Tried)
  <2> HIDE DEF Tried
  <2> QED BY <1>3, <1>5, AbstractIsCore, CoreStates
<1> HIDE DEF o, a, d, q, n, p, Tried
<1>7. /\ l.venue = o.venue /\ l.side = o.side /\ l.px = o.px /\ l.qty = o.qty
  BY <1>2, <1>4
<1>8. /\ Abstract!Check(l, q[l.venue]) = rule /\ Abstract!Account(rule) = Account(rule)
      /\ Abstract!PositionAfter(l, n) = PositionAfter(o, n)
  <2> HIDE DEF l
  <2> QED BY <1>3, <1>7, CoreOrders
<1> HIDE DEF l, rule
<1> DEFINE Refused == /\ rule # "APPROVED"
                      /\ AbstractPair' = [p EXCEPT !.state = "ErrorRecovery", !.error = rule]
                      /\ net' = net
           Lost == rule = "APPROVED" /\ AbstractPair' = p /\ net' = net
           Taking(f, better) ==
             /\ AbstractPair' = Abstract!apply_fill(p, l.side, f, Abstract!Notional(l, f, better))
             /\ net' = Abstract!PositionAfter(l, f)
           Took == /\ rule = "APPROVED"
                   /\ \E f \in 1..l.qty : \E better \in 0..(f * 0) : Taking(f, better)
<1>9. ASSUME rule # "APPROVED" PROVE Refused
  <2>1. rule \in Rules
    BY <1>9, CheckRange DEF Check, rule
  <2>2. pair' = Ended(Tried, "ErrorRecovery", rule) /\ net' = net
    BY <1>1, <1>9 DEF HedgeRefused, Ended
  <2>3. Core(pair') = Ended(p, "ErrorRecovery", rule)
    BY <1>5, <1>6, <2>1, <2>2, CoreStates, CoreReasons
  <2> QED BY <1>9, <2>2, <2>3, AbstractIsCore DEF Ended
<1>10. ASSUME rule = "APPROVED", HedgeLost(o) PROVE Lost
  BY <1>6, <1>10, AbstractIsCore DEF HedgeLost
<1>11. ASSUME rule = "APPROVED", HedgeFilled(o) PROVE Took
  <2>1. n > 0 /\ net' = PositionAfter(o, n) /\ pair' = apply_fill(Tried, o.side, n, o.px * n)
    BY <1>11 DEF HedgeFilled, n
  <2>2. n \in 1..l.qty /\ n \in Nat /\ o.px * n \in Int
    <3>1. n \in 1..l.qty /\ n \in Nat
      BY <1>1, <1>2, <1>7, <1>11, <2>1
    <3> QED BY <1>2, <3>1
  <2>3. Core(pair') = apply_fill(p, o.side, n, o.px * n)
    BY <1>2, <1>5, <1>6, <2>1, <2>2, CoreFill
  <2>4. Abstract!Notional(l, n, 0) = l.px * n /\ 0 \in 0..(n * 0)
    BY <1>2, <1>7, <2>2, CoreNotional
  <2>5. Taking(n, 0)
    BY <1>7, <1>8, <2>1, <2>3, <2>4, AbstractIsCore, CorePair
  <2> HIDE DEF Taking
  <2> QED BY <1>11, <2>2, <2>4, <2>5
<1>12. Refused \/ Lost \/ Took
  BY <1>1, <1>9, <1>10, <1>11
<1>13. Abstract!Account(rule)
  BY <1>1, <1>8
<1> QED BY <1>1, <1>4, <1>8, <1>12, <1>13 DEF Abstract!HedgeSend, p, l, a, q, OneMoreTry

LEMMA CoreReturn == Return => Abstract!Return
BY DEF Return, Abstract!Return, NoQuotes, Abstract!NoQuotes, NoQuote, Abstract!NoQuote,
       NoOpp, Abstract!NoOpp, Venues, Abstract!Venues

LEMMA CoreSettle ==
  ASSUME SimInv, Settle
  PROVE  Abstract!SettleFlat \/ Abstract!SettleOpen
<1>1. /\ SimTypeOK /\ pair \in SimPairs /\ Abstract!residual(AbstractPair) = residual(pair)
  BY CoreGuard DEF SimInv, SimTypeOK
<1>2. CASE SettleFlat
  <2>1. /\ pc = "settle" /\ residual(pair) = 0 /\ pair' = InState(pair, "Flat") /\ Return
        /\ UNCHANGED <<sellFirst, net, enabled, bucket, sec, carry, approved>>
    BY <1>2 DEF SettleFlat, InState
  <2>2. AbstractPair' = InState(AbstractPair, "Flat")
    BY <1>1, <2>1, CoreStates, AbstractIsCore
  <2> QED BY <1>1, <2>1, <2>2, CoreReturn DEF Abstract!SettleFlat, InState
<1>3. CASE SettleOpen
  <2>1. /\ pc = "settle" /\ residual(pair) # 0 /\ pair' = InState(pair, "Hedging") /\ pc' = "hedge"
        /\ UNCHANGED <<sellFirst, quotes, opp, net, enabled, bucket, sec, trades, carry, approved>>
    BY <1>3 DEF SettleOpen, InState
  <2>2. AbstractPair' = InState(AbstractPair, "Hedging")
    BY <1>1, <2>1, CoreStates, AbstractIsCore
  <2> QED BY <1>1, <2>1, <2>2 DEF Abstract!SettleOpen, InState
<1> QED BY <1>2, <1>3 DEF Settle

LEMMA CoreHedgeDone ==
  ASSUME SimInv, SimHedgeDone
  PROVE  Abstract!HedgeDone
<1> DEFINE st == IF residual(pair) = 0 THEN "Flat"
                 ELSE IF pair.state = "Hedging" THEN "ErrorRecovery" ELSE pair.state
<1>1. /\ SimTypeOK /\ pair \in SimPairs /\ Abstract!residual(AbstractPair) = residual(pair)
      /\ Abstract!LoopGuard = LoopGuard /\ AbstractPair.state = pair.state
  BY CoreGuard, AbstractIsCore, AbstractFields DEF SimInv, SimTypeOK, Core
<1>2. /\ pc = "hedge" /\ ~LoopGuard /\ pair' = InState(pair, st) /\ Return
      /\ UNCHANGED <<sellFirst, net, enabled, bucket, sec, carry, approved>>
  BY DEF SimHedgeDone, HedgeDone, InState
<1>3. AbstractPair' = InState(AbstractPair, st)
  <2> HIDE DEF st
  <2> QED BY <1>1, <1>2, CoreStates, AbstractIsCore
<1>4. AbstractPair' =
        [AbstractPair EXCEPT !.state = IF Abstract!residual(AbstractPair) = 0 THEN "Flat"
                                       ELSE IF @ = "Hedging" THEN "ErrorRecovery" ELSE @]
  BY <1>1, <1>3 DEF InState
<1> QED BY <1>1, <1>2, <1>4, CoreReturn DEF Abstract!HedgeDone

LEMMA CoreEvent ==
  ASSUME SimInv, Event
  PROVE  (\E i \in Instruments : Abstract!BeginTrade(i, quotes', sec')) \/ UNCHANGED Abstract!vars
<1>1. PICK v \in Venues, i \in Instruments, b \in Books, t \in 1..MaxTime :
        EventTrade(v, i, b, t) \/ EventPassed(v, i, b, t)
  BY DEF Event
<1>2. CASE EventTrade(v, i, b, t)
  <2> DEFINE q == QuotesOf(i, book', updated', t)
             s == t \div TicksPerSec
  <2>1. BeginTrade(i, q, s)
    BY <1>2 DEF EventTrade
  <2> HIDE DEF q, s
  <2>2. /\ pc = "idle" /\ trades < MaxTrades /\ sec' >= sec /\ should_trade(quotes')
        /\ opp' = best_opportunity(quotes')
        /\ pair' = NewPair(i, opp'.buy_venue, opp'.sell_venue)
        /\ carry' = net[i] /\ pc' = "first"
        /\ UNCHANGED <<sellFirst, net, enabled, bucket, trades, approved>>
    BY <2>1 DEF BeginTrade
  <2>3. quotes' \in [Venues -> BestQuote]
    BY <1>1, EventKeeps DEF SimInv, SimTypeOK, Event
  <2>4. Core(pair') = pair'
    <3>1. opp'.buy_venue \in Venues /\ opp'.sell_venue \in Venues
      BY <2>2, <2>3, OpportunityFacts DEF Opportunities
    <3>2. pair' \in Pairs /\ pair'.error = "none"
      BY <2>2, <3>1, NewPairFacts DEF NewPair
    <3>3. CoreError(pair'.error) = pair'.error
      BY <3>2, CoreReasons
    <3> QED BY <3>2, <3>3 DEF Core, Pairs
  <2>5. AbstractPair' = Abstract!NewPair(i, opp'.buy_venue, opp'.sell_venue)
    BY <2>2, <2>4, AbstractIsCore, CorePair
  <2>6. Abstract!BeginTrade(i, quotes', sec')
    BY <2>2, <2>5, CoreStrategy DEF Abstract!BeginTrade
  <2> QED BY <2>6
<1>3. CASE EventPassed(v, i, b, t)
  <2>1. UNCHANGED vars
    BY <1>3 DEF EventPassed
  <2> QED BY <2>1, AbstractIsCore DEF vars, Abstract!vars
<1> QED BY <1>1, <1>2, <1>3

LEMMA CoreInit == SimInit => Abstract!Init
<1> SUFFICES ASSUME SimInit PROVE Abstract!Init
  OBVIOUS
<1>1. PICK i \in Instruments : pair = InState(NewPair(i, "NSE", "BSE"), "Flat")
  BY DEF SimInit, Init, InState
<1>2. NewPair(i, "NSE", "BSE") \in Pairs /\ NewPair(i, "NSE", "BSE").error = "none"
  BY NewPairFacts DEF Venues, NewPair
<1>3. pair \in Pairs /\ pair.error = "none"
  <2> DEFINE p == NewPair(i, "NSE", "BSE")
  <2> HIDE DEF p
  <2> QED BY <1>1, <1>2 DEF Pairs, PairStates, InState, p
<1>4. AbstractPair = pair
  <2>1. CoreError(pair.error) = pair.error
    BY <1>3, CoreReasons
  <2> QED BY <1>3, <2>1, AbstractIsCore DEF Core, Pairs
<1>5. \E j \in Instruments : AbstractPair = [Abstract!NewPair(j, "NSE", "BSE") EXCEPT !.state = "Flat"]
  BY <1>1, <1>4, CorePair DEF InState
<1>6. quotes = Abstract!NoQuotes /\ opp = Abstract!NoOpp
  BY DEF SimInit, Init, NoQuotes, Abstract!NoQuotes, NoQuote, Abstract!NoQuote,
         NoOpp, Abstract!NoOpp, Venues, Abstract!Venues
<1>7. approved = [j \in Instruments |-> [s \in Abstract!Seconds |-> 0]]
  BY DEF SimInit, Init, Seconds, Abstract!Seconds
<1> QED BY <1>5, <1>6, <1>7 DEF SimInit, Init, Abstract!Init

LEMMA CoreNext == SimInv /\ [SimNext]_simVars => [AbstractStep]_(Abstract!vars)
<1> SUFFICES ASSUME SimInv, [SimNext]_simVars PROVE AbstractStep \/ UNCHANGED Abstract!vars
  OBVIOUS
<1>1. SimTypeOK /\ EmptyUntilUpdated
  BY DEF SimInv
<1>2. /\ Abstract!FirstLeg = FirstLeg /\ Abstract!SecondLeg = SecondLeg
  BY DEF Abstract!FirstLeg, FirstLeg, Abstract!SecondLeg, SecondLeg, Abstract!BuyLeg, BuyLeg,
         Abstract!SellLeg, SellLeg
<1>3. CASE Event
  BY <1>3, CoreEvent DEF AbstractStep
<1>4. CASE SimSendFirst
  <2>1. /\ SimSendOne(Leg(FirstLeg)) /\ opp = best_opportunity(quotes) /\ Current(FirstLeg.venue)
        /\ pc = "first" /\ pc' = "second"
    BY <1>4 DEF SimSendFirst, SimInv, Planned, Starting
  <2>2. Abstract!SendOne(FirstLeg)
    BY <1>1, <2>1, LegVenues, CoreSend
  <2>3. Abstract!SendFirst
    BY <1>2, <2>1, <2>2 DEF Abstract!SendFirst
  <2> QED BY <2>3 DEF AbstractStep
<1>5. CASE SimSendSecond
  <2>1. /\ SimSendOne(Leg(SecondLeg)) /\ opp = best_opportunity(quotes) /\ Current(SecondLeg.venue)
        /\ pc = "second" /\ pc' = "settle"
    BY <1>5 DEF SimSendSecond, SimInv, Planned
  <2>2. Abstract!SendOne(SecondLeg)
    BY <1>1, <2>1, LegVenues, CoreSend
  <2>3. Abstract!SendSecond
    BY <1>2, <2>1, <2>2 DEF Abstract!SendSecond
  <2> QED BY <2>3 DEF AbstractStep
<1>6. CASE Settle
  BY <1>6, CoreSettle DEF AbstractStep
<1>7. CASE SimHedgeStop
  BY <1>7, CoreHedgeStop DEF AbstractStep
<1>8. CASE SimHedgeSend
  BY <1>8, CoreHedgeSend DEF AbstractStep
<1>9. CASE SimHedgeDone
  BY <1>9, CoreHedgeDone DEF AbstractStep
<1>10. CASE UNCHANGED simVars
  BY <1>10, AbstractIsCore DEF simVars, vars, Abstract!vars
<1> QED BY <1>3, <1>4, <1>5, <1>6, <1>7, <1>8, <1>9, <1>10 DEF SimNext, SimExecute

(* Books, MatchingEngine, execution reports and scenario faults implement  *)
(* the trading core: each step of run_replay is the core's step with the   *)
(* quotes it has just read, or leaves the core alone.                      *)
THEOREM SimRefinement == SimSpec => ImplementsCore
<1>1. SimInit => Abstract!Init
  BY CoreInit
<1>2. SimInv /\ [SimNext]_simVars => [AbstractStep]_(Abstract!vars)
  BY CoreNext
<1> QED BY <1>1, <1>2, SimInvariance, PTL DEF SimSpec, ImplementsCore

LEMMA EventSecond ==
  ASSUME NEW t \in 1..MaxTime
  PROVE  t \div TicksPerSec \in Seconds
<1> DEFINE k == TicksPerSec
           a == t \div k
           b == MaxTime \div k
<1>1. k \in Nat \ {0} /\ t \in Nat /\ MaxTime \in Nat /\ t <= MaxTime /\ b <= MaxSec /\ MaxSec \in Nat
  BY SimulatorAssumption, ExecutionAssumption
<1>2. a \in Nat /\ b \in Nat /\ k * a <= t /\ MaxTime < k * (b + 1)
  BY <1>1
<1>3. a < b + 1
  <2> HIDE DEF a, b, k
  <2> SUFFICES ASSUME ~(a < b + 1) PROVE FALSE
    OBVIOUS
  <2>1. k * (b + 1) <= k * a
    BY <1>1, <1>2
  <2> QED BY <1>1, <1>2, <2>1
<1> HIDE DEF a, b, k
<1>4. a \in 0..MaxSec
  BY <1>1, <1>2, <1>3
<1> QED BY <1>4 DEF Seconds, a, k

(* The witnesses of AbstractStep are ones the core's Next allows.          *)
LEMMA StepIsNext ==
  ASSUME SimInv, [SimNext]_simVars
  PROVE  [Abstract!Next]_(Abstract!vars)
<1>1. Abstract!QuotePairs = [Venues -> BestQuote] /\ Abstract!Seconds = Seconds
  BY DEF Abstract!QuotePairs, Abstract!Venues, Venues, Abstract!Seconds, Seconds
<1>2. HedgeQuotes \in Abstract!QuotePairs
  BY <1>1, HedgeQuotesTyped DEF SimInv
<1>3. CASE Event
  <2>1. CASE UNCHANGED Abstract!vars
    BY <2>1
  <2>2. CASE \E i \in Instruments : Abstract!BeginTrade(i, quotes', sec')
    <3>1. quotes' \in Abstract!QuotePairs
      BY <1>1, <1>3, EventKeeps DEF SimInv, SimTypeOK
    <3>2. sec' \in Seconds
      <4>1. PICK v \in Venues, i \in Instruments, b \in Books, t \in 1..MaxTime :
              EventTrade(v, i, b, t) \/ EventPassed(v, i, b, t)
        BY <1>3 DEF Event
      <4>2. CASE EventTrade(v, i, b, t)
        BY <4>2, EventSecond DEF EventTrade, BeginTrade
      <4>3. CASE EventPassed(v, i, b, t)
        <5>1. pc = "idle" /\ pc' = pc
          BY <4>3 DEF EventPassed, Update, vars
        <5> QED BY <2>2, <5>1 DEF Abstract!BeginTrade
      <4> QED BY <4>1, <4>2, <4>3
    <3>3. Abstract!Begin
      BY <1>1, <2>2, <3>1, <3>2 DEF Abstract!Begin
    <3> QED BY <3>3 DEF Abstract!Next
  <2> QED BY <1>3, <2>1, <2>2, CoreEvent
<1>4. CASE ~Event
  <2>1. \/ Abstract!SendFirst \/ Abstract!SendSecond \/ Abstract!SettleFlat \/ Abstract!SettleOpen
        \/ Abstract!HedgeStop(HedgeQuotes) \/ Abstract!HedgeSend(HedgeQuotes) \/ Abstract!HedgeDone
        \/ UNCHANGED Abstract!vars
    <3>1. CASE UNCHANGED simVars
      BY <3>1, AbstractIsCore DEF simVars, vars, Abstract!vars
    <3>2. CASE SimExecute
      <4>1. AbstractStep \/ UNCHANGED Abstract!vars
        BY CoreNext
      <4>2. ~\E i \in Instruments : Abstract!BeginTrade(i, quotes', sec')
        BY <3>2 DEF Abstract!BeginTrade, SimExecute, SimSendFirst, SimSendSecond, Settle, SettleFlat,
                    SettleOpen, SimHedgeStop, HedgeStop, SimHedgeSend, SimHedgeDone, HedgeDone
      <4> QED BY <4>1, <4>2 DEF AbstractStep
    <3> QED BY <1>4, <3>1, <3>2 DEF SimNext
  <2>2. Abstract!HedgeStop(HedgeQuotes) \/ Abstract!HedgeSend(HedgeQuotes) => Abstract!Hedge
    BY <1>2 DEF Abstract!Hedge
  <2> QED BY <2>1, <2>2 DEF Abstract!Next, Abstract!Execute
<1> QED BY <1>3, <1>4

(* Hence the whole specification of the core, for any quotes and a gateway *)
(* that fills at the limit, holds of Simulator::run_replay.                *)
THEOREM CoreSpecHolds == SimSpec => Abstract!Spec
<1>1. SimInit => Abstract!Init
  BY CoreInit
<1>2. SimInv /\ [SimNext]_simVars => [Abstract!Next]_(Abstract!vars)
  BY StepIsNext
<1> QED BY <1>1, <1>2, SimInvariance, PTL DEF SimSpec, Abstract!Spec
=============================================================================
