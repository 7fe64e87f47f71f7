# TLA+ verification of the NSE/BSE arbitrage engine

The repository replays market data of two venues, looks for a price difference
larger than all costs, sends one buy and one sell IOC order, and hedges what
remains when the two legs do not fill alike. Version 2 adds a lock-free queue
for the hot path. This directory models the parts where several things can
happen in several orders, checks them with TLC, alone and put together, and
proves the most important results with TLAPS.

## Inventory

| Component | State | Operations | Interacts with |
|---|---|---|---|
| `SpscRingBuffer` | two atomic cursors, raw slots | `try_push`/`try_emplace`, `try_pop`, `size_approx`, destructor | one producer thread, one consumer thread |
| `BoundedBlockingQueue` | deque, mutex, two condition variables | `push_wait`, `pop_wait`, `size_approx` | any number of threads |
| queue benchmark | a chain of queues, statistics | producer, worker stages, sink, stop event | both queues |
| `OrderBook`, `BookManager` | price levels, order index, last update | ADD, MODIFY, CANCEL, TRADE, RESET, `match_ioc`, `best_quote`, `invariant_ok` | fed by market data, consumed by `MatchingEngine` |
| market data | last sequence number per channel, health per instrument | `on_packet`, `on_event`, `mark_unhealthy`, `next` | feeds the books, gates the strategy |
| `ArbitrageStrategy`, `CostModel` | none | `evaluate` | reads two quotes |
| `RiskEngine`, `RateLimiter`, `KillSwitch`, `PositionBook` | bucket per instrument, enabled flag, net quantity | `check_order`, `allow`, `disable`, `apply_fill` | asked before every order |
| `OrderManager`, `Reconciler` | orders, fills, how many were handed out | `submit`, `on_report`, `take_new_fills`, `on_external_fill` | gateway reports update the position |
| `PairTrade`, `HedgePolicy` | bought, sold, attempts, state | `apply_fill`, `mark_leg_failed`, `next_order` | drive the hedge loop |
| `MatchingEngine`, `ScenarioConfig` | roles still to reject | `send` | fills against the books |
| `Simulator` | the books | `run_replay`, `execute_opportunity`, `hedge_until_flat` | composes all of the above |

What is hard here: the memory ordering and slot reuse of the ring; wakeups of
the blocking queue; risk rules that look at one order at a time but must bound
the position; a pair whose legs fill unequally while the quotes are those read
before the first leg; the hedge loop, which can be refused, unfilled or killed
at any turn; a book whose levels and index are two copies of the same facts and
which the feed and our own fills both change; packets that are lost, late or
repeated, numbered per channel and judged per instrument; execution reports that
come early, late, twice or out of order; statistics shared without a lock.
`PROJECT.json` lists these as hazards, each at its line.

## Modules

| Module | Models |
|---|---|
| `BoundedFifo` | abstract specification: what both queues promise |
| `SpscRingBuffer` | the ring, one action per step of `try_emplace` and `try_pop` |
| `SpscRingBufferProofs` | the ring's theorems |
| `ArithmeticTheorems` | facts about `%` and `\div`, sums over finite sets, folds along sequences, `Max` and `Min`, on which the proofs rest |
| `BoundedBlockingQueue`, `BoundedBlockingQueueProofs` | the mutex queue with `wait`, `notify_one` and spurious wakeups, and its theorems |
| `QueuePipeline`, `QueuePipelineProofs` | producer, workers and sink over either kind of queue, with their statistics, and its theorems |
| `RiskConfig`, `RiskEngine`, `PairTrade`, `HedgePolicy`, `ArbitrageStrategy` | the decision functions of those classes as operators |
| `PairExecution` | `execute_opportunity` and `hedge_until_flat` composed from them |
| `OrderState` | an order and what each execution report does to it, as operators |
| `OrderManager`, `OrderManagerProofs` | those with a strategy on one side and a gateway on the other, and its theorems |
| `Simulator` | `run_replay` with books, `MatchingEngine`, `ScenarioConfig` and the trading core; implements `PairExecution` |
| `TradingProofs` | the theorems about `PairExecution` and `Simulator` |
| `OrderBook`, `OrderBookProofs` | the book, its feed and `match_ioc`, and its theorems |
| `MarketData`, `MarketDataProofs` | from the replay file to the strategy's gate, and its theorems |
| `MC*` | TLC instances |

Operators whose names extend that of the operator after them
(`HasRoomOffByOne`, `NoRoll`, `tradeIndexOnly`, ...) are faulty variants: each
property is known to fail when one of them takes the place of the real
definition.

### SpscRingBuffer

A cursor is the log of the values stored to it. A load by the thread that does
not own the cursor returns any entry not older than the one it read last, as the
C++ memory model allows for a single atomic, and what happens before the load is
known only through release/acquire pairs: `tailSync` and `headSync` count the
pops and pushes that happen before the thread's current point. A slot carries
whether it holds an object and the number of the push or pop that touched it
last, so a data race is a state: an access to a slot whose last access by the
other thread is not counted yet (`SlotOwnership`). Values are numbered by push.
`size_approx` is sampled by each thread as the benchmark does.

Bounds: capacity 4 and 6 pushes make both cursors wrap. Fairness: both threads run and a store
becomes visible in finite time, so a call that would succeed on the newest value
is not failed for ever. `EveryPushPopped` and `EveryPushSucceeds` allow for the
destructor, which may run as soon as both threads are between calls.

### BoundedBlockingQueue

`Lock` takes the mutex on entry or after a wakeup; under it the thread either
sleeps or does its work, notifies one sleeper of the other kind and leaves.
Spurious wakeups are bounded (`MaxSpurious`), because an endless run of them
starves everybody. `NoLostWakeup` is the reason a single `notify_one` suffices.
The producers stop after `Events` values; consumers then sleep, which is the
only way the system stops: the run does not report it as a deadlock, and
`AllDelivered` rules out any earlier one. A capacity of 0 is excluded by assumption.

### QueuePipeline

Thread t pops queue t, does its stage's work and pushes queue t + 1; thread 0 is
the producer and thread N the sink. A queue is the bounded FIFO the two queue
modules show it to be. Of the ring's cursors is kept how far each thread's view
lags behind the other's (`lagPush`, `lagPop`), so a push may fail on a queue that
has room and a sample may be too large or too small, as in `SpscRingBuffer`. A
call of `observe` is two steps, the sample with its additions and the
compare-and-exchange loop, interleaved with the other thread of the queue; `due`
is what is left of it. The work done on an event is the list of stages it went
through. `peak` is a history variable.

The code has `kQueuesInPipeline = 1`, hence no worker; the run has two queues so
that the worker loop, which the code contains, runs too. Failed pushes are
bounded (`MaxSpins`). Fairness: every thread runs, and `main` joins them. In a
run that ends, the joins have happened: `Finished` is the only way to stop.

### PairExecution

One action per step of `execute_opportunity` (first leg, second leg, settle) and
per turn of the hedge loop. The two books are seen through the quotes that
`BookManager` returns: any quote of `Quotes` at each read, which includes what
other market participants and our own fills do to the book. The gateway is any
implementation of `IOrderGateway::send` for an IOC limit order: it fills any part
of the order, at the limit or up to `Improvement` better per share. Rejections
and expiries of a whole order are `NOT_FILLED`. `OrderManager::submit` is
synchronous, so a leg with its reports and fills is one step. `carry` and
`approved` are history variables. Ages are in units of `MaxBookAge`, quantities
and prices are small integers. `PositionBook::cash_paise`, which nothing here
reads, is in `OrderState`. Events come in the order of their ingest timestamps.

Bounds: two trades on two instruments over two seconds, with a residual carried
from one pair to the next, reach the position cap, the rate limit, the notional
limit, every reason for a kill and the last hedge attempt; fills may beat their
limit by one paisa a share. Instruments are symmetric. That an execution ends is
checked in `Simulator`.

### OrderManager

`OrderState` has the `OrderManager` with its `PositionBook` as a record and
`on_report` as an operator on it. In `OrderManager` the exchange decides at once
what becomes of an order (`Outcomes`): rejected, or acknowledged, filled in any
portions and the rest expired or cancelled. `send` returns the first reports of
that list; the others are on their way, arrive in any order, while `send` is
still running too, and up to `MaxDup` of them twice. The repository's only
gateway returns everything from `send` (k is the length of the list); the
interface and `on_report`, which is public, allow the rest. Reports are not lost:
nothing in the code would notice. Fairness: `send` returns and reports arrive.

`Converges` excludes orders with a Fill delivered twice: reports carry no
execution id and the code counts such a fill twice, in the order and in the
position alike (`Ledger` still holds). It also shows the one thing that does
depend on the order of arrival: a cancelled order that had filled in part ends as
`Canceled` or as `Partial`.

Bounds: two orders of up to two shares, on two sides, with every outcome, every
split between returned and late reports and one repeated report.

### Simulator

The composition. `BookManager` is the price levels of each book, which an event
may change to any of `Books`; a feed may be unhealthy at any event, which covers
what `MarketData` decides. `MatchingEngine::send` walks the levels of the same
books; its reports go through `OrderState`, its fills to the `PairTrade`. The
module extends `PairExecution` and uses its actions where the code is the core's;
its own are named `Sim...`. An order's reports all come from `send`, so only the
order under way is kept.

`ImplementsCore` is the refinement: with the ways a gateway fails mapped to
`NOT_FILLED`, every step of the simulator is a step of `PairExecution` or leaves
its variables alone. So the theorems about the core hold of the simulator. (The
constants `Quotes` and `Improvement` of the core play no part in `SimSpec`; the
refinement is to the core with any quote and fills at the limit.)
`AbstractStep` names the quotes each abstract step takes, because `BestQuote` is
infinite.

Bounds: eight scenarios, one instrument, two trades within two seconds, four
books over six prices. The strategy's age limit is larger than RiskEngine's here
(both are configured separately; the applications set them equal): a leg is then
refused for an old book and the hedge has to go to the other venue, level by
level, where it may be too expensive. With equal limits every hedge finds its
depth at the first attempt. Fairness: the replay is sequential code that goes on
with what it has begun; nothing is assumed of the feed.

### OrderBook

Levels and index as in the class; quantity 0 means that the map has no entry and
price 0 stands for any price that is not positive. `match_ioc` runs level by
level, and which resting orders give their quantity is any choice that a walk of
an `unordered_map` can make. In a `disciplined` behaviour the feed is that of an
exchange which keeps its own orders (`exch`): it adds new orders and modifies,
cancels and trades live ones under their own side and price. In the others any
event may come at any time. `ownFill` is a history variable. Order ids are
symmetric. `modify` accepts a price that `add` refuses (`order_book.cpp:55`); such
levels are part of the model and `LevelCovered` holds of them too.

### MarketData

One step reads one row: `MarketDataHandler::next` and the body of `run_replay` up
to the strategy's age check. The packets of the day are numbered per venue and
channel; any of them may come next, again or never, and a packet numbered 0 may
come at any time. `Garbling` allows rows too short to parse; `garbled` is a history
of the channels that had one. Ingest timestamps do
not decrease. Of a book only `last_update_ns_` is kept; `applied` is a history of
the packets that reached the books of a channel. Ages are computed as the code
does, divided by `NsPerUs` (1000) and cut to `AgeBits` (32); the runs use smaller
numbers, below the wrap in the passing runs and beyond it in `feed_age_wrap`.
Three packets are the fewest with a gap; four leave room for packets after it.

## Runs

| Run | Shows |
|---|---|
| `spsc` | no race, no leak, FIFO refinement, one-sided size samples, the inductive invariant, progress |
| `blocking` | no lost wakeup, FIFO refinement, the inductive invariant, everything is delivered |
| `pipeline` | either pipeline is a bounded FIFO from end to end, its report is exact, the inductive invariant, every run ends |
| `pair_safety` | position cap, order rate, honest outcome, hedges that only reduce, loss bound, kill switch |
| `feed` | packets once and in order, no evaluation of an incomplete or old book, ages agree, the inductive invariant |
| `feed_silent_gap` | violation: a lost packet goes unnoticed when its channel is shared |
| `feed_age_wrap` | violation: a book silent for 71.6 minutes looks fresh |
| `book` | the inductive invariant; levels covered by orders and the IOC contract for any feed; no phantom liquidity next to our own fills, a mirror of the exchange and `invariant_ok` until one |
| `book_own_fills` | violation: level/index mismatch after an own fill and the feed's TRADE |
| `orders` | position, cash, orders and fills agree; orders converge for any arrival of reports; every order ends |
| `simulator` | refinement of the trading core, the scenario suite's verdicts, no wasted hedge, every trade ends |
| `scenario_outcome` | violation: a refused hedge ends in neither FLAT nor KILL_SWITCH |

The four violations are findings, quoted in `PROJECT.json`. `feed_silent_gap` and
`book_own_fills` are the ones to look at. In the second the simulator's fills and
the feed act on the same book, and `trade` falls back to the level alone for an
order it does not know.
`LevelCovered` shows the damage is one-sided: the book may then show less than
its orders hold, never more.

## Proofs

For the ring, for every capacity and any number of pushes
(`SpscRingBufferProofs`). The invariant `IndInv` says: entry j of a cursor's log
is the slot of value j; what a thread knows is exactly what it has read; the
producer is less than `Capacity` ahead of what it has seen the consumer do and
the consumer never ahead of what it has seen the producer do; values
constructed and not destroyed sit in their slots and the others are vacant.
Slots are compared through `ArithmeticTheorems`: values less than `Capacity` apart
have different slots. From it follow type correctness, `SlotOwnership`,
`DestructorExact`, `SampleBounds` and the refinement of `BoundedFifo`.
Assumption: the capacity is a power of two and at least 2, as the class asserts.

For the trading core, for every configuration, set of quotes, instruments and
number of trades (`TradingProofs`, first part). `PositionCap` is not inductive: to know
that a hedge is inside the cap one needs that the position is what it was before
the pair plus the pair's residual (`Ledger`) and that the hedge is no larger than
the residual. To know that a hedge is not refused by the kill switch one needs
that a residual can only arise while trading is enabled (`Enabled`). The rate
limit needs the bucket to count the approvals of its second and no approval to
lie in a later one (`Limiter`). `IndInv` is their conjunction. From it follow type
correctness, `PositionCap`, `RatePerSecond`, `PairOutcome`, `HedgeRefusals`,
`HedgeReduces` and `KillStops`. Assumptions: the limits are natural numbers,
quotes are integers, the seconds of the events do not decrease.

`PairLossBound` (`LossBounded`) needs a second invariant, `LossInv`. While the two
legs run, what was bought cost at most `buy_px` a share and what was sold brought
at least `sell_px` (`AlphaSafe`); in the hedge loop a long pair's sales have
brought the average purchase price, but for what the attempts so far were allowed
to lose, and a short pair's purchases likewise (`LongSafe`, `ShortSafe`). The
average is a truncated quotient that a hedge on the pair's smaller side leaves
alone, which is why the rounding adds up to less than a paisa a share and not to
that much per attempt. The hypothesis `CrossedBooksOnly` says that the edge a
trade needs, threshold and costs together, is not negative: with a negative one
the strategy would buy above its selling price and the two legs alone could lose.

For the simulator, for every configuration, any finite set of prices, any books and
any number of instruments and trades (`TradingProofs`, second part). The step that
carries it is that `MatchingEngine::send` is a gateway in the sense of
`PairExecution`. `OrderAtTop`: an order priced from a quote of the book as it is now
asks for no more than what rests at the best opposite price. `TakenAtTop` and
`SendOutcome`: `match_ioc` then takes from that level alone, so the reports are at
most an acknowledgement, one fill and an expiry, in either order of the first two,
and `submit` folds them to one fill of `Fillable(o)` shares at the limit (rejections,
scenario caps and the disconnection are in `Fillable`). `SimInv` says when quotes are
those of the book as it is now: at the first leg both venues', at the second leg
those of its own venue (`Planned`, `Starting`; the legs go to different venues), in
the hedge loop always, because it reads them anew. `CleanLegs` follows both legs of a
fault-free trade. For S10 `NseLegLost` is needed: where the disconnected NSE lost a
leg its book is as it was, its quote still passes the policy's checks and it is the
policy's preferred venue, so `next_order` sends every hedge there and it is lost too.
From `SimInv` follow `ScenarioVerdict`, `NoWastedHedge` and the refinement:
`ImplementsCore` as the run checks it, and the core's specification itself
(`CoreSpecHolds`), whose quantifier over all quotes TLC cannot enumerate.
Assumptions, beyond those of the core: prices are positive and finitely many, books
have natural quantities, and the replay's last second is within `MaxSec`. `SimInv`
was checked with TLC on the instance of `simulator` before it was proved.

For the market data path, for any number of channels, instruments and packets
(`MarketDataProofs`). `NoSilentGap` is not inductive: one needs that a channel whose
instrument has no gap on record has lost nothing since its first packet
(`Complete`), which rests on the tracker having counted every packet in the books
(`Counted`), and that what the gate let pass is healthy (`Gated`). From `IndInv`
follow type correctness, `InOrderOnce`, `AgesAgree` and, assuming a channel per
instrument (`OwnChannels`), `NoSilentGap`; `feed_silent_gap` shows the assumption
is needed. A gap that a row which does not parse revealed is marked nowhere, so
the property leaves such channels out. `FreshQuotes` follows from the gate's own
check once the age is the age: `FreshHolds` assumes that no replay is so long that
the age in microseconds outgrows its bits (`AgeNeverWraps`), and `feed_age_wrap`
shows that this, too, is needed.

For the blocking queue, for any finite set of producers and consumers, any capacity
above 0 and any number of values and spurious wakeups
(`BoundedBlockingQueueProofs`). `NoLostWakeup` counts: while a consumer sleeps there
are at least as many consumers awake as values queued, and the same for producers
and free places. With type correctness, the capacity bound and the fact that a
value under way belongs to the thread that holds the lock it is inductive: a push
adds a value and wakes a consumer, a consumer goes to sleep only on an empty queue.
The refinement of `BoundedFifo` follows step by step.

For the order book, for any finite sets of ids and prices and any quantities
(`OrderBookProofs`). A level is compared with the sum over the orders that rest at
its price. `LevelCovered` is inductive on its own, because `remove_from_level` takes
off a level at least what leaves the index; `NoPhantomLiquidity` and `MirrorsExchange`
need each other and that the exchange's orders have prices (`PricedExchange`). Of a
`match_ioc` under way `Call` says which prices it has emptied and that the fills are
theirs, best first; when the loop ends, what lies within the limit is used up or the
quantity is, which is `IocContract`.

For the order manager, for any orders and prices, any number of orders and any
number of reports delivered twice (`OrderManagerProofs`). `Ledger` is kept by
`on_report` whatever it is given, and by `submit` because no fill is of an order
that is not known yet. `Converges` needs the state of an order while reports are
missing: `Follows` gives it as a function of the set of reports that have come (the
quantity filled, whether an end is among them, which one), so it cannot depend on
their order; `Shape` says what an exchange's reports look like, at most one end and
that only where the fills leave a rest, and is proved of `Outcomes`. `Follows` is kept
by one report (`FollowsStep`), hence by the reports `submit` applies in a row and by
the reference, all reports in order; two orders that follow the same reports agree
but for the name of a cancelled order. The inductive invariant was checked with TLC
on the instance of `orders` before it was proved.

For the pipeline, for any number of queues and events, any capacity and both kinds
of queue (`QueuePipelineProofs`). `HandOK` and `QueueOK` place every event: each
thread holds the event that comes after those it has handed on, with exactly the
work of the stages up to it, and a queue holds in order what one of its threads has
pushed and the other has not popped. `Sampled` counts: a queue's samples and those
its two threads still owe are its pushes, its pops and, on a ring, its failed pushes.
`MaxKept` is about the race for `max_occupancy`: the largest sample is stored, or one
of the two threads is in the compare-and-exchange loop with it, and `DueOK` says that
what a thread compares with is never above what is stored, so a failed exchange
cannot make it give up too early. When every thread has gone nothing is owed and
nobody races, which is `ReportExact`; its sums over the queues are those of
`ArithmeticTheorems`. For `PipelineIsFifo` the events between producer and sink are
shown to be a window of consecutive numbers (`InFlightIs`): the parts of neighbouring
queues and hands meet, so their concatenation is one window, which the producer's
push lengthens, the sink's pop shortens and every other step leaves alone; no two
neighbours are more than a full queue and a hand apart (`Spread`), which gives the
channel's bound.

`ArithmeticTheorems` is what these proofs share. The library's induction theorems
take an operator, which the provers here cannot instantiate; these lemmas take the SET
of numbers or of subsets that have a property, so sums over finite sets and folds along
a sequence can be proved about. Folds of `on_report` and `OrderAfter` are unfolded to
functions on sets of places, and `FoldAlong` carries an invariant along them.

Only model-checked: liveness (`EveryPushPopped`, `EveryPushSucceeds`, `AllDelivered`,
`Terminates`, `OrdersFinish`, `TradeEnds`), which the prover does not do. Every
invariant and every action property of the passing runs is a theorem, and so is every
refinement.

## Not modelled

CSV and configuration parsing, logging, the text of identifiers, the latency
recorder and the applications: text and input/output without decisions of their
own. `ClockSkewGuard`, `EodGuard`, `daily_loss_limit_paise`, `max_hedge_delay_us`
and `OrderBook::crossed`: no trading code uses them. (`docs/scenarios.md:25` says
that the book invariant flags a crossed book; `invariant_ok` does not look.)
Ingest timestamps that go back, which would reset a rate bucket, and a packet
numbering that restarts are outside the models.
