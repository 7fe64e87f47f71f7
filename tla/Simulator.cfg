CONSTANTS
  MaxOrderQty = 3
  MaxPositionQty = 4
  MaxNotional = 14
  MaxBookAge = 1
  MaxOrdersPerSec = 4
  MaxHedgeAttempts = 2
  MaxHedgeLoss = 2
  PriceBand = 0
  ForceFlatten = FALSE
  StrategyMaxQty = 3
  StrategyMaxBookAge = 2
  MinVisibleQty = 1
  MinNetEdge = 1
  Fees = 0
  Taxes = 0
  Buffers = 0
  CostMinNetEdge = 0
  i1 = i1
  Instruments <- OneInstrument
  MaxTrades = 2
  MaxSec = 1
  Quotes = {}
  Improvement = 0
  Prices = {1, 2, 3, 4, 5, 6}
  Books <- MCBooks
  TicksPerSec = 2
  MaxTime = 3
  PartialBuy = 2
  PartialSell = 1
SPECIFICATION SimSpec
INVARIANTS ScenarioVerdict
PROPERTIES ImplementsCore NoWastedHedge TradeEnds
