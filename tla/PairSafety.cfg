CONSTANTS
  MaxOrderQty = 2
  MaxPositionQty = 3
  MaxNotional = 29
  MaxBookAge = 1
  MaxOrdersPerSec = 4
  MaxHedgeAttempts = 2
  MaxHedgeLoss = 2
  PriceBand = 0
  ForceFlatten = FALSE
  StrategyMaxQty = 2
  StrategyMaxBookAge = 1
  MinVisibleQty = 1
  MinNetEdge = 1
  Fees = 1
  Taxes = 1
  Buffers = 0
  CostMinNetEdge = 0
  i1 = i1
  i2 = i2
  Instruments <- TwoInstruments
  Quotes <- MCQuotes
  MaxTrades = 2
  MaxSec = 1
  Improvement = 1
SPECIFICATION Spec
SYMMETRY InstrumentSymmetry
INVARIANTS IndInv PositionCap HedgeRefusals PairOutcome RatePerSecond PairLossBound
PROPERTIES HedgeReduces KillStops
