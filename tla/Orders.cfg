CONSTANTS
  Intents <- MCIntents
  Prices = {2}
  MaxOrders = 2
  MaxDup = 1
SPECIFICATION Spec
INVARIANTS Ledger Converges
PROPERTIES OrdersFinish
