SPECIFICATION Spec
CONSTANTS
  MaxOrders = 3
  MaxSize = 1
  LotSize = 1
  SellPct = 100
  PositionLimit = 0
  SharedWallet = TRUE
  MaxRetries = 1
  BuyQuantities = {1}
  SellQuantities = {0, 1}
  InitialWallet = 2
  OpenAtStart = FALSE
  MaxInFlight = 2
  Faults = {}
INVARIANT SellsOnlyItsOwn
CHECK_DEADLOCK FALSE
