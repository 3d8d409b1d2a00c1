SPECIFICATION Spec
CONSTANTS
  MaxOrders = 1
  MaxSize = 1
  LotSize = 1
  SellPct = 100
  PositionLimit = 0
  SharedWallet = FALSE
  MaxRetries = 1
  BuyQuantities = {1}
  SellQuantities = {0, 1}
  InitialWallet = 2
  OpenAtStart = FALSE
  MaxInFlight = 1
  Faults = {"unfilled"}
INVARIANT PositionsWereExecuted
CHECK_DEADLOCK FALSE
