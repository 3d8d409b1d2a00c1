SPECIFICATION Spec
CONSTANTS
  MaxOrders = 3
  MaxSize = 2
  LotSize = 1
  SellPct = 100
  PositionLimit = 0
  SharedWallet = FALSE
  MaxRetries = 1
  BuyQuantities = {2}
  SellQuantities = {0, 1}
  InitialWallet = 2
  OpenAtStart = FALSE
  MaxInFlight = 2
  Faults = {}
PROPERTY SellTakesWhatItFilled
CHECK_DEADLOCK FALSE
