SPECIFICATION MonitorSpec
CONSTANTS
  MaxOrders = 3
  MaxSize = 2
  LotSize = 1
  SellPct = 100
  PositionLimit = 0
  SharedWallet = FALSE
  MaxRetries = 1
  BuyQuantities = {2}
  SellQuantities = {1}
  InitialWallet = 1
  OpenAtStart = TRUE
  MaxInFlight = 2
  Faults = {"unfilled", "slow", "lookup", "missing", "reply", "db", "crash"}
INVARIANTS IndInv TradesAgree
PROPERTIES BookedForGood MonitorsEnd
CHECK_DEADLOCK FALSE
