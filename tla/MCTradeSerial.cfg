SPECIFICATION FairSpec
CONSTANTS
  MaxOrders = 4
  MaxSize = 4
  LotSize = 2
  SellPct = 75
  PositionLimit = 2
  SharedWallet = TRUE
  MaxRetries = 0
  BuyQuantities = {3}
  SellQuantities = {0, 1}
  InitialWallet = 1
  OpenAtStart = FALSE
  MaxInFlight = 1
  Faults = {"balance", "old", "transfer"}
INVARIANTS SellsOnlyItsOwn WithinPositionLimit
PROPERTIES RowsOnlyAge ImplementsHeldPosition
CHECK_DEADLOCK FALSE
