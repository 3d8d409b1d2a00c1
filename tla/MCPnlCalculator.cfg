SPECIFICATION Spec
CONSTANTS
  MaxOrders = 4
  MaxSize = 2
  Prices = {1, 3}
  Fees = {1}
INVARIANTS LoopIsFifo
PROPERTIES ImplementsFifoLedger
CHECK_DEADLOCK FALSE
