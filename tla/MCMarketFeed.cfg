SPECIFICATION Spec
CONSTANTS
  Symbols = {btc, eth}
  Conns = {c1, c2, c3}
  Capacity = 1
  MaxSaves = 1
INVARIANTS IndInv FeedComplete NoLeakedConnection ClosedChannelUnused PanicsAtShutdownOnly
PROPERTIES FeedComesBack
CHECK_DEADLOCK FALSE
