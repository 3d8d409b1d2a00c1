SPECIFICATION BacktestSpec
CONSTANTS
  Prices = {2, 4}
  Bars = 6
  InitialBalance = 12
  Fee = 1
  Slip = 1
  TakeProfit = 1
  StopLoss = 1
  WarmupBars = 0
  SlowPeriod = 2
  Cooldown = 1
  MaxDailyTrades = 2
  BarsPerDay = 3
INVARIANTS FillsOnNextBar
CHECK_DEADLOCK FALSE
