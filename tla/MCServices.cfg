SPECIFICATION ServicesSpec
CONSTANTS
  Requests = {r1, r2}
  Orders = {o1}
  MaxStarts = 2
  MinutesPerDay = 9
  Window = 3
  Delay = 1
  RetentionDays = 2
  LastDay = 4
  Posts = {p1, p2}
  Names = {ema, rsi}
  Inodes = {i1, i2}
  Entries = {e1, e2, e3, e4}
  MaxPending = 2
  MaxBytes = 1
  MaxBackups = 2
  MaxRotations = 3
  Calls = {a, b}
  Rate = 2
  MaxRetries = 1
  Readers = {a, b, c}
  Products = {btc, eth}
  Others = {bch}
  Losses = {3}
  Gains = {}
  Balances = {0, 4}
  Capital = 6
  MaxTotalLossPercent = 50
  MaxDaily = 2
  MaxOrders = 3
  MaxDay = 1
  TickPrices = {1, 2}
  TickVolumes = {1}
  Period = 2
  LastTick = 6
  HistoryLimit = 2
  MaxTicks = 4
  Prices = {2, 4}
  Bars = 6
  InitialBalance = 12
  Fee = 1
  Slip = 1
  TakeProfit = 1
  StopLoss = 1
  WarmupBars = 0
  SlowPeriod = 2
  Cooldown = 1
  MaxDailyTrades = 2
  BarsPerDay = 3
  LastBar = 13
  Slots = 2
  TrainDays = 2
  TestDays = 1
  StepDays = 1
  RangeDays = {0, 1, 4, 6}
INVARIANTS
  SwitchIsAsAnswered MonitorsBeforeDatabase OldRowsGo ConfigOnDisk NoneStranded
  NewestBackupsKept CallsAreMetered RefreshedOnlyIfNeeded MetricsCoverTrades BarsAgree
  FillsUnseen CashAccounted OutOfSample
PROPERTIES ShutdownEnds
CHECK_DEADLOCK FALSE
