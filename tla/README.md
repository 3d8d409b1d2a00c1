# gogocoin: specifications

TLA+ models of gogocoin, a bot that trades cryptocurrencies on bitFlyer: their
model-checking runs (TLC) and proofs (TLAPS). File names without a path are files
of `internal/` of the repository; numbers after a colon are lines.

    tlc -workers 2 -config MCTradeFaults.cfg TradeExecution.tla
    tlapm TradeExecutionProofs.tla

Contents: [1 The system](#1-the-system), [2 Modules](#2-modules),
[3 Runs](#3-runs), [4 Proofs](#4-proofs),
[5 What the models say about the code](#5-what-the-models-say-about-the-code),
[6 What is left out](#6-what-is-left-out), [7 What remains](#7-what-remains).

## 1 The system

A tick from the WebSocket goes through a chain of goroutines and channels and may
come out as an order; an order is watched by a goroutine of its own until its
trade is in the database.

    bitFlyer WS -> market data service -> market data worker -> strategy worker
      -> (signal channel) -> signal worker -> risk manager -> trader.PlaceOrder
      -> order monitor (one goroutine per order) -> P&L calculator -> SQLite
                              |-> balance service, performance analytics

| Component | State | Operations | Must be right |
|---|---|---|---|
| Strategy worker (`adapter/worker/strategy_worker.go`) | last signal and last forced exit per symbol, tick/bar builders, 10 ticks at a time | tick or bar in, strategy, stop-loss / take-profit, duplicate filter, send to a bounded channel | one exit per crossing, no exit lost for good, bars closed once |
| Signal worker (`signal_worker.go`) | the order it works on; lot sizes | take a signal, risk check, size, place; close "ghost" positions | sells only what the bot bought; lots; limits |
| Risk manager (`usecase/risk/manager.go`) | trades and balance read from elsewhere | limits on loss, frequency, open positions | a limit holds with orders under way |
| Trader (`usecase/trading/bitflyer_trader.go`) | `mu`, shutdown context, wait group of monitors | PlaceOrder, GetBalance, Shutdown | no deadlock; no monitor lost or leaked |
| Order service (`order/order_service.go`), client (`infra/exchange/bitflyer/client.go`) | retry counters, rate limiter, connection | place / list orders with retries, connect, reconnect, close | an order is not executed twice; limits of the API |
| Order monitor (`monitor/order_monitor.go`) | its own copy of the order | poll each 15 s, final look after 90 s, save, refresh balance, callback | every order booked once, with what it executed |
| P&L calculator (`pnl/calculator.go`) | none: positions and trades tables | FIFO match, transaction, fallback without one | profit and positions agree with executions |
| Balance service (`balance/balance_service.go`) | cached balance and its time, `fetchMu` | GetBalance, InvalidateCache, UpdateBalanceToDB | no stale answer after an order; one request at a time |
| Persistence (`infra/persistence`) | SQLite: trades, positions, balances, app_state | upsert, transaction, clean-up | immutable trades; status of positions |
| Market data service and worker | subscriptions, callbacks, back-off, bounded channels | subscribe, reconnect, drop | the feed comes back; ticks in order |
| Engine (`pkg/engine/engine.go`), worker manager | trading switch, workers, channels | start, stop, enable / disable trading | ordered shutdown; switch persisted as it is |
| Maintenance worker | date of the last clean-up | daily clean-up of the database | no day skipped, nothing younger deleted |
| Strategy monitor, strategies | indicators, counters | signals, reset | (arithmetic) |
| Analytics (`usecase/analytics`) | metrics per day | recompute after each completed order | agrees with trades |
| Market specifications | cache of lot sizes | refresh, fall back | usable when the API is not |
| Backtest (`pkg/backtest`) | bars, portfolio, open position | next bar, fill, resample | no look-ahead, same bars as live |
| HTTP API / web UI (`adapter/http`) | configuration | read tables, switch trading, save the configuration | a crash leaves a configuration that loads |
| Logger (`logger/logger.go`) | entries before the database, log file and its size | write, rotate, compress, remove | startup entries saved, newest backups kept |
| Configuration (`config/config.go`) | - | load, expand variables, validate | what is saved can be loaded |

Interactions that are hard to test:

- *Order monitors run at the same time as each other and as the signal worker*, and
  share the positions table and the balance cache. Positions are read outside the
  transaction that rewrites them.
- *What the bot knows lags behind what happened*: an order executes at once, its
  monitor notices at the next poll, up to 15 s later.
- *Failures in the middle*: requests whose answer is lost are sent again, orders end
  partly executed or not at all, polls fail, the final look does not find the order,
  transactions fail and are replaced by single writes, the process restarts and no
  monitor is restored.
- *Time*: the 60 s / 10 min limits of the balance cache, the 90 s life of a monitor,
  the back-off of the feed, the 10 s and 30 s limits of shutdown.
- *Bounded channels*: signals and ticks are dropped, forced exits wait at most 5 s.

`PROJECT.json` lists every such hazard at its line, with the property that watches
it or the reason why none does.

## 2 Modules

| Module | Models | Uses |
|---|---|---|
| `PositionBook` | rows of the positions table, FIFO matching, `UpdateStatus`, `CloseOpenPositions` as operators | |
| `PnlCalculator` | bookings one after the other, with prices, fees and profit | `PositionBook`, `FifoLedger` |
| `FifoLedger` | abstract: a queue of single units and a profit | |
| `TradeExecution` | signal worker, risk limit, trader, exchange, order monitors, calculator with transaction and fallback, balance, restart | `PositionBook`, `HeldPosition` |
| `HeldPosition` | abstract: every order booked once for what it executed, no SELL beyond what is held | |
| `PositionBookProofs`, `PnlCalculatorProofs`, `TradeExecutionProofs` | lemmas on the operators of `PositionBook`; theorems on `PnlCalculator` and `TradeExecution` | `SumTheorems` |
| `BalanceCache` | every step of `GetBalance` with its two locks, callers and invalidations | |
| `BalanceCacheProofs` | theorems on `BalanceCache` | |
| `StrategyWorker` | ticks of one symbol, forced exits, filter, cooldown, signal channel, with and without bars | |
| `StrategyWorkerProofs` | theorems on `StrategyWorker` | |
| `MarketFeed`, `MarketFeedProofs` | connection, subscriptions, market data worker and their shutdown; theorems | |
| `MCServices` | the modules below in one run, one at a time: they share no state | the modules below |
| `EngineLifecycle` | start, shutdown, trading switch, wait for the monitors | |
| `Maintenance` | daily clean-up across restarts | |
| `ConfigFile` | loading and saving the configuration, with crashes | |
| `LogStore`, `LogFile` | log entries before, with and after the database; rotation and backups of the file | |
| `RateLimiter` | token bucket and retries of the client | |
| `MarketSpecs` | cache of trading limits | |
| `LossLimit` | risk limits on past trades and the metrics they read | |
| `BarAggregation` | bars of the live worker and of the backtest over the same ticks | |
| `Backtest` | engine, simulator, portfolio, cooldown of the strategy | |
| `WalkForward` | windows of the walk-forward evaluation and the bars of their runs | |
| `ServiceProofs` | theorems on all parts of `MCServices` | `SumTheorems` |
| `SumTheorems` | sums over finite sets, functions defined step by step, induction over numbers and sets | |

Conventions. Amounts are whole units (the code's are floats rounded to a lot; a unit
is the smallest amount the configuration of a run tells apart). A size of 0 in the
database and "no row" are different (`NoRow`). An operator whose comment starts with
*Slip:* is not part of a specification: it is a plausible mistake (a dropped guard,
an off-by-one, a missing release), put in place of the definition after it to see that
the properties notice.

### PositionBook and PnlCalculator

`Row` is a position (`domain/position.go`); its key is the number of its BUY, which is
also its age, as `GetOpenPositions` orders by `created_at`. `FifoMatches` is the loop of
`prepareSellData`, as the set of matchings that take from the oldest open rows until the
sale is covered; `PnlCalculator!MatchLoop` is the same loop statement by statement,
and `LoopIsFifo` checks they agree in every reachable book. `Consume` with
`UpdateStatus` is what the loop does to a row.

`PnlCalculator` books BUYs and SELLs in any order of completion (a BUY placed first may
complete last), with profit `(price - entry) * matched - fee`, and implements `FifoLedger`,
which knows nothing of rows: selling takes units off the front of a queue.

### TradeExecution

| Variable | In the program |
|---|---|
| `ex` | the orders on the exchange: state, side, size, executed units |
| `wallet` | the balance the exchange reports as available |
| `sw` | the signal worker: where in `processSignal`, with which order |
| `mon` | each monitor: where it is, its copy of the order, the rows `prepareSellData` built |
| `cache` | the balance cache: value and age class |
| `rows`, `trades` | the tables |

| Actions | Code |
|---|---|
| `TakeBuySignal`, `TakeSellSignal` | `processSignal` with `CheckRiskManagement`, rounding to lots |
| `ReadHoldings`, `SizeSell`, `CloseGhostPositions` | `getAvailableSellSize`, `createOrder`, `closeGhostPositions` |
| `CheckBalance`, `PlaceOrder`, `OrderRefused`, `RequestLost`, `ReplyLost` | `BitflyerTrader.PlaceOrder`, `OrderService.PlaceOrder`, `WithRetry` |
| `Execute`, `Kill`, `Transfer` | the exchange (IOC orders), the owner |
| `Poll`, `TimeOut` | `checkOrderStatus`, `saveFinalOrderState` |
| `SaveBuy`, `PrepareSell`, `CommitSell`, `PrepareFails`, `TransactionFails` | `CalculateAndSave` |
| `Fallback...` | `calculateAndSaveWithoutTx`, one action per write: each position of the plan is written, or not, on its own |
| `RefreshBalance` | the end of a COMPLETED poll: invalidation, new balance, callback |
| `CacheAges`, `ReadBalance` | time; other callers of `GetBalance` |
| `Crash` | the process ends and starts again: memory is lost, tables stay |

`Faults` names what may go wrong in a run: `"balance"` requests fail, `"old"` the cache ages,
`"transfer"` the owner withdraws, `"unfilled"` an order ends without execution, `"slow"` it
outlives its monitor, `"lookup"` the final look fails, `"missing"` it does not list the order,
`"reply"` answers are lost, `"db"` database calls fail, `"crash"` restarts. A call of
`GetBalance` is one step here; `BalanceCache` has its interior.

`CANCELED` stands for the three terminal states that are not `COMPLETED`; the code treats
them alike. The branch for authentication errors (`order_monitor.go:182-202`) is left out: no
code constructs the `APIError` it looks for, so it cannot be reached.

### BalanceCache

A balance is represented by the number of changes of the account it reflects, so "older" is a
comparison. Readers come through `BitflyerTrader.GetBalance` and hold `mu` shared until they
have their answer; `PlaceOrder` asks without it, invalidates after placing, and then takes `mu`
alone to start a monitor; a monitor invalidates and asks. Between `LockFetch` and `Store` or
`FallBack` a caller holds `fetchMu`. `seen`, `since`, `torn` and `passed` are history variables: no
guard reads them. `Leave` clears what a caller knew of its call, which only keeps the state space
small.

### StrategyWorker

| Variable | In the program |
|---|---|
| `barMode` | whether `barPeriod` is set: ticks one by one in `Run`, or a goroutine for each |
| `job` | each goroutine: where in `executeStrategy` / `processTickBarMode` it is, with what signal and price |
| `signalCh`, `sw` | the signal channel; what the signal worker took from it |
| `lastSent`, `cooling` | `lastSentSignals`; whether `lastForcedExitAttempt` is younger than 30 s |
| `open`, `past` | the symbol's open position, and whether the market is past its limits |
| `lastQueued`, `exited` | history, read by no guard |

`TakeTick` hands a tick to a free slot of the pool (with bars, only to `Loop`), with the price of that
moment, which may be out of date when the positions are read. `ReadPositions` stands for `checkStopLoss`
and `checkTakeProfit`: only whether one of them fires matters. `Filter`, `Clear`, `Queue`, `Mark` and
`StartCooldown` are separate, since the code takes no lock across them. Whether the signal worker makes an
order of a signal is left open here (`Process`); `TradeExecution` says which it does. Waiting for a slot of
the pool is the absence of a free one.

### MarketFeed

| Variable | In the program |
|---|---|
| `conn`, `tick` | each WebSocket connection: alive, dead without notice or being closed, whether `OnTicker` is installed, subscribed symbols; the message its handler works on |
| `wsClient`, `isConnected`, `clientClosed` | fields of `Client` |
| `callbacksInit`, `callbacks` | fields of `MarketDataService` |
| `worker` | where `MarketDataWorker.Run` is, and its local variables |
| `overdue` | whether the last tick is older than `staleDataTimeout` |
| `queued`, `saves` | ticks in `marketDataCh`; goroutines that hold `saveSemaphore` |
| `engine` | how far the shutdown is: cancelled, client being closed, closed, channels closed |
| `gaveUp`, `crashed` | history: `StopAll` timed out; a handler sent on the closed channel |

The worker's actions follow its loop: `Check`, the reconnect in the steps between which another goroutine can
come (`TakeOld` under the lock, `CloseOld` and `Dial` outside, `Adopt` under the lock again, `ResetCallbacks`),
one subscription after the other (`StartSubscription`, `InstallHandler`, `RegisterCallback`,
`RequestSubscription`), `Tally`, `Monitor`. `InstallHandler` and `RequestSubscription` read `wsClient` without a
lock and panic if it is gone; the worker manager recovers that, and does not start the worker again. While
`Client.Close` waits for the last handler it holds the client's lock (`Unlocked`). Of the back-off only that a
wait ends is kept. `Arrives`, `LookUp` and `Send` are a message's way through the global handler, the callback and
the channel; the tick may be dropped at each.

### EngineLifecycle

`phase` names what `run` does next when it shuts down: HTTP server, requests under way, cancellation, monitors,
WebSocket client, workers, channels, database. Every wait has a time-out, so each is a step that is always
possible; `gaveUp` remembers that the one for the monitors ran out. A request of the web UI changes memory under the lock
(`SetInMemory`) and the table outside it (`Save`, `SaveFails`). The signal worker and the monitors are here for what
they have to do with start and shutdown: the switch, the shutdown context, the wait group. A monitor counted after the
wait began is `"late"`. `Crash` may come at any time; nothing restores a monitor.

### The other parts of `MCServices`

- `Maintenance`: minutes pass one by one, timers fire on time. The clean-up is one transaction that works or does not.
- `ConfigFile`: two names (`configPath`, `tmpPath`) for inodes with contents; `os.WriteFile` is `OpenTemp` and `WriteTemp`, since
  a crash or another request may come between, `os.Rename` is `Rename`. Two requests use the same temporary name. After the
  rename a request reads the file without a lock (`LoadSaved`) and installs what it read under `configMu` (`Install`).
  `overlapped` and `crossed` are history: requests wrote at once; what was installed had been read before another renamed.
- `LogStore`: where each entry is on its way to the table. `LogFile`: a rotation under the lock, and its keeper outside it.
- `RateLimiter`: one ticker interval after the other. The limiter's goroutine receives a tick (`ReceiveTick`) and sends its token
  (`Replenish`) in two steps, so it may hold one tick while the ticker holds the next. `taken` counts tokens per interval, for this
  one and the `Rate` before it: a stretch as long as a period that begins within an interval touches `Rate + 1` of them.
- `MarketSpecs`: the double-checked read of the cache.
- `LossLimit`: trades are booked at any time, `UpdateMetrics` reads them when it runs and saves when it is done.
- `BarAggregation`: each tick goes to both aggregations.
- `Backtest`: the two bars that `Run` buffers, the exit check, the fill and the strategy's counters are one step per bar, as in
  the code. What the averages say is left open, so every decision is tried; prices of bars too.
- `WalkForward`: days and bars are numbers. A datasource is the condition its bars satisfy: for SQLite, the comparison of
  texts that its query makes.

`part` chooses which of them runs, the others keep one initial state (`Pinned`). A behaviour of the run is one of the
chosen module's specification, and all of them occur.

## 3 Runs

All bounds are constants of the `.cfg` files.

| Run | Shows | Bounds, and why they are enough |
|---|---|---|
| `pnl` | `LoopIsFifo`, `ImplementsFifoLedger`: matching and profit for every book | 4 orders of up to 2 units, 2 prices: two lots of different price, one used in part, a sale across both, a sale beyond both, a late BUY older than booked ones |
| `trade_serial` | `SellsOnlyItsOwn`, `WithinPositionLimit`, `RowsOnlyAge`, `ImplementsHeldPosition` when one order is under way at a time | 4 orders, sizes to 4, lots of 2, 75 % sells, shared wallet with one foreign unit: partial executions leave odd rests, so lot rounding, the "one lot" rule and ghost closing all occur |
| `trade_faults` | `IndInv` (with `RowsAddUp`), `TradesAgree`, `BookedForGood`, `MonitorsEnd` whatever fails | 3 orders, 2 under way, the first one a position already open; all faults but those of the balance, which no property here depends on |
| `double_match` | violation, see 5 | 3 orders of 2 units |
| `oversell` | violation, see 5 | 3 orders of 1 unit |
| `phantom` | violation, see 5 | 1 order |
| `balance_cache` | `IndInv`, `NoRedundantFetch`, `BalanceSinceInvalidation`, `CacheNeverGoesBack`, `CallsReturn` | a reader, a placer and a monitor, one of each kind so that each lock has a holder, a waiter and a bystander; two versions of the account, which is what "older" needs |
| `strategy_worker` | `IndInv`, `SuppressedIfQueued`, `OneExitPerCooldown`, `TicksFinish`, `StopIsServedWithBars` | two workers, so two ticks race for filter, cooldown and channel, or the loop runs alone with bars; a channel of one, so it is full whenever something is in it; positions unreadable, strategy failing |
| `stop_starved` | violation, see 5 | one worker, no faults |
| `market_feed` | `IndInv`, `FeedComplete`, `NoLeakedConnection`, `ClosedChannelUnused`, `PanicsAtShutdownOnly`, `FeedComesBack` | two symbols, so that subscriptions can be partial; three connections: one in use, one being closed, one just made; a channel and a semaphore of one, full as soon as used |
| `services` | one or two properties of each part, below | below |
| `backtest_delay` | violation, see 5 | six bars |

| Part of `services` | Shows | Bounds, and why they are enough |
|---|---|---|
| `EngineLifecycle` | `SwitchIsAsAnswered`, `MonitorsBeforeDatabase`, `ShutdownEnds` | two requests that can overlap, one order before, during or after the shutdown, two starts |
| `Maintenance` | `OldRowsGo` | days of 9 minutes with a window of 3 and a delay of 1, four of them, two kept: a start can fall before, in and after every window |
| `ConfigFile` | `ConfigOnDisk` | two requests, so that one may write, rename or install between any two steps of the other; two strategies, two inodes: a file and a temporary one |
| `LogStore` | `NoneStranded` | four entries, a buffer of two: full and overflowing |
| `LogFile` | `NewestBackupsKept` | three rotations, two backups kept, files of one entry |
| `RateLimiter` | `CallsAreMetered` | two calls, two tokens, one retry; the bound is reached (with one less TLC finds a counterexample) |
| `MarketSpecs` | `RefreshedOnlyIfNeeded` | three readers, so that two wait while one refreshes; a symbol without a specification |
| `LossLimit` | `MetricsCoverTrades` | three orders on two days, a loss, with and without an epoch |
| `BarAggregation` | `BarsAgree` | four ticks up to time 6, periods of 2, a history of 2 bars: gaps, late ticks and a full history |
| `Backtest` | `FillsUnseen`, `CashAccounted` | six bars with every range of two prices, the three rules: entry, exit by each way, and a second trade |
| `WalkForward` | `OutOfSample` | seven days of two bars, windows of 2 + 1 days, every range of given and probed days |

What the properties mean is in the comment above each. `RowsAddUp` and the like are not
type facts: they relate rows to the copies that SELLs under way hold and are about to write.

`CHECK_DEADLOCK FALSE` in the trade, P&L and services runs: order numbers, days, bars and the like are
bounded, so a behaviour ends when they are used up; in `market_feed`: the engine shuts down. `balance_cache` and `strategy_worker` check for deadlock.

Fairness.

- `MonitorFairness` (weak, per order, over all steps of its monitor): a monitor is a goroutine
  with a ticker and a deadline (`order_monitor.go:87-118`); nothing it waits for is without a
  time limit. The exchange is *not* fair in `trade_faults`: `MonitorsEnd` holds if it never answers.
- `ExchangeFairness` in `trade_serial` only: IOC orders end. It is needed for "what was executed
  is booked in the end" (`HeldPosition`'s weak fairness of `Book`).
- `BalanceCache!Fairness`: a call that is under way goes on. It is strong fairness because
  `LockFetch` is enabled only now and then; Go's mutexes hand the lock to the longest waiter
  after 1 ms (starvation mode) and a writer's unlock admits all waiting readers, so a waiting goroutine
  is not passed over for ever. Requests end: the HTTP client has a time-out.

- `StrategyWorker!Fairness` (weak): goroutines run on, ticks come in while the feed is up, the cooldown ends.
  The signal worker is not fair: `TicksFinish` holds if it never takes a signal again.
- `OrdinaryOperation` is a hypothesis inside `StopIsServed`, not fairness of the specification: the signal worker
  gets on, positions can be read now and then when a price is past a limit, and if forced exits have to wait
  for the channel again and again, some get through in their five seconds. Each part is needed: without it the
  code gives up by design, with an error in the log (`reportPositionReadFailure`, line 691).

- `MarketFeed!Fairness` (weak): worker, handlers and shutdown run on, each call of the library returns, and time passes
  where no data does (`overdue`). Connections may die and attempts fail for ever. `StableNetwork`, a hypothesis of
  `FeedComesBack` and not of the specification, says that from some time on they do not.
- `LifeFairness` (weak, over `ShutdownSteps`): the goroutine of `run` goes on. Requests, orders, monitors and workers are
  not fair: `ShutdownEnds` rests on the time-outs alone.

Nothing is assumed of callers: nobody has to start a call or send a signal.

## 4 Proofs

The seven `...Proofs` modules and `SumTheorems` are checked by tlapm without gaps. They hold for every value of the constants that
satisfies the modules' assumptions (ranges of the configuration, and that sets of identities are disjoint), every number of
orders, requests, connections, bars and days, and every set of faults (a theorem that needs more has it as its `ASSUME`). Every
invariant and every action property of a passing run is a theorem.

| Theorem | States |
|---|---|
| `BookTypeCorrect`, `LoopAlwaysFifo` | `TypeOK` and `LoopIsFifo` of `PnlCalculator` |
| `BookingsAreFifoLedger` | `ImplementsFifoLedger`: the tables implement the queue of units |
| `AlwaysIndInv` (trade) | the inductive invariant below |
| `TypeCorrect` | `TypeOK`: in particular no row's used or remaining size leaves the range of sizes |
| `RowsAlwaysAddUp` | used + remaining = size in every row and every prepared row |
| `TradesAlwaysAgree` | a final trade says what the exchange executed |
| `OrdersBookedForGood` | a trade once written stays as it is |
| `RowsAgeSerially` | `RowsOnlyAge`, with one order under way at a time, whatever fails |
| `LimitHoldsSerially` | `WithinPositionLimit`, with one order under way at a time and a database that answers |
| `SellsOnlyOwnSerially` | `SellsOnlyItsOwn`, with one order under way at a time and no fault but those of the balance |
| `KeepsBooksSerially` | `HeldPosition` without its fairness, under the same conditions: the safety part of `ImplementsHeldPosition` |
| `SellsTakeSerially` | `SellTakesWhatItFilled`, under the same conditions: what `double_match` refutes for two orders |
| `OneRequestAtATime`, `BalancesAreRecent`, `CacheOnlyAdvances` | the safety properties of `balance_cache` |
| `OnlyRepetitionsSuppressed`, `ExitsRespectCooldown` | the safety properties of `strategy_worker` |
| `FeedAlwaysComplete`, `NoConnectionLeaks`, `ClosedChannelNeverUsed`, `WorkerLostAtShutdownOnly` | the safety properties of `market_feed` |
| `SwitchAlwaysAsAnswered`, `DatabaseOutlivesMonitors` | the safety properties of `EngineLifecycle` |
| `ConfigAlwaysOnDisk` | `ConfigOnDisk` |
| `NoLookAhead`, `CashAlwaysAccounted` | `FillsUnseen` and `CashAccounted` of `Backtest` |
| `AlwaysOutOfSample` | `OutOfSample` of `WalkForward` |
| `NoDaySkipped` | `OldRowsGo` of `Maintenance` |
| `NoEntryStranded`, `NewestAlwaysKept` | `NoneStranded` of `LogStore`, `NewestBackupsKept` of `LogFile` |
| `CallsMetered` | `CallsAreMetered` of `RateLimiter` |
| `BarsAlwaysAgree` | `BarsAgree` of `BarAggregation` |
| `NoNeedlessRefresh` | `RefreshedOnlyIfNeeded` of `MarketSpecs` |
| `LimitKnowsTrades` | `MetricsCoverTrades` of `LossLimit` |

*Sums and recursion.* The models add up over sets (`SumFunctionOnSet`) and walk positions, bars and windows with recursive
functions. The library's induction theorems take an operator, which the provers cannot use, so `SumTheorems` states induction for a
*set*: one that contains 0 and with every number its successor contains all (`NumberInduction`, from the least element of the
complement), and likewise for the subsets of a finite set (`SetInduction`). A proof names the set of those `n` for which its claim
holds. `StepByStep` gives that a function whose value at `n` depends on the one at `n - 1` exists; from it follow what a sum over a set with
one element more is, in whatever order `CHOOSE` takes the elements, and the laws of sums.

*The matching loop.* `LoopInv`: after the positions up to order `n`, what is matched and what is left make up the fill; no position gives
more than it has; something is left only if all so far are used up. At the end that makes the match a member of `FifoMatches`
(`LoopMatches`), and there is one only (`OneFifoMatch`): two matches would differ first at some position, where the one that takes less
may take nothing from younger ones and so falls short of the total.

*The queue of units.* `UpTo(R, n)` counts the units the positions up to order `n` have left. `QueueOf` says which unit stands where by
these counts, and that `HeldUnits`, a flattened sequence of sequences, is such a queue is one induction (`UnitsQueue`); after that no
sequence is taken apart again. A BUY shifts the counts from its order on, so the new units stand between older and younger ones
(`QueueAfterBuy`). A SELL lowers each count by no more than the match as a whole, and by just that as soon as something is left
(`CountsAfterSell`), so what remains is the queue without its front (`QueueAfterSell`). The cost the loop adds up position by position is what was
paid for the front (`LoopPays`). The invariant beyond `BookInv` is that an order has no row before it is booked.

*Trade.* `TradesAgree` is not inductive. That a trade agrees with the exchange when it is written
needs that the monitor's copy does (`CopiesAgree`); this survives because an order that ended
does not change any more, which needs `OrdersInRange` (an ended order has no step) and that
a copy with a final status was taken from such an order. `BookedForGood` needs `NotBookedYet`:
while a monitor watches or saves, there is no trade of its order, so the step that writes one
overwrites nothing; after a restart the monitor is gone for good. `RowsAddUp` for the table needs
`RowsAddUp` for the plans, since a commit writes a plan that was made from an older table. The step
lemmas follow the actions: `LookStep` (poll, time-out), `SaveStep`, `FallbackStep`, `RefreshStep`,
`CrashStep` and the worker's, with `MonitorFrame` for what moving one monitor leaves alone.

*One order at a time.* Two properties are false when orders overlap (`double_match`, and the limit counts booked positions only),
and are theorems for `MaxInFlight = 1`. `SerialInv`: one monitor at work, the worker idle meanwhile, so what a SELL is about
to write is a later state of the rows as they still are (`PlansAge`). `LimitInv`: since the check of the signal there is room for
the position of a BUY that is not booked yet. `trade_serial` checks them with few faults; the theorems allow all, but for
`LimitHoldsSerially` those of the database, where the code lets the signal pass and the fallback writes without the check.

`SellsOnlyItsOwn` needs more: `HeldInv` says that open positions and booked SELLs together are covered by booked BUYs (`Balanced`), that a
SELL with the worker or its monitor is covered by the open positions (`SellsCovered`: sizing takes the lesser of balance and positions,
and nobody uses them up before it is booked), and that what a monitor is about to commit is a match of the rows as they are. It assumes
`Faults \subseteq MildFaults`: old or failing balances and withdrawals are allowed. Orders that end with nothing executed are not (`phantom` books
them), nor are orders that outlive their monitor, lost answers and restarts, after which an order is not booked at all, nor a failing database,
whose fallback writes in parts. `KeepsBooksSerially` also assumes `OpenAtStart = FALSE`, as an abstract history begins with nothing held.

*Balance.* `OneFetcher` (a caller is between taking and releasing `fetchMu` exactly if it holds it)
makes answers reach the cache in the order they were given: a caller about to store holds an answer
at least as new as the cache (`CacheRecent`), because nobody else stored since. What the cache holds is
as recent as the last invalidation unless `torn`; an invalidation empties the cache, so only an answer
on its way can violate this, and `passed` marks it.

*Strategy worker.* `SuppressedIfQueued` says nothing of the moment between the channel send and the store of
`lastSentSignals`; `MarksQueued` does, and `JobsInRange` (with bars only the Run loop works) keeps another
worker from storing meanwhile. `OneExitPerCooldown` follows from `ExitsCooled`: who queued a forced exit is
in the cooldown or about to start it, so who passed the cooldown's check has not. `OutsideStep` and
`InsideStep` do the common part for steps that end outside and inside the sending part; each action has a lemma.

*Market feed.* `FeedComplete` speaks of the moment the worker trusts a connection; `Progress` says what each step on the
way there has achieved: while the worker subscribes without a failure, every symbol that is neither to do nor under way
has its callback and, if the connection is alive, its subscription, and the handler is installed on the very connection
in use once a first symbol is through. A handler kept from an earlier connection would break it, which is why
`callbacksInit` must be reset before (`worker.pc \in {"check", "wait"} /\ isConnected => ~callbacksInit`). `Ownership` says who
holds which connection; that a closed client has none, and adopts none, makes `NoLeakedConnection` and `PanicsAtShutdownOnly` follow.
Each action of the module has a lemma.

*Engine.* `SwitchIsAsAnswered` says nothing while a request is between memory and table. `RequestsAgree` does: unless two
overlapped, the one that is there is alone and of one mind with memory, and the table still has what was answered last;
without a process no request is left. `NoneWatchedAfterWait` extends `MonitorsBeforeDatabase` to all phases behind the wait.

*Configuration.* A request that is alone has the temporary file to itself (`AloneInTemp`), empty until it has written; the
temporary file is never the file (`TwoFiles`). Hence what a lone request renames is whole, and nobody writes to the
file afterwards unless requests overlapped (`WholeFile`). A crash changes none of it. That the configuration in use is the file's
is about time: what a request has loaded and not installed is what the file has as long as no other has renamed since (`Fresh`; a rename
takes that mark from all the others), and who installs it then installs what the file has (`InUse`). Who installs an older load
sets `crossed`.

*Backtest.* The portfolio is sound (`Sound`: accounts agree, fills unseen) before and after each of the simulator's operations,
given that the bar of a fill is newer than the bar shown; `Lagging` says so of the two buffered bars.

*Walk-forward.* Windows were laid `StepDays` apart (`WindowsInv`). The rest is arithmetic of days and bars: midnights and days
are in order (`MidnightsInOrder`, `DaysInOrder`), so a run that ends on the day another begins shares with it at most the bar
of that midnight (`RunsApart`). The first day of a probed range exists since numbers are well-founded (`RangeBegins`).

*Maintenance.* `MaintInv`: while the worker loops, a day is cleaned up, or it is still in its window and the next look at the clock
is too (`ToCome`): midnight comes at most `Window` before that look. `NextMinute` is the arithmetic of days and minutes.

*Log store, specifications, loss limit.* The buffer is full as long as it says so (`StoreInv`). Who refreshes is alone, so the cache
is as it was. An update that is alone has every trade its order knew of (`SavesCover`); one that finds none to save leaves a row only if
the clean-up has deleted what the row misses (`ReadStep`).

*Log file.* Unless a keeper was overtaken or a step failed (`disturbed`), only the last rotation's keeper is at work and the backups are a
chain: compressed ones of successive rotations, and at the end its own in the form it has got to (`Chain`). What is no longer in the
chain is not among the newest `MaxBackups` or was too old (`GoneInOrder`). The clean-up reads the directory through filters
(`SelectSeq`); `Those` and its lemmas say what they leave of a chain.

*Rate limiter.* `MeteredInv`: all calls that began in the last `j` intervals are paid for by the bucket's first filling, one tick per interval
and the ticks held back when the stretch began, which are two at most: one in the ticker, one with the goroutine (`Held`). What is
not taken yet is in the bucket or held. A period is the case of the largest `j`.

*Bars.* As long as no tick was late, both histories have the same bar in the making, and the closed bars of the live one are the last
`HistoryLimit` of the resampled ones, as far as the strategy is shown of them (`BothAlike`). A tick keeps that whether it opens a bar or
falls into one; the end of the data closes the last.

Only model-checked: liveness (`MonitorsEnd`, `CallsReturn`, `TicksFinish`, `StopIsServedWithBars`, `FeedComesBack`, `ShutdownEnds`)
and the fairness of `HeldPosition` in `ImplementsHeldPosition`. Both need ENABLED, which the prover does not have.

## 5 What the models say about the code

Each is an entry of "findings" in `PROJECT.json`, with the quotation.

With a run that shows it:

- `double_match`: two SELL monitors that prepare before either commits match the same units; one
  reduction is lost (`calculator.go:75`, against DESIGN_DOC.md:844).
- `oversell`: a SELL executed but not yet booked still counts as an open position, so a second SELL is
  sized from it (`signal_worker.go:412`, against its own comment at 96-98). On a shared wallet the bot
  then sells units it never bought. `SellsOnlyItsOwn` holds with one order under way at a time.
- `phantom`: a BUY cancelled with nothing executed is booked as a position of its requested size
  (`calculator.go:58`). `trade_serial`, where every order executes something, has the properties this breaks.
- `stop_starved`: without bars (the default) stop-loss and take-profit are looked at only when the strategy does
  not answer SELL (`strategy_worker.go:724`, against 720-721). A strategy that goes on answering SELL after its
  first SELL was rejected has its repetitions filtered, and the position stays open past its stop.
  `StopIsServedWithBars`: with bars the limits are checked on every tick before the strategy, and this cannot happen.
- `backtest_delay`: a signal is filled two bars after the bar that caused it (`pkg/backtest/engine.go:104`, against 99): the loop shows
  the strategy a bar late, begins with a bar of zeros and never shows the last but one. It is no look-ahead (`FillsUnseen`),
  but backtests trade later than the live bot.

Without one:

- The forced-exit cooldown is checked before the send and stored after it, so without bars up to ten ticks can
  queue an exit each for one breach (`strategy_worker.go:750`); `OneExitPerCooldown` is per worker for that reason.
  A cooldown of 30 s is also shorter than the 90 s a monitor may take to book the first exit (`oversell`).
- The limit on open positions counts booked positions only (`risk/manager.go:325`).
- The fallback of `CalculateAndSave` writes table by table, so a position may be saved without its
  trade; DESIGN_DOC.md:1071 says all cross-table writes are one transaction.
- Any SELL that cannot be sized closes the open positions, also when the balance could not be read
  (`signal_worker.go:167`); the comment speaks of dust only.
- An answer under way undoes an invalidation (`balance_service.go:172`): `BalanceSinceInvalidation` needs its
  exception.

- A save of the trading switch that fails leaves memory changed, and asking again is then a success without a save
  (`pkg/engine/engine.go:456`); `SwitchIsAsAnswered` needs its exception.
- An order may be added to the monitors' wait group while it is waited for, or acknowledged after the cancellation and
  never be watched (`bitflyer_trader.go:138`).
- A start whose delay ends between 00:00 and 00:10 skips that day's clean-up (`maintenance.go:65`).
- Two requests that save the configuration share a temporary file, which can then be torn (`handler_data.go:379`).
- A log file that cannot be closed in a rotation takes no entry any more (`logger.go:452`).
- Two requests that save the configuration, even one after the other, may install what they loaded in the opposite order
  (`handler_data.go:304`): the older configuration stays in use. `ConfigOnDisk` needs its exception `crossed`.
- Up to 2 * `requests_per_minute` + 2 calls may begin in a minute (`client.go:348`), and retries take no token.
- The limit on the total loss is a percentage of what is available, not of the initial balance (`risk/manager.go:240`).
- A bar that holds both limits does not close the position under the rule "skip" (`pkg/backtest/simulator.go:56`).
- In the backtest, the first check of a new position's limits is on the bar before its entry bar (`pkg/backtest/engine.go:144`: the loop
  opens at `nextBar` and looks at the older `curr` on the next turn), so a position may be closed by a range that ended
  before it was opened. `Backtest` does the same; no property is about it.
- SQLite's date bounds compare texts of different form, so a run leaves its first day out and has its last (`datasource_sqlite.go:60`).

Smaller differences between documents and code, met on the way: the design document (6.5) lists status 429
among the retried errors and gives the balance cache 10 s, the code does not retry 429 and keeps the cache
for 60 s; "never UPDATEd" trades are written by an upsert, which `OrdersBookedForGood` shows to be harmless;
an order found COMPLETED only at the final look is booked but neither refreshes the balance nor calls the
completion callback.

## 6 What is left out

- Prices in `TradeExecution` (they are in `PnlCalculator`), several symbols (tables and limits are per
  symbol; the balance cache is shared and has its own module), floats (units instead).
- Lost updates through SQLite's locking: a transaction is one step and a failed one leaves no trace.
- In `TradeExecution`: the interior of `GetBalance`. Sizing takes the lesser of balance and positions,
  so a stale balance can make an order fail the exchange's own check but not sell foreign units; the run
  has stale balances and transfers.
- Risk limits on the amount and the interval of orders: they only reject.
- In `StrategyWorker`: values of bars (`BarAggregation` has them), the set of symbols traded, panics (a tick that
  panics ends like one whose strategy failed) and the end of the context, after which nothing more is queued.
- The strategy monitor worker, which changes nothing (`checkAndResetStrategy` is a placeholder).
- In `TradeExecution`, the shutdown context of monitors: `TimeOut` may happen at any time and stands for it;
  `EngineLifecycle` has the order of the shutdown.
- The client's `CancelOrder` and the subscriptions to executions and order books, which the bot does not use.
- The date overrides of a scenario (`DataOverride`), which replace the range a run of `WalkForward` is given.
- In `LossLimit`, a bound on the trades read: for the daily limit the code counts among the 100 most recent trades
  (`risk/manager.go:176`), the module from all. No property depends on it.
- The parameter grid of the backtest command and its ranking; reports; indicator arithmetic of strategies (a strategy's
  answer is left open everywhere, so what it computes cannot break a property).
- Ratios, drawdown and other figures of the analytics that are only shown.
- HTTP handlers that only read, `api.gen.go` (generated), wording and layout of log entries, web assets.

## 7 What remains

- Proofs: `SellsOnlyItsOwn` with more faults than those of the balance, to say which of them it survives (lost requests, failed
  polls that a later one makes good).
- Compositions: `TradeExecution` has its own short form of the balance cache and of the shutdown; running it with the
  interior of `BalanceCache` and the phases of `EngineLifecycle` is possible for one order only.
- Modelling: the parameter grid, should its ranking get a promise to keep.
