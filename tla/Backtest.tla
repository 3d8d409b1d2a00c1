---------------------------------- MODULE Backtest ----------------------------------
(***************************************************************************)
(* The backtest: the loop of pkg/backtest/engine.go, its fills             *)
(* (simulator.go), its cash and trades (portfolio.go), and of a strategy   *)
(* (example/strategy/scalping/strategy.go) what depends on earlier trades: *)
(* cooldown and daily limit.  Whether the averages say buy or sell is left *)
(* open.  An order is for one unit; rates are amounts per fill.  Bars are  *)
(* numbered from 1, and their number is their time.                        *)
(***************************************************************************)
EXTENDS Integers

CONSTANTS
  Prices,
  Bars,             \* bound on the bars of the datasource
  InitialBalance,
  Fee, Slip,        \* of a fill
  TakeProfit, StopLoss,
  WarmupBars, SlowPeriod,
  Cooldown, MaxDailyTrades, BarsPerDay

ASSUME BacktestAssumption ==
  /\ Prices \subseteq Nat \ {0} /\ Bars \in Nat
  /\ {InitialBalance, TakeProfit, StopLoss, MaxDailyTrades, BarsPerDay} \subseteq Nat \ {0}
  /\ {Fee, Slip, WarmupBars, Cooldown} \subseteq Nat /\ SlowPeriod \in Nat \ {0, 1}

VARIABLES
  rule,         \* SameBarRule
  barCount,     \* bars read from the datasource
  curr, nxt,    \* the two bars that Run buffers
  history,      \* number of bars that the strategy was shown
  seen,         \* the newest of them
  cash,
  position,     \* Portfolio.position, or Flat
  strat,        \* the strategy's last trade, its day and trades on it
  netPnl,       \* sum over Portfolio.trades
  lastTrade,    \* history: of the last trade, the bars at which things happened
  finished

portfolio == <<cash, position, netPnl, lastTrade>>
backtestVars == <<rule, barCount, curr, nxt, history, seen, portfolio, strat, finished>>

\* Go's zero values.
ZeroBar == [time |-> 0, open |-> 0, high |-> 0, low |-> 0, close |-> 0]
Flat == [entryTime |-> 0, entryPrice |-> 0, signalTime |-> 0]
NoTrade == [signalTime |-> 0, entryTime |-> 0, exitTime |-> 0, exitSeen |-> 0, reason |-> "none"]

BarsAt(t) ==
  {b \in [time : {t}, open : Prices, high : Prices, low : Prices, close : Prices] :
    b.low <= b.open /\ b.low <= b.close /\ b.open <= b.high /\ b.close <= b.high}

BacktestInit ==
  /\ rule \in {"sl_priority", "tp_priority", "skip"}
  /\ barCount = 0 /\ curr = ZeroBar /\ nxt = ZeroBar
  /\ history = 0 /\ seen = 0
  /\ cash = InitialBalance /\ position = Flat /\ netPnl = 0 /\ lastTrade = NoTrade
  /\ strat = [lastTradeTime |-> 0, lastTradeDate |-> -1, dailyTradeCount |-> 0]
  /\ finished = FALSE

-----------------------------------------------------------------------------
(* The portfolio and the simulator, on a record of the portfolio's state   *)

Now == [cash |-> cash, position |-> position, netPnl |-> netPnl, lastTrade |-> lastTrade]
Become(p) ==
  cash' = p.cash /\ position' = p.position /\ netPnl' = p.netPnl /\ lastTrade' = p.lastTrade

OpenLong(p, time, price) ==
  [p EXCEPT !.cash = @ - (price + Fee + Slip),
            !.position = [entryTime |-> time, entryPrice |-> price, signalTime |-> seen']]

\* Slip: the fee of the entry is not in the trade.
CloseWithoutEntryFee(p, time, price, slip, reason) ==
  [cash |-> p.cash + price - Fee - slip,
   netPnl |-> p.netPnl + price - p.position.entryPrice - Fee - (Slip + slip),
   position |-> Flat,
   lastTrade |-> [signalTime |-> p.position.signalTime, entryTime |-> p.position.entryTime,
                  exitTime |-> time, exitSeen |-> seen', reason |-> reason]]

CloseLong(p, time, price, slip, reason) ==
  [cash |-> p.cash + price - Fee - slip,
   netPnl |-> p.netPnl + (price - p.position.entryPrice) - (Fee + Fee) - (Slip + slip),
   position |-> Flat,
   lastTrade |-> [signalTime |-> p.position.signalTime, entryTime |-> p.position.entryTime,
                  exitTime |-> time, exitSeen |-> seen', reason |-> reason]]

\* Take-profit and stop-loss on the range of a bar.
HandleExit(p, bar) ==
  LET tp == p.position.entryPrice + TakeProfit
      sl == p.position.entryPrice - StopLoss
      tpHit == bar.high >= tp
      slHit == sl > 0 /\ bar.low <= sl
      takes == tpHit /\ (slHit => rule = "tp_priority")
      stops == slHit /\ (tpHit => rule = "sl_priority")
  IN IF p.position = Flat THEN p
     ELSE IF takes THEN CloseLong(p, bar.time, tp, Slip, "tp")
     ELSE IF stops THEN CloseLong(p, bar.time, sl, Slip, "sl")
     ELSE p

\* Whether a buy is filled at the open of a bar; its volume may be too small as well.
CanBuy(p, bar) == p.position = Flat /\ p.cash >= bar.open + Slip + Fee + Slip
CanSell(p) == p.position # Flat

\* Slip: fills at the open of the bar that the strategy was shown.
FillSeen(p, action, processed, nextBar) ==
  IF action = "BUY" THEN OpenLong(p, processed.time, processed.open + Slip)
  ELSE CloseLong(p, processed.time, processed.open - Slip, Slip, "signal")

\* HandleSignal, for a signal that is filled.
Fill(p, action, processed, nextBar) ==
  IF action = "BUY" THEN OpenLong(p, nextBar.time, nextBar.open + Slip)
  ELSE CloseLong(p, nextBar.time, nextBar.open - Slip, Slip, "signal")

-----------------------------------------------------------------------------
(* The strategy                                                            *)

Day(time) == time \div BarsPerDay

IsInCooldown ==
  strat.lastTradeTime # 0 /\ Cooldown # 0 /\ seen' - strat.lastTradeTime < Cooldown
IsDailyLimitReached ==
  strat.lastTradeDate = Day(seen') /\ strat.dailyTradeCount >= MaxDailyTrades

\* GenerateSignal may say BUY or SELL.
MayTrade == history' >= SlowPeriod /\ ~IsInCooldown /\ ~IsDailyLimitReached

\* The time of a trade is that of the newest bar shown to the strategy.
RecordTrade ==
  strat' = [lastTradeTime |-> seen', lastTradeDate |-> Day(seen'),
            dailyTradeCount |-> IF strat.lastTradeDate = Day(seen')
                                THEN strat.dailyTradeCount + 1 ELSE 1]

-----------------------------------------------------------------------------
(* Run                                                                     *)

\* The first bar is buffered.
FirstBar ==
  /\ barCount = 0 /\ Bars > 0
  /\ barCount' = 1
  /\ nxt' \in BarsAt(1)
  /\ UNCHANGED <<rule, curr, history, seen, portfolio, strat, finished>>

\* One turn of the loop.  curr is promoted from nxt only now, so the first turn shows the
\* strategy a bar of zeros, and each later turn the bar before the last but one.
NextBar ==
  /\ ~finished /\ barCount \in 1 .. Bars - 1
  /\ barCount' = barCount + 1
  /\ history' = history + 1 /\ seen' = curr.time
  /\ \E bar \in BarsAt(barCount') :
       LET p == HandleExit(Now, curr)
       IN /\ curr' = nxt /\ nxt' = bar
          /\ \/ Become(p) /\ UNCHANGED strat
             \/ \E action \in {"BUY", "SELL"} :
                  /\ barCount' > WarmupBars /\ MayTrade
                  /\ IF action = "BUY" THEN CanBuy(p, bar) ELSE CanSell(p)
                  /\ Become(Fill(p, action, curr, bar))
                  /\ RecordTrade
  /\ UNCHANGED <<rule, finished>>

\* The end of the data: the newest bar may hit a limit, else its close ends the position.
\* The bar before is never shown to the strategy nor checked against the limits.
Drain ==
  /\ ~finished /\ finished' = TRUE
  /\ UNCHANGED <<rule, barCount, curr, nxt, history, seen, strat>>
  /\ LET p == HandleExit(Now, nxt)
     IN Become(IF p.position = Flat THEN p ELSE CloseLong(p, nxt.time, nxt.close, 0, "end"))

BacktestNext == FirstBar \/ NextBar \/ Drain
BacktestSpec == BacktestInit /\ [][BacktestNext]_backtestVars

-----------------------------------------------------------------------------
(* Properties                                                              *)

\* Every variable has its type.
BacktestTypeOK ==
  /\ {barCount, history, seen, strat.dailyTradeCount, strat.lastTradeTime} \subseteq 0 .. Bars
  /\ curr \in {ZeroBar} \cup BarsAt(curr.time) /\ nxt \in {ZeroBar} \cup BarsAt(barCount)
  /\ cash \in Int /\ netPnl \in Int /\ finished \in BOOLEAN
  /\ rule \in {"sl_priority", "tp_priority", "skip"}
  /\ position \in [entryTime : 0 .. Bars, entryPrice : Nat, signalTime : 0 .. Bars]
  /\ lastTrade \in [signalTime : 0 .. Bars, entryTime : 0 .. Bars, exitTime : 0 .. Bars,
                    exitSeen : 0 .. Bars, reason : {"none", "tp", "sl", "signal", "end"}]

\* No look-ahead (simulator.go:75-76): an order is filled at a bar later than all that the
\* strategy had been shown when it decided, so the price of the fill cannot have led to it.
FillsUnseen ==
  /\ position # Flat => position.signalTime < position.entryTime
  /\ lastTrade.reason # "none" => lastTrade.signalTime < lastTrade.entryTime
  /\ lastTrade.reason = "signal" => lastTrade.exitSeen < lastTrade.exitTime

\* The cash that fills moved and the profits that trades state, which are computed apart,
\* agree (portfolio.go:79, 89-94), whichever way positions end; none is left at the end.
CashAccounted ==
  /\ cash = InitialBalance + netPnl
            - (IF position = Flat THEN 0 ELSE position.entryPrice + Fee + Slip)
  /\ finished => position = Flat

\* engine.go:99: "signals from bar N execute on bar N+1's open".
FillsOnNextBar ==
  lastTrade.reason # "none" => lastTrade.entryTime = lastTrade.signalTime + 1
=============================================================================
