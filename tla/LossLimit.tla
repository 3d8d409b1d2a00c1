---------------------------------- MODULE LossLimit ----------------------------------
(***************************************************************************)
(* Limits that look at past trades: CheckRiskManagement of                 *)
(* usecase/risk/manager.go, and the performance row that the total loss is *)
(* read from, which usecase/analytics/performance.go computes after each   *)
(* order that the signal worker placed, in a goroutine of its own.  Trades *)
(* are booked when their orders complete, at any time.                     *)
(***************************************************************************)
EXTENDS Integers, Sequences, SequencesExt, FiniteSetsExt

CONSTANTS
  Losses, Gains,                    \* sizes of a trade's negative and other results
  Balances, Capital,                \* JPY available at a check, and as configured
  MaxTotalLossPercent, MaxDaily,    \* the limits
  MaxOrders, MaxDay                 \* bounds

ASSUME LossAssumption ==
  /\ Losses \subseteq Nat /\ Gains \subseteq Nat /\ Balances \subseteq Nat /\ Capital \in Nat
  /\ {MaxTotalLossPercent, MaxDaily, MaxOrders, MaxDay} \subseteq Nat

VARIABLES
  trades,       \* trades booked so far: result and day
  deleted,      \* how many of them the clean-up has deleted
  metrics,      \* newest performance row of the last 30 days, or NoMetrics
  epoch,        \* the index of the first trade since PnLEpoch, or 0 for no epoch
  today,
  passed,       \* the signal worker is between the risk check and PlaceOrder
  placed,       \* orders placed
  update,       \* of each order placed, its UpdateMetrics
  placedAt,     \* history: number of trades booked when the last order was placed
  mixed         \* history: an update failed, or overlapped with another

lossVars == <<trades, deleted, metrics, epoch, today, passed, placed, update, placedAt, mixed>>

Placements == 1 .. MaxOrders
Results == {-l : l \in Losses} \cup Gains
NoMetrics == [upTo |-> 0, total |-> 0]
NoUpdate == [pc |-> "none", row |-> NoMetrics]
InFlight == {o \in Placements : update[o].pc \in {"read", "save"}}

LossInit ==
  /\ trades = <<>> /\ deleted = 0 /\ metrics = NoMetrics /\ epoch \in {0, 2} /\ today = 0
  /\ passed = FALSE /\ placed = 0 /\ update = [o \in Placements |-> NoUpdate]
  /\ placedAt = 0 /\ mixed = FALSE

-----------------------------------------------------------------------------
(* The risk check                                                          *)

Total(from) == MapThenSumSet(LAMBDA i : trades[i].result, from .. Len(trades))
Oldest == deleted + 1

\* cumulativePnL: from the row, or from the trades since the epoch.
CumulativePnL ==
  IF epoch = 0 THEN metrics.total ELSE Total(IF epoch > Oldest THEN epoch ELSE Oldest)

\* checkTotalLossLimit, against the JPY that is available now.
WithinLossLimit(available) ==
  LET assets == IF available > 0 THEN available ELSE Capital
  IN CumulativePnL >= 0 \/ assets = 0 \/ -CumulativePnL * 100 <= MaxTotalLossPercent * assets

\* checkDailyTradeLimit: trades that were booked, not orders that were placed.
WithinDailyLimit ==
  Quantify(Oldest .. Len(trades), LAMBDA i : trades[i].day = today) < MaxDaily

\* An ordinary signal.  It may also fail for its amount or the time since the last trade.
CheckRiskManagement ==
  /\ ~passed /\ placed < MaxOrders
  /\ \E available \in Balances : WithinLossLimit(available)
  /\ WithinDailyLimit
  /\ passed' = TRUE
  /\ UNCHANGED <<trades, deleted, metrics, epoch, today, placed, update, placedAt, mixed>>

\* A stop-loss or take-profit is checked against no limit.
ForcedExit ==
  /\ ~passed /\ placed < MaxOrders
  /\ passed' = TRUE
  /\ UNCHANGED <<trades, deleted, metrics, epoch, today, placed, update, placedAt, mixed>>

-----------------------------------------------------------------------------
(* Orders and trades                                                       *)

PlaceOrder ==
  /\ passed /\ passed' = FALSE
  /\ placed' = placed + 1
  /\ update' = [update EXCEPT ![placed'].pc = "read"]
  /\ placedAt' = Len(trades)
  /\ mixed' = (InFlight # {})
  /\ UNCHANGED <<trades, deleted, metrics, epoch, today>>

OrderFails ==
  /\ passed /\ passed' = FALSE
  /\ UNCHANGED <<trades, deleted, metrics, epoch, today, placed, update, placedAt, mixed>>

BookTrade ==
  /\ Len(trades) < placed
  /\ \E r \in Results : trades' = Append(trades, [result |-> r, day |-> today])
  /\ UNCHANGED <<deleted, metrics, epoch, today, passed, placed, update, placedAt, mixed>>

-----------------------------------------------------------------------------
(* UpdateMetrics                                                           *)

\* tradesInScope and CalculateFromTrades.  Without trades nothing is saved.
ReadTrades(o) ==
  /\ update[o].pc = "read"
  /\ LET from == IF epoch > Oldest THEN epoch ELSE Oldest
     IN update' = [update EXCEPT ![o] =
                    IF Len(trades) < from THEN [NoUpdate EXCEPT !.pc = "done"]
                    ELSE [pc |-> "save", row |-> [upTo |-> Len(trades), total |-> Total(from)]]]
  /\ UNCHANGED <<trades, deleted, metrics, epoch, today, passed, placed, placedAt, mixed>>

Saved(o) == update' = [update EXCEPT ![o] = [NoUpdate EXCEPT !.pc = "done"]]

\* Slip: a row that is there already is kept.
InsertOrIgnore(o) ==
  /\ update[o].pc = "save"
  /\ metrics' = IF metrics = NoMetrics THEN update[o].row ELSE metrics
  /\ Saved(o)
  /\ UNCHANGED <<trades, deleted, epoch, today, passed, placed, placedAt, mixed>>

\* SavePerformanceMetric replaces the row of the day, whichever of two updates comes last.
SavePerformanceMetric(o) ==
  /\ update[o].pc = "save"
  /\ metrics' = update[o].row
  /\ Saved(o)
  /\ UNCHANGED <<trades, deleted, epoch, today, passed, placed, placedAt, mixed>>

UpdateFails(o) ==
  /\ o \in InFlight
  /\ Saved(o)
  /\ mixed' = TRUE
  /\ UNCHANGED <<trades, deleted, metrics, epoch, today, passed, placed, placedAt>>

-----------------------------------------------------------------------------

NextDay ==
  /\ today < MaxDay /\ today' = today + 1
  /\ UNCHANGED <<trades, deleted, metrics, epoch, passed, placed, update, placedAt, mixed>>

\* Thirty days without an order, or the clean-up: the row does not count any more.
MetricsExpire ==
  /\ metrics # NoMetrics /\ InFlight = {} /\ ~passed
  /\ metrics' = NoMetrics
  /\ UNCHANGED <<trades, deleted, epoch, today, passed, placed, update, placedAt, mixed>>

\* CleanupOldData, of trades of earlier days.
DeleteOldTrade ==
  /\ deleted < Len(trades) /\ trades[Oldest].day < today
  /\ deleted' = deleted + 1
  /\ UNCHANGED <<trades, metrics, epoch, today, passed, placed, update, placedAt, mixed>>

LossNext ==
  \/ CheckRiskManagement \/ ForcedExit \/ PlaceOrder \/ OrderFails \/ BookTrade
  \/ NextDay \/ MetricsExpire \/ DeleteOldTrade
  \/ \E o \in Placements : ReadTrades(o) \/ SavePerformanceMetric(o) \/ UpdateFails(o)
LossSpec == LossInit /\ [][LossNext]_lossVars

-----------------------------------------------------------------------------
(* Properties                                                              *)

Metrics == [upTo : 0 .. MaxOrders, total : Int]

\* Every variable has its type.
LossTypeOK ==
  /\ trades \in Seq([result : Results, day : 0 .. today]) /\ deleted \in 0 .. Len(trades)
  /\ metrics \in Metrics /\ epoch \in {0, 2} /\ today \in 0 .. MaxDay
  /\ passed \in BOOLEAN /\ mixed \in BOOLEAN /\ placed \in 0 .. MaxOrders
  /\ update \in [Placements -> [pc : {"none", "read", "save", "done"}, row : Metrics]]
  /\ placedAt \in 0 .. Len(trades)

\* What the total loss limit does not know of are only trades booked since the last order
\* was placed (manager.go:277-289): the row, as long as it counts, has all before, or the
\* clean-up has deleted them.  Unless the last updates failed or overlapped, when the
\* older of two may have been saved last.
MetricsCoverTrades ==
  ~mixed /\ InFlight = {} /\ metrics # NoMetrics => placedAt <= metrics.upTo \/ placedAt <= deleted
=============================================================================
