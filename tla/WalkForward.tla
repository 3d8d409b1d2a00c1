-------------------------------- MODULE WalkForward --------------------------------
(***************************************************************************)
(* The walk-forward evaluation (pkg/backtest/cli/walkforward.go): which    *)
(* bars a window of days trains on and which it tests on.  The range is    *)
(* given or found by a probe; a window moves over it; a datasource (CSV or *)
(* SQLite, pkg/backtest/datasource_*.go) hands a run the bars of its days. *)
(* What a run makes of its bars is Backtest.  Days and bars are numbered   *)
(* from 0, and the first bar of a day is the one at midnight.              *)
(***************************************************************************)
EXTENDS Integers

CONSTANTS
  LastBar,                          \* the dataset has the bars 0 .. LastBar
  Slots,                            \* bars of a day
  TrainDays, TestDays, StepDays,    \* flags of the command
  RangeDays                         \* days that configuration and flags may name

ASSUME WalkAssumption ==
  /\ LastBar \in Nat /\ RangeDays \subseteq Nat
  /\ {Slots, TrainDays, TestDays, StepDays} \subseteq Nat \ {0}

VARIABLES
  dataSource,     \* data.source
  wfFrom, wfTo,   \* the days between which windows lie
  cursor,         \* first day of the next window
  windows,        \* the windows evaluated, with the bars of their two runs
  walkPc

walkVars == <<dataSource, wfFrom, wfTo, cursor, windows, walkPc>>

DayOf(bar) == bar \div Slots

\* The zero time.
Unset == -1

WalkInit ==
  /\ dataSource \in {"csv", "sqlite"}
  /\ wfFrom = Unset /\ wfTo = Unset /\ cursor = Unset
  /\ windows = {}
  /\ walkPc = "resolve"

-----------------------------------------------------------------------------
(* The datasources: whether a bar lies between two days, if they are set   *)

\* Midnights are compared, and both ends belong to the range.
CsvYields(bar, from, to) ==
  /\ from # Unset => bar >= from * Slots
  /\ to # Unset => bar <= to * Slots

\* Slip: the query as it would be had it compared dates.
DatesYield(bar, from, to) ==
  /\ from # Unset => DayOf(bar) >= from
  /\ to # Unset => DayOf(bar) <= to

\* Texts are compared: of a bar "2026-03-29 09:00:00+00:00", of a bound
\* "2026-03-29T00:00:00Z".  All bars of a day come before the bound of the same day.
SqliteYields(bar, from, to) ==
  /\ from # Unset => DayOf(bar) > from
  /\ to # Unset => DayOf(bar) <= to

\* The bars of a run.
Run(from, to) ==
  {bar \in 0 .. LastBar :
     IF dataSource = "csv" THEN CsvYields(bar, from, to) ELSE SqliteYields(bar, from, to)}

-----------------------------------------------------------------------------
(* resolveWalkForwardRange                                                 *)

Given(flag, config) == IF flag # Unset THEN flag ELSE config

Earliest(bars) == CHOOSE b \in bars : \A c \in bars : b <= c
Latest(bars) == CHOOSE b \in bars : \A c \in bars : b >= c

StartAt(from, to) ==
  wfFrom' = from /\ wfTo' = to /\ cursor' = from /\ walkPc' = "slice"

\* Flags go before the configuration; a day that neither sets is that of the first or
\* the last bar of a probe, which knows the configuration only.
ResolveRange ==
  /\ walkPc = "resolve"
  /\ \E flag, config \in [from : RangeDays \cup {Unset}, to : RangeDays \cup {Unset}] :
       LET from == Given(flag.from, config.from)
           to == Given(flag.to, config.to)
           probe == Run(config.from, config.to)
           probedFrom == IF from = Unset THEN DayOf(Earliest(probe)) ELSE from
           probedTo == IF to = Unset THEN DayOf(Latest(probe)) ELSE to
       IN IF Unset \notin {from, to} THEN StartAt(from, to)
          ELSE IF probe # {} /\ probedTo > probedFrom THEN StartAt(probedFrom, probedTo)
          ELSE walkPc' = "failed" /\ UNCHANGED <<wfFrom, wfTo, cursor>>
  /\ UNCHANGED <<dataSource, windows>>

-----------------------------------------------------------------------------
(* The loop of WalkForward                                                 *)

TrainTo == cursor + TrainDays
TestTo == TrainTo + TestDays

\* Without a successful run of each kind, a window is passed over.
NextWindow ==
  /\ walkPc = "slice" /\ TestTo <= wfTo
  /\ cursor' = cursor + StepDays
  /\ \/ UNCHANGED windows
     \/ windows' = windows \cup {[testFrom |-> TrainTo,
                                  train |-> Run(cursor, TrainTo), test |-> Run(TrainTo, TestTo)]}
  /\ UNCHANGED <<dataSource, wfFrom, wfTo, walkPc>>

EndWindows ==
  /\ walkPc = "slice" /\ TestTo > wfTo
  /\ walkPc' = "done"
  /\ UNCHANGED <<dataSource, wfFrom, wfTo, cursor, windows>>

WalkNext == ResolveRange \/ NextWindow \/ EndWindows
WalkSpec == WalkInit /\ [][WalkNext]_walkVars

-----------------------------------------------------------------------------
(* Properties                                                              *)

\* Every variable has its type.
WalkTypeOK ==
  /\ dataSource \in {"csv", "sqlite"}
  /\ {wfFrom, wfTo, cursor} \subseteq Nat \cup {Unset}
  /\ \A w \in windows : w.testFrom \in Nat /\ w.train \cup w.test \subseteq 0 .. LastBar
  /\ walkPc \in {"resolve", "slice", "done", "failed"}

\* The bars that both of two runs saw: none but, from a CSV file, the one at midnight
\* of the day on which one run ends and the other begins.
SharedBars(day) == IF dataSource = "csv" THEN {day * Slots} ELSE {}

\* Tests are out of sample (walkforward.go:31, "the only honest metrics"): a window tests
\* nothing it trained on and nothing earlier, whatever bounds the datasource and the window
\* set; and the aggregate counts no bar twice, if windows move on by a test or more.
OutOfSample ==
  \A w \in windows :
    /\ \A trained \in w.train, tested \in w.test :
         trained < tested \/ (trained = tested /\ tested \in SharedBars(w.testFrom))
    /\ StepDays >= TestDays =>
         \A v \in windows : w.testFrom < v.testFrom =>
           w.test \cap v.test \subseteq SharedBars(v.testFrom)
=============================================================================
