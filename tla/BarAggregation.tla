------------------------------- MODULE BarAggregation -------------------------------
(***************************************************************************)
(* Bars from ticks, twice: processTickBarMode of the strategy worker       *)
(* (adapter/worker/strategy_worker.go), for live trading, and the          *)
(* ResamplingDatasource of the backtest (pkg/backtest/                     *)
(* datasource_resample.go), here over the same ticks of one symbol.        *)
(***************************************************************************)
EXTENDS Integers, Sequences, SequencesExt

CONSTANTS
  TickPrices, TickVolumes,
  Period,       \* bar period
  LastTick,     \* bound on the time of ticks
  HistoryLimit, \* of completed bars in the worker
  MaxTicks      \* bound on the number of ticks

ASSUME BarsAssumption ==
  /\ TickPrices \subseteq Nat /\ TickVolumes \subseteq Nat
  /\ Period \in Nat \ {0} /\ LastTick \in Nat
  /\ HistoryLimit \in Nat \ {0} /\ MaxTicks \in Nat

VARIABLES
  ticks,        \* number of ticks so far
  newest,       \* the latest time among them
  live,         \* the symbol's history in the worker: open bar and completed bars
  resampled,    \* the datasource: current bucket and the bars it has returned
  eof,          \* the datasource's input has ended
  late          \* history: a tick came after one of a later bucket

barVars == <<ticks, newest, live, resampled, eof, late>>

NoBar == [start |-> -1, high |-> 0, low |-> 0, close |-> 0, volume |-> 0]

BarsInit ==
  /\ ticks = 0 /\ newest = 0 /\ eof = FALSE /\ late = FALSE
  /\ live = [open |-> NoBar, bars |-> <<>>]
  /\ resampled = [open |-> NoBar, bars |-> <<>>]

BucketStart(time) == Period * (time \div Period)

\* A bar of one tick, and a bar with a tick folded in.
NewBar(tick) ==
  [start |-> BucketStart(tick.time), high |-> tick.price, low |-> tick.price,
   close |-> tick.price, volume |-> tick.volume]
FoldIn(bar, tick) ==
  [bar EXCEPT !.high = IF tick.price > @ THEN tick.price ELSE @,
              !.low = IF tick.price < @ THEN tick.price ELSE @,
              !.close = tick.price, !.volume = @ + tick.volume]

\* What the strategy is shown of a completed live bar: neither high nor low.
Shown(bar) == [start |-> bar.start, close |-> bar.close, volume |-> bar.volume]

LastOf(s, n) == IF Len(s) > n THEN SubSeq(s, Len(s) - n + 1, Len(s)) ELSE s

\* The worker completes a bar with the first tick of a later one; a tick of an earlier
\* bar is dropped.
ProcessTickBarMode(h, tick) ==
  IF h.open = NoBar THEN [h EXCEPT !.open = NewBar(tick)]
  ELSE IF BucketStart(tick.time) = h.open.start THEN [h EXCEPT !.open = FoldIn(@, tick)]
  ELSE IF BucketStart(tick.time) > h.open.start
  THEN [open |-> NewBar(tick), bars |-> LastOf(Append(h.bars, Shown(h.open)), HistoryLimit)]
  ELSE h

\* Slip: the tick that ends a bar is lost instead of held back for the next one.
ReadWithoutPending(r, tick) ==
  IF r.open = NoBar THEN [r EXCEPT !.open = NewBar(tick)]
  ELSE IF BucketStart(tick.time) = r.open.start THEN [r EXCEPT !.open = FoldIn(@, tick)]
  ELSE [open |-> NoBar, bars |-> Append(r.bars, r.open)]

\* The datasource returns a bar when it reads a tick of another bucket, earlier or later,
\* and holds the tick back to open the next bar.
ReadTick(r, tick) ==
  IF r.open = NoBar THEN [r EXCEPT !.open = NewBar(tick)]
  ELSE IF BucketStart(tick.time) = r.open.start THEN [r EXCEPT !.open = FoldIn(@, tick)]
  ELSE [open |-> NewBar(tick), bars |-> Append(r.bars, r.open)]

Tick ==
  /\ ticks < MaxTicks /\ ~eof
  /\ \E time \in 0 .. LastTick, price \in TickPrices, volume \in TickVolumes :
       LET tick == [time |-> time, price |-> price, volume |-> volume]
       IN /\ live' = ProcessTickBarMode(live, tick)
          /\ resampled' = ReadTick(resampled, tick)
          /\ newest' = IF time > newest THEN time ELSE newest
          /\ late' = (late \/ BucketStart(time) < BucketStart(newest))
  /\ ticks' = ticks + 1
  /\ UNCHANGED eof

\* At the end of its input the datasource returns the bar it has; the worker does not.
EndOfInput ==
  /\ ~eof /\ eof' = TRUE
  /\ resampled' = IF resampled.open = NoBar THEN resampled
                  ELSE [open |-> NoBar, bars |-> Append(resampled.bars, resampled.open)]
  /\ UNCHANGED <<ticks, newest, live, late>>

BarsNext == Tick \/ EndOfInput
BarsSpec == BarsInit /\ [][BarsNext]_barVars

-----------------------------------------------------------------------------
(* Properties                                                              *)

Bar == [start : Int, high : Nat, low : Nat, close : Nat, volume : Nat]

\* Every variable has its type.
BarsTypeOK ==
  /\ ticks \in 0 .. MaxTicks /\ newest \in 0 .. LastTick /\ eof \in BOOLEAN /\ late \in BOOLEAN
  /\ live.open \in Bar /\ live.bars \in Seq([start : Nat, close : Nat, volume : Nat])
  /\ resampled.open \in Bar /\ resampled.bars \in Seq(Bar)

\* Live bars are those of the backtest (strategy_worker.go:137-138): over ticks that do not
\* fall behind a bar, the history shown to the live strategy is the end of what the
\* backtest replays, but for the last bar, which only the backtest takes as complete.
BarsAgree ==
  LET all == IF resampled.open = NoBar THEN resampled.bars ELSE Append(resampled.bars, resampled.open)
  IN ~late =>
       /\ (live.open = NoBar) = (all = <<>>)
       /\ all # <<>> =>
            /\ Last(all) = live.open
            /\ live.bars = LastOf([i \in 1 .. Len(all) - 1 |-> Shown(all[i])], HistoryLimit)
=============================================================================
