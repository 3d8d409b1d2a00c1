----------------------------- MODULE StrategyWorker -----------------------------
(***************************************************************************)
(* From ticks to signals (internal/adapter/worker/strategy_worker.go) for  *)
(* one symbol, with the signal worker as the consumer of the signal        *)
(* channel.  Without bars every tick has a goroutine of its own; with bars *)
(* the Run loop handles ticks one by one, and the strategy sees bars only. *)
(* A price is past the stop-loss or the take-profit of the open position   *)
(* or it is not; what a strategy answers is arbitrary.                     *)
(***************************************************************************)
EXTENDS Integers, Sequences

CONSTANTS
  Workers,    \* slots of the processing pool
  Loop,       \* the one of them that stands for the Run loop
  Capacity,   \* of the signal channel
  Faults      \* "db": positions may be unreadable; "strategy": Analyze may fail

ASSUME WorkerAssumption ==
  /\ Loop \in Workers
  /\ Capacity \in Nat \ {0}
  /\ Faults \subseteq {"db", "strategy"}

VARIABLES
  barMode,     \* SetBarPeriod was called with a period
  open,        \* the symbol has an open position, by the database
  past,        \* the market price is past its stop-loss or take-profit
  job,         \* of each worker: the tick it works on
  signalCh,    \* actions of the queued signals
  lastSent,    \* lastSentSignals
  cooling,     \* less than ForcedExitCooldown since lastForcedExitAttempt
  sw,          \* action of the signal the signal worker works on
  lastQueued,  \* history, with bars: action of the last signal queued since a HOLD
  exited       \* history: workers that queued a forced exit in this cooldown

history == <<lastQueued, exited>>
trading == <<open, past, sw>>
vars == <<barMode, trading, job, signalCh, lastSent, cooling, history>>

Sides == {"BUY", "SELL"}
Actions == Sides \cup {"HOLD"}

\* bar: the bar that the tick finished, by whether its close is past a limit.
Bars == {"no", "calm", "past"}
Free == [pc |-> "free", act |-> "HOLD", forced |-> FALSE, past |-> FALSE, bar |-> "no"]

Init ==
  /\ barMode \in BOOLEAN
  /\ open = FALSE /\ past = FALSE
  /\ job = [w \in Workers |-> Free]
  /\ signalCh = <<>>
  /\ lastSent = "none"
  /\ cooling = FALSE
  /\ sw = "none"
  /\ lastQueued = "none" /\ exited = {}

-----------------------------------------------------------------------------
(* Ticks                                                                   *)

Goto(w, pc) == job' = [job EXCEPT ![w].pc = pc]

\* What is left of a tick: the strategy, if it finished a bar.
Finish(w) ==
  job' = [job EXCEPT ![w] =
            IF job[w].bar = "no" THEN Free
            ELSE [Free EXCEPT !.pc = "analyse", !.past = (job[w].bar = "past")]]

\* The price is of no more use once it is known what to send.
Decide(w, act, forced) ==
  job' = [job EXCEPT ![w] = [@ EXCEPT !.pc = "gate", !.act = act, !.forced = forced,
                                      !.past = FALSE]]

\* A tick comes in; with bars, it may be the first one after its bar's end.
TakeTick(w) ==
  /\ job[w].pc = "free"
  /\ \/ ~barMode /\ job' = [job EXCEPT ![w] = [Free EXCEPT !.pc = "analyse", !.past = past]]
     \/ /\ barMode /\ w = Loop
        /\ \E b \in Bars :
             job' = [job EXCEPT ![w] = [Free EXCEPT !.pc = "risk", !.past = past, !.bar = b]]
  /\ UNCHANGED <<barMode, trading, signalCh, lastSent, cooling, history>>

\* The strategy's answer; only a SELL goes without a look at the positions.
Analyse(w) ==
  /\ job[w].pc = "analyse"
  /\ \/ Decide(w, "SELL", FALSE)
     \/ \E a \in {"BUY", "HOLD"} : job' = [job EXCEPT ![w].act = a, ![w].pc = "read"]
     \/ "strategy" \in Faults /\ Finish(w)
  /\ UNCHANGED <<barMode, trading, signalCh, lastSent, cooling, history>>

\* forcedExitSignal: stop-loss and take-profit of the open positions.
ReadPositions(w) ==
  /\ job[w].pc \in {"risk", "read"}
  /\ IF open /\ job[w].past THEN Decide(w, "SELL", TRUE)
     ELSE IF job[w].pc = "read" THEN Decide(w, job[w].act, FALSE) ELSE Finish(w)
  /\ UNCHANGED <<barMode, trading, signalCh, lastSent, cooling, history>>

\* The positions cannot be read: no exit, and no BUY either.
ReadFails(w) ==
  /\ "db" \in Faults
  /\ job[w].pc \in {"risk", "read"}
  /\ IF job[w].pc = "read" /\ job[w].act = "HOLD" THEN Decide(w, "HOLD", FALSE) ELSE Finish(w)
  /\ UNCHANGED <<barMode, trading, signalCh, lastSent, cooling, history>>

-----------------------------------------------------------------------------
(* Which signals are sent                                                  *)

\* A HOLD ends what was sent before; the same action again is not news.
Hold(w) ==
  /\ job[w].pc = "gate" /\ job[w].act = "HOLD"
  /\ lastSent' = "none" /\ lastQueued' = "none"
  /\ Finish(w)
  /\ UNCHANGED <<barMode, trading, signalCh, cooling, exited>>

\* Slip: forced exits go through the filter for repeated actions.
FilterAll(w) ==
  /\ job[w].pc = "gate" /\ job[w].act # "HOLD"
  /\ IF lastSent = job[w].act THEN Finish(w) ELSE Goto(w, "send")
  /\ UNCHANGED <<barMode, trading, signalCh, lastSent, cooling, history>>

Filter(w) ==
  /\ job[w].pc = "gate" /\ job[w].act # "HOLD"
  /\ IF job[w].forced THEN (IF cooling THEN Finish(w) ELSE Goto(w, "clear"))
     ELSE (IF lastSent = job[w].act THEN Finish(w) ELSE Goto(w, "send"))
  /\ UNCHANGED <<barMode, trading, signalCh, lastSent, cooling, history>>

\* A forced exit forgets what was sent before.
Clear(w) ==
  /\ job[w].pc = "clear"
  /\ lastSent' = "none"
  /\ Goto(w, "send")
  /\ UNCHANGED <<barMode, trading, signalCh, cooling, history>>

Room == Len(signalCh) < Capacity

\* sendSignal, when there is room, at once or within five seconds.
Queue(w) ==
  /\ job[w].pc \in {"send", "wait"}
  /\ Room
  /\ signalCh' = Append(signalCh, job[w].act)
  /\ lastQueued' = IF barMode THEN job[w].act ELSE lastQueued
  /\ exited' = IF job[w].forced THEN exited \cup {w} ELSE exited
  /\ Goto(w, "mark")
  /\ UNCHANGED <<barMode, trading, lastSent, cooling>>

\* Slip: a signal that was dropped counts as sent.
DropMarked(w) ==
  /\ job[w].pc = "send" /\ ~Room
  /\ IF job[w].forced THEN Goto(w, "wait") /\ UNCHANGED lastSent
     ELSE Finish(w) /\ lastSent' = job[w].act
  /\ UNCHANGED <<barMode, trading, signalCh, cooling, history>>

\* The channel is full: a strategy's signal is dropped, a forced exit waits.
Drop(w) ==
  /\ job[w].pc = "send" /\ ~Room
  /\ IF job[w].forced THEN Goto(w, "wait") ELSE Finish(w)
  /\ UNCHANGED <<barMode, trading, signalCh, lastSent, cooling, history>>

\* Slip: no timer, a forced exit waits until there is room.
NoTimer(w) == FALSE

\* The five seconds are over.
GiveUp(w) ==
  /\ job[w].pc = "wait"
  /\ Finish(w)
  /\ UNCHANGED <<barMode, trading, signalCh, lastSent, cooling, history>>

Mark(w) ==
  /\ job[w].pc = "mark"
  /\ lastSent' = job[w].act
  /\ IF job[w].forced THEN Goto(w, "cool") ELSE Finish(w)
  /\ UNCHANGED <<barMode, trading, signalCh, cooling, history>>

\* Slip: a forced exit does not start the cooldown.
NoCooldown(w) ==
  /\ job[w].pc = "cool"
  /\ Finish(w)
  /\ UNCHANGED <<barMode, trading, signalCh, lastSent, cooling, history>>

\* lastForcedExitAttempt is stored once the signal is queued.
StartCooldown(w) ==
  /\ job[w].pc = "cool"
  /\ cooling' = TRUE
  /\ Finish(w)
  /\ UNCHANGED <<barMode, trading, signalCh, lastSent, history>>

EndCooldown ==
  /\ cooling
  /\ cooling' = FALSE /\ exited' = {}
  /\ UNCHANGED <<barMode, trading, job, signalCh, lastSent, lastQueued>>

-----------------------------------------------------------------------------
(* Signal worker, positions and market                                     *)

Receive ==
  /\ sw = "none" /\ signalCh # <<>>
  /\ sw' = Head(signalCh) /\ signalCh' = Tail(signalCh)
  /\ UNCHANGED <<barMode, open, past, job, lastSent, cooling, history>>

\* processSignal ends, with an order or without (module TradeExecution).
Process ==
  /\ sw # "none"
  /\ sw' = "none"
  /\ UNCHANGED <<barMode, open, past, job, signalCh, lastSent, cooling, history>>

\* Orders are booked, or positions written off; the price moves.
PositionChanges ==
  /\ open' = ~open
  /\ UNCHANGED <<barMode, past, sw, job, signalCh, lastSent, cooling, history>>

PriceMoves ==
  /\ past' = ~past
  /\ UNCHANGED <<barMode, open, sw, job, signalCh, lastSent, cooling, history>>

-----------------------------------------------------------------------------
Tick(w) == \/ Analyse(w) \/ ReadPositions(w) \/ ReadFails(w) \/ Hold(w) \/ Filter(w) \/ Clear(w)
           \/ Queue(w) \/ Drop(w) \/ GiveUp(w) \/ Mark(w) \/ StartCooldown(w)

Next == \/ \E w \in Workers : TakeTick(w) \/ Tick(w)
        \/ EndCooldown \/ Receive \/ Process \/ PositionChanges \/ PriceMoves

\* Goroutines run on, ticks come in and time passes.  The signal worker may be
\* busy for as long as it likes.
Fairness ==
  /\ \A w \in Workers : WF_vars(TakeTick(w)) /\ WF_vars(Tick(w))
  /\ WF_vars(EndCooldown)

Spec == Init /\ [][Next]_vars /\ Fairness

\* In ordinary operation the signal worker gets on as well, the positions can be
\* read now and then when it matters, and of the forced exits that have to wait
\* some get through.
OrdinaryOperation ==
  /\ WF_vars(Receive \/ Process)
  /\ \A w \in Workers :
       /\ SF_vars(job[w].past /\ ReadPositions(w))
       /\ []<>(job[w].pc = "wait") => []<><<job[w].pc = "wait" /\ Queue(w)>>_vars

-----------------------------------------------------------------------------
(* Properties                                                              *)

Job == [pc : {"free", "risk", "analyse", "read", "gate", "clear", "send", "wait", "mark", "cool"},
        act : Actions, forced : BOOLEAN, past : BOOLEAN, bar : Bars]

\* Every variable has its type; the channel stays within its capacity.
TypeOK ==
  /\ barMode \in BOOLEAN /\ open \in BOOLEAN /\ past \in BOOLEAN /\ cooling \in BOOLEAN
  /\ job \in [Workers -> Job]
  /\ signalCh \in Seq(Sides) /\ Len(signalCh) <= Capacity
  /\ lastSent \in Sides \cup {"none"} /\ lastQueued \in Sides \cup {"none"}
  /\ sw \in Sides \cup {"none"}
  /\ exited \subseteq Workers

\* No worker queues two forced exits without a cooldown between them: with bars
\* there is one worker, so a position is not sold twice on one breach; without,
\* at most one exit per slot of the pool.
OneExitPerCooldown ==
  [][\A w \in Workers :
       job[w].forced /\ job[w].pc \in {"send", "wait"} /\ job'[w].pc = "mark" => w \notin exited]_vars

\* With bars, an action is suppressed as a repetition only if it is the last
\* one that was queued: what was dropped at a full channel is sent again.
SuppressedIfQueued ==
  barMode /\ job[Loop].pc # "mark" => lastSent \in {"none", lastQueued}

\* Every tick is done with in the end, even if the signal worker never takes
\* a signal again.
TicksFinish == \A w \in Workers : [](job[w].pc # "free" => <>(job[w].pc = "free"))

SellUnderWay == sw = "SELL" \/ \E i \in 1 .. Len(signalCh) : signalCh[i] = "SELL"

\* In ordinary operation a position whose price stays past its stop-loss is
\* sold, or tried to be sold again and again, whatever the strategy says
\* (strategy_worker.go:720-721, "regardless of the EMA signal").
StopIsServed == OrdinaryOperation => []<>(open /\ past => SellUnderWay)

\* With bars this is so.
StopIsServedWithBars == barMode => StopIsServed

-----------------------------------------------------------------------------
(* The inductive invariant                                                 *)

Sending == {"clear", "send", "wait", "mark", "cool"}

\* With bars only the Run loop works; what is being sent has a side.
JobsInRange ==
  \A w \in Workers :
    /\ barMode /\ w # Loop => job[w].pc = "free"
    /\ job[w].pc \in Sending => job[w].act \in Sides

\* A worker that queued a forced exit is followed by the cooldown, or about to
\* start it; one that passed the cooldown's gate has queued none since.
ExitsCooled ==
  \A w \in Workers :
    /\ w \in exited => cooling \/ (job[w].forced /\ job[w].pc \in {"mark", "cool"})
    /\ job[w].forced /\ job[w].pc \in {"clear", "send", "wait"} => w \notin exited

\* What the Run loop is about to remember as sent is what it queued last.
MarksQueued ==
  barMode /\ job[Loop].pc = "mark" => lastQueued = job[Loop].act

\* The invariant that the proofs of this module's safety properties need.
IndInv == TypeOK /\ JobsInRange /\ ExitsCooled /\ MarksQueued /\ SuppressedIfQueued
=============================================================================
