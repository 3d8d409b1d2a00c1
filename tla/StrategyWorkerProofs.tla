--------------------------- MODULE StrategyWorkerProofs ---------------------------
(***************************************************************************)
(* Theorems on StrategyWorker, for every pool of workers, every capacity   *)
(* of the signal channel and every set of faults: what a worker remembers  *)
(* as sent was queued, and no worker repeats a forced exit in a cooldown.  *)
(***************************************************************************)
EXTENDS StrategyWorker, TLAPS

USE WorkerAssumption

\* Initially no worker works and nothing was sent.
LEMMA InitIndInv ==
  ASSUME Init
  PROVE  IndInv
<1>1. Free \in Job
  BY DEF Free, Job, Actions, Sides, Bars
<1>2. job \in [Workers -> Job]
  BY <1>1 DEF Init
<1>3. signalCh \in Seq(Sides) /\ Len(signalCh) <= Capacity
  BY DEF Init
<1>4. TypeOK
  BY <1>2, <1>3 DEF Init, TypeOK
<1>5. JobsInRange /\ ExitsCooled /\ MarksQueued /\ SuppressedIfQueued
  BY DEF Init, JobsInRange, ExitsCooled, MarksQueued, SuppressedIfQueued, Free, Sending
<1> QED
  BY <1>4, <1>5 DEF IndInv

-----------------------------------------------------------------------------
(* How the three helpers change a job                                      *)

Places == {"free", "risk", "analyse", "read", "gate", "clear", "send", "wait", "mark", "cool"}

\* Everybody but w keeps the job.
Others(w) == \A v \in Workers \ {w} : job'[v] = job[v]

\* A step of worker w from one place of the code to the next.
LEMMA GotoJob ==
  ASSUME TypeOK, NEW w \in Workers, NEW pc \in Places, Goto(w, pc)
  PROVE  /\ job' \in [Workers -> Job]
         /\ Others(w)
         /\ job'[w].pc = pc /\ job'[w].act = job[w].act /\ job'[w].forced = job[w].forced
<1>1. job[w] \in Job /\ job \in [Workers -> Job]
  BY DEF TypeOK
<1>2. [job[w] EXCEPT !.pc = pc] \in Job
  BY <1>1 DEF Job, Places
<1>3. job' = [job EXCEPT ![w] = [job[w] EXCEPT !.pc = pc]]
  BY <1>1 DEF Goto
<1> QED
  BY <1>1, <1>2, <1>3 DEF Others, Job

\* Finish: the worker is free or turns to the strategy.
LEMMA FinishJob ==
  ASSUME TypeOK, NEW w \in Workers, Finish(w)
  PROVE  /\ job' \in [Workers -> Job]
         /\ Others(w)
         /\ job'[w].pc \in {"free", "analyse"}
<1>1. job[w] \in Job /\ job \in [Workers -> Job]
  BY DEF TypeOK
<1> DEFINE next == IF job[w].bar = "no" THEN Free
                   ELSE [Free EXCEPT !.pc = "analyse", !.past = (job[w].bar = "past")]
<1>2. next \in Job /\ next.pc \in {"free", "analyse"}
  BY DEF Job, Free, Actions, Sides, Bars
<1>3. job' = [job EXCEPT ![w] = next]
  BY DEF Finish
<1> HIDE DEF next
<1> QED
  BY <1>1, <1>2, <1>3 DEF Others

\* Decide: the worker stands at the gate with what is to be sent.
LEMMA DecideJob ==
  ASSUME TypeOK, NEW w \in Workers, NEW act \in Actions, NEW forced \in BOOLEAN,
         Decide(w, act, forced)
  PROVE  /\ job' \in [Workers -> Job]
         /\ Others(w)
         /\ job'[w].pc = "gate"
<1>1. job[w] \in Job /\ job \in [Workers -> Job]
  BY DEF TypeOK
<1> DEFINE next == [job[w] EXCEPT !.pc = "gate", !.act = act, !.forced = forced, !.past = FALSE]
<1>2. next \in Job /\ next.pc = "gate"
  BY <1>1 DEF Job
<1>3. job' = [job EXCEPT ![w] = next]
  BY <1>1 DEF Decide
<1> HIDE DEF next
<1> QED
  BY <1>1, <1>2, <1>3 DEF Others

-----------------------------------------------------------------------------
(* Steps of a worker                                                       *)

\* What a worker's step leaves alone or keeps in its type.
RestTyped ==
  /\ UNCHANGED barMode
  /\ open' \in BOOLEAN /\ past' \in BOOLEAN /\ cooling' \in BOOLEAN
  /\ signalCh' \in Seq(Sides) /\ Len(signalCh') <= Capacity
  /\ lastSent' \in Sides \cup {"none"} /\ lastQueued' \in Sides \cup {"none"}
  /\ sw' \in Sides \cup {"none"}
  /\ exited' \subseteq Workers

LEMMA TypeStep ==
  ASSUME TypeOK, RestTyped, job' \in [Workers -> Job]
  PROVE  TypeOK'
BY DEF TypeOK, RestTyped

\* With bars, a worker that is not free is the Run loop.
LEMMA AtLoop ==
  ASSUME IndInv, NEW w \in Workers, barMode, job[w].pc # "free"
  PROVE  w = Loop
BY DEF IndInv, JobsInRange

\* A worker whose step ends outside the sending part.
LEMMA OutsideStep ==
  ASSUME IndInv, NEW w \in Workers, RestTyped,
         job' \in [Workers -> Job], Others(w),
         job'[w].pc \notin Sending,
         barMode => w = Loop,
         w \in exited => cooling,
         UNCHANGED <<cooling, exited>>,
         barMode => lastSent' \in {"none", lastQueued'}
  PROVE  IndInv'
<1>1. TypeOK'
  BY TypeStep DEF IndInv
<1>2. JobsInRange'
  <2> SUFFICES ASSUME NEW v \in Workers
               PROVE  /\ barMode' /\ v # Loop => job'[v].pc = "free"
                      /\ job'[v].pc \in Sending => job'[v].act \in Sides
    BY DEF JobsInRange
  <2>1. CASE v = w
    BY <2>1 DEF RestTyped
  <2>2. CASE v # w
    BY <2>2 DEF Others, IndInv, JobsInRange, RestTyped
  <2> QED
    BY <2>1, <2>2
<1>3. ExitsCooled'
  <2> SUFFICES ASSUME NEW v \in Workers
               PROVE  /\ v \in exited' => cooling' \/ (job'[v].forced /\ job'[v].pc \in {"mark", "cool"})
                      /\ job'[v].forced /\ job'[v].pc \in {"clear", "send", "wait"} => v \notin exited'
    BY DEF ExitsCooled
  <2>1. CASE v = w
    BY <2>1 DEF Sending
  <2>2. CASE v # w
    BY <2>2 DEF Others, IndInv, ExitsCooled
  <2> QED
    BY <2>1, <2>2
<1>4. MarksQueued'
  BY DEF MarksQueued, RestTyped, Sending
<1>5. SuppressedIfQueued'
  BY DEF SuppressedIfQueued, RestTyped
<1> QED
  BY <1>1, <1>2, <1>3, <1>4, <1>5 DEF IndInv

\* A worker whose step ends in the sending part, with the cooldown as it was.
LEMMA InsideStep ==
  ASSUME IndInv, NEW w \in Workers, RestTyped,
         job' \in [Workers -> Job], Others(w),
         job'[w].pc \in Sending, job'[w].act \in Sides,
         barMode => w = Loop,
         UNCHANGED cooling,
         \A v \in Workers \ {w} : v \in exited' <=> v \in exited,
         w \in exited' => cooling \/ (job'[w].forced /\ job'[w].pc \in {"mark", "cool"}),
         job'[w].forced /\ job'[w].pc \in {"clear", "send", "wait"} => w \notin exited',
         barMode /\ job'[w].pc = "mark" => lastQueued' = job'[w].act,
         barMode /\ job'[w].pc # "mark" => lastSent' \in {"none", lastQueued'}
  PROVE  IndInv'
<1>1. TypeOK'
  BY TypeStep DEF IndInv
<1>2. JobsInRange'
  <2> SUFFICES ASSUME NEW v \in Workers
               PROVE  /\ barMode' /\ v # Loop => job'[v].pc = "free"
                      /\ job'[v].pc \in Sending => job'[v].act \in Sides
    BY DEF JobsInRange
  <2>1. CASE v = w
    BY <2>1 DEF RestTyped
  <2>2. CASE v # w
    BY <2>2 DEF Others, IndInv, JobsInRange, RestTyped
  <2> QED
    BY <2>1, <2>2
<1>3. ExitsCooled'
  <2> SUFFICES ASSUME NEW v \in Workers
               PROVE  /\ v \in exited' => cooling' \/ (job'[v].forced /\ job'[v].pc \in {"mark", "cool"})
                      /\ job'[v].forced /\ job'[v].pc \in {"clear", "send", "wait"} => v \notin exited'
    BY DEF ExitsCooled
  <2>1. CASE v = w
    BY <2>1
  <2>2. CASE v # w
    BY <2>2 DEF Others, IndInv, ExitsCooled
  <2> QED
    BY <2>1, <2>2
<1>4. MarksQueued' /\ SuppressedIfQueued'
  BY DEF MarksQueued, SuppressedIfQueued, RestTyped
<1> QED
  BY <1>1, <1>2, <1>3, <1>4 DEF IndInv

-----------------------------------------------------------------------------
(* One lemma per action                                                    *)

\* The facts on the invariant that the lemmas below use of one worker.
LEMMA WorkerFacts ==
  ASSUME IndInv, NEW w \in Workers
  PROVE  /\ TypeOK
         /\ job[w] \in Job
         /\ w \in exited => cooling \/ (job[w].forced /\ job[w].pc \in {"mark", "cool"})
         /\ job[w].forced /\ job[w].pc \in {"clear", "send", "wait"} => w \notin exited
         /\ job[w].pc \in Sending => job[w].act \in Sides
         /\ barMode /\ job[w].pc # "free" => w = Loop
         /\ barMode /\ w = Loop /\ job[w].pc = "mark" => lastQueued = job[w].act
         /\ barMode /\ w = Loop /\ job[w].pc # "mark" => lastSent \in {"none", lastQueued}
BY DEF IndInv, TypeOK, ExitsCooled, JobsInRange, MarksQueued, SuppressedIfQueued

\* A step that leaves the sending part's variables alone and ends outside it.
LEMMA QuietStep ==
  ASSUME IndInv, NEW w \in Workers,
         job[w].pc \notin {"mark", "cool"},
         job' \in [Workers -> Job], Others(w), job'[w].pc \notin Sending,
         barMode => w = Loop,
         UNCHANGED <<barMode, trading, signalCh, lastSent, cooling, history>>
  PROVE  IndInv'
<1>1. RestTyped
  BY DEF IndInv, TypeOK, RestTyped, trading, history
<1>2. w \in exited => cooling
  BY WorkerFacts
<1>3. barMode => lastSent' \in {"none", lastQueued'}
  BY WorkerFacts DEF history
<1> QED
  BY <1>1, <1>2, <1>3, OutsideStep DEF history

LEMMA TakeTickStep ==
  ASSUME IndInv, NEW w \in Workers, TakeTick(w)
  PROVE  IndInv'
<1>1. job \in [Workers -> Job] /\ past \in BOOLEAN
  BY DEF IndInv, TypeOK
<1>2. CASE ~barMode /\ job' = [job EXCEPT ![w] = [Free EXCEPT !.pc = "analyse", !.past = past]]
  <2> DEFINE next == [Free EXCEPT !.pc = "analyse", !.past = past]
  <2>1. next \in Job /\ next.pc = "analyse"
    BY <1>1 DEF Free, Job, Actions, Sides, Bars
  <2>2. job' = [job EXCEPT ![w] = next]
    BY <1>2
  <2> HIDE DEF next
  <2>3. job' \in [Workers -> Job] /\ Others(w) /\ job'[w].pc \notin Sending
    BY <1>1, <2>1, <2>2 DEF Others, Sending
  <2> QED
    BY <1>2, <2>3, QuietStep DEF TakeTick
<1>3. ASSUME w = Loop, NEW b \in Bars,
             job' = [job EXCEPT ![w] = [Free EXCEPT !.pc = "risk", !.past = past, !.bar = b]]
      PROVE  IndInv'
  <2> DEFINE next == [Free EXCEPT !.pc = "risk", !.past = past, !.bar = b]
  <2>1. next \in Job /\ next.pc = "risk"
    BY <1>1 DEF Free, Job, Actions, Sides
  <2>2. job' = [job EXCEPT ![w] = next]
    BY <1>3
  <2> HIDE DEF next
  <2>3. job' \in [Workers -> Job] /\ Others(w) /\ job'[w].pc \notin Sending
    BY <1>1, <2>1, <2>2 DEF Others, Sending
  <2> QED
    BY <1>3, <2>3, QuietStep DEF TakeTick
<1> QED
  BY <1>2, <1>3 DEF TakeTick

LEMMA AnalyseStep ==
  ASSUME IndInv, NEW w \in Workers, Analyse(w)
  PROVE  IndInv'
<1>1. TypeOK /\ job[w] \in Job /\ job[w].pc = "analyse" /\ (barMode => w = Loop)
  BY WorkerFacts DEF Analyse
<1>2. job' \in [Workers -> Job] /\ Others(w) /\ job'[w].pc \notin Sending
  <2>1. CASE Decide(w, "SELL", FALSE)
    BY <1>1, <2>1, DecideJob DEF Sending, Actions, Sides
  <2>2. ASSUME NEW a \in {"BUY", "HOLD"}, job' = [job EXCEPT ![w].act = a, ![w].pc = "read"]
        PROVE  job' \in [Workers -> Job] /\ Others(w) /\ job'[w].pc \notin Sending
    <3> DEFINE next == [job[w] EXCEPT !.act = a, !.pc = "read"]
    <3>1. next \in Job /\ next.pc = "read"
      BY <1>1 DEF Job, Actions, Sides
    <3>2. job' = [job EXCEPT ![w] = next]
      BY <1>1, <2>2 DEF TypeOK
    <3> HIDE DEF next
    <3> QED
      BY <1>1, <3>1, <3>2 DEF TypeOK, Others, Sending
  <2>3. CASE Finish(w)
    BY <1>1, <2>3, FinishJob DEF Sending
  <2> QED
    BY <2>1, <2>2, <2>3 DEF Analyse
<1> QED
  BY <1>1, <1>2, QuietStep DEF Analyse

LEMMA ReadStep ==
  ASSUME IndInv, NEW w \in Workers, ReadPositions(w) \/ ReadFails(w)
  PROVE  IndInv'
<1>1. /\ TypeOK /\ job[w] \in Job /\ job[w].pc \in {"risk", "read"}
      /\ barMode => w = Loop
  BY WorkerFacts DEF ReadPositions, ReadFails
<1>2. \/ Finish(w) \/ Decide(w, "SELL", TRUE)
      \/ Decide(w, job[w].act, FALSE) \/ Decide(w, "HOLD", FALSE)
  BY DEF ReadPositions, ReadFails
<1>3. job[w].act \in Actions /\ "SELL" \in Actions /\ "HOLD" \in Actions
  BY <1>1 DEF Job, Actions, Sides
<1>4. job' \in [Workers -> Job] /\ Others(w) /\ job'[w].pc \notin Sending
  BY <1>1, <1>2, <1>3, FinishJob, DecideJob DEF Sending
<1> QED
  BY <1>1, <1>4, QuietStep DEF ReadPositions, ReadFails

LEMMA HoldStep ==
  ASSUME IndInv, NEW w \in Workers, Hold(w)
  PROVE  IndInv'
<1>1. TypeOK /\ job[w].pc = "gate" /\ (barMode => w = Loop) /\ (w \in exited => cooling)
  BY WorkerFacts DEF Hold
<1>2. job' \in [Workers -> Job] /\ Others(w) /\ job'[w].pc \notin Sending
  BY <1>1, FinishJob DEF Hold, Sending
<1>3. RestTyped
  BY <1>1 DEF TypeOK, RestTyped, Hold, trading
<1> QED
  BY <1>1, <1>2, <1>3, OutsideStep DEF Hold

\* Moving to a place before the channel: the cooldown and the channel stay.
LEMMA FilterStep ==
  ASSUME IndInv, NEW w \in Workers, Filter(w)
  PROVE  IndInv'
<1>1. /\ TypeOK /\ job[w] \in Job /\ job[w].pc = "gate"
      /\ barMode => w = Loop
      /\ w \in exited => cooling
      /\ barMode => lastSent \in {"none", lastQueued}
  BY WorkerFacts DEF Filter
<1>2. RestTyped
  BY <1>1 DEF TypeOK, RestTyped, Filter, trading, history
<1>3. CASE Finish(w)
  BY <1>1, <1>3, FinishJob, QuietStep DEF Filter, Sending
<1>4. ASSUME NEW pc \in {"clear", "send"}, Goto(w, pc),
             job[w].forced => ~cooling
      PROVE  IndInv'
  <2>1. /\ job' \in [Workers -> Job] /\ Others(w)
        /\ job'[w].pc = pc /\ job'[w].act = job[w].act /\ job'[w].forced = job[w].forced
    BY <1>1, <1>4, GotoJob DEF Places
  <2>2. job'[w].pc \in Sending /\ job'[w].act \in Sides
    BY <1>1, <2>1 DEF Filter, Job, Actions, Sending
  <2>3. UNCHANGED <<cooling, exited, lastSent, lastQueued>>
    BY DEF Filter, history
  <2>4. job'[w].forced => w \notin exited'
    BY <1>1, <1>4, <2>1, <2>3
  <2> QED
    BY <1>1, <1>2, <1>4, <2>1, <2>2, <2>3, <2>4, InsideStep
<1>5. Finish(w) \/ (Goto(w, "clear") /\ ~cooling) \/ (Goto(w, "send") /\ ~job[w].forced)
  BY DEF Filter
<1> QED
  BY <1>3, <1>4, <1>5

LEMMA ClearStep ==
  ASSUME IndInv, NEW w \in Workers, Clear(w)
  PROVE  IndInv'
<1>1. /\ TypeOK /\ job[w].pc = "clear" /\ job[w].act \in Sides
      /\ barMode => w = Loop
      /\ w \in exited => cooling
      /\ job[w].forced => w \notin exited
  BY WorkerFacts DEF Clear, Sending
<1>2. /\ job' \in [Workers -> Job] /\ Others(w)
      /\ job'[w].pc = "send" /\ job'[w].act = job[w].act /\ job'[w].forced = job[w].forced
  BY <1>1, GotoJob DEF Clear, Places
<1>3. RestTyped
  BY <1>1 DEF TypeOK, RestTyped, Clear, trading, history
<1>4. UNCHANGED <<cooling, exited, lastQueued>> /\ lastSent' = "none"
  BY DEF Clear, history
<1> QED
  BY <1>1, <1>2, <1>3, <1>4, InsideStep DEF Sending

LEMMA QueueStep ==
  ASSUME IndInv, NEW w \in Workers, Queue(w)
  PROVE  IndInv'
<1>1. /\ TypeOK /\ job[w].pc \in {"send", "wait"} /\ job[w].act \in Sides
      /\ barMode => w = Loop
      /\ w \in exited => cooling
  BY WorkerFacts DEF Queue, Sending
<1>2. /\ job' \in [Workers -> Job] /\ Others(w)
      /\ job'[w].pc = "mark" /\ job'[w].act = job[w].act /\ job'[w].forced = job[w].forced
  BY <1>1, GotoJob DEF Queue, Places
<1>3. signalCh' \in Seq(Sides) /\ Len(signalCh') <= Capacity
  <2>1. signalCh \in Seq(Sides) /\ Len(signalCh) < Capacity
        /\ signalCh' = Append(signalCh, job[w].act)
    BY <1>1 DEF TypeOK, Queue, Room
  <2> QED
    BY <1>1, <2>1
<1>4. exited' \subseteq Workers /\ exited' \in {exited, exited \cup {w}}
      /\ (w \in exited' => w \in exited \/ job[w].forced)
  BY <1>1 DEF TypeOK, Queue
<1>5. RestTyped
  BY <1>1, <1>3, <1>4 DEF TypeOK, RestTyped, Queue, trading
<1>6. UNCHANGED cooling /\ (barMode => lastQueued' = job[w].act)
  BY DEF Queue
<1>7. w \in exited' => cooling \/ (job'[w].forced /\ job'[w].pc \in {"mark", "cool"})
  BY <1>1, <1>2, <1>4
<1> QED
  BY <1>1, <1>2, <1>4, <1>5, <1>6, <1>7, InsideStep DEF Sending

LEMMA DropStep ==
  ASSUME IndInv, NEW w \in Workers, Drop(w)
  PROVE  IndInv'
<1>1. /\ TypeOK /\ job[w].pc = "send" /\ job[w].act \in Sides
      /\ barMode => w = Loop
      /\ barMode => lastSent \in {"none", lastQueued}
      /\ w \in exited => cooling
      /\ job[w].forced => w \notin exited
  BY WorkerFacts DEF Drop, Sending
<1>2. CASE Goto(w, "wait")
  <2>1. /\ job' \in [Workers -> Job] /\ Others(w)
        /\ job'[w].pc = "wait" /\ job'[w].act = job[w].act /\ job'[w].forced = job[w].forced
    BY <1>1, <1>2, GotoJob DEF Places
  <2>2. RestTyped
    BY <1>1 DEF TypeOK, RestTyped, Drop, trading, history
  <2>3. UNCHANGED <<cooling, exited, lastSent, lastQueued>>
    BY DEF Drop, history
  <2> QED
    BY <1>1, <2>1, <2>2, <2>3, InsideStep DEF Sending
<1>3. CASE Finish(w)
  BY <1>1, <1>3, FinishJob, QuietStep DEF Drop, Sending
<1> QED
  BY <1>2, <1>3 DEF Drop

LEMMA GiveUpStep ==
  ASSUME IndInv, NEW w \in Workers, GiveUp(w)
  PROVE  IndInv'
<1>1. TypeOK /\ job[w].pc = "wait" /\ (barMode => w = Loop)
  BY WorkerFacts DEF GiveUp
<1> QED
  BY <1>1, FinishJob, QuietStep DEF GiveUp, Sending

LEMMA MarkStep ==
  ASSUME IndInv, NEW w \in Workers, Mark(w)
  PROVE  IndInv'
<1>1. /\ TypeOK /\ job[w].pc = "mark" /\ job[w].act \in Sides
      /\ barMode => w = Loop
      /\ barMode => lastQueued = job[w].act
      /\ w \in exited => cooling \/ job[w].forced
  BY WorkerFacts DEF Mark, Sending
<1>2. RestTyped
  BY <1>1 DEF TypeOK, RestTyped, Mark, trading, history
<1>3. UNCHANGED <<cooling, exited, lastQueued>> /\ lastSent' = job[w].act
  BY DEF Mark, history
<1>4. CASE job[w].forced
  <2>1. /\ job' \in [Workers -> Job] /\ Others(w)
        /\ job'[w].pc = "cool" /\ job'[w].act = job[w].act /\ job'[w].forced = job[w].forced
    BY <1>1, <1>4, GotoJob DEF Places, Mark
  <2>2. job'[w].forced
    BY <1>4, <2>1
  <2> QED
    BY <1>1, <1>2, <1>3, <2>1, <2>2, InsideStep DEF Sending
<1>5. CASE ~job[w].forced
  <2>1. job' \in [Workers -> Job] /\ Others(w) /\ job'[w].pc \notin Sending
    BY <1>1, <1>5, FinishJob DEF Mark, Sending
  <2> QED
    BY <1>1, <1>2, <1>3, <1>5, <2>1, OutsideStep
<1> QED
  BY <1>4, <1>5

LEMMA StartCooldownStep ==
  ASSUME IndInv, NEW w \in Workers, StartCooldown(w)
  PROVE  IndInv'
<1>1. /\ TypeOK /\ job[w].pc = "cool"
      /\ barMode => w = Loop
      /\ barMode => lastSent \in {"none", lastQueued}
  BY WorkerFacts DEF StartCooldown
<1>2. job' \in [Workers -> Job] /\ Others(w) /\ job'[w].pc \in {"free", "analyse"}
  BY <1>1, FinishJob DEF StartCooldown
<1>3. UNCHANGED <<barMode, trading, signalCh, lastSent, lastQueued, exited>> /\ cooling' = TRUE
  BY DEF StartCooldown, history
<1>4. TypeOK'
  BY <1>1, <1>2, <1>3 DEF TypeOK, trading
<1>5. \A v \in Workers : job'[v].pc \in Sending => v # w /\ job'[v] = job[v]
  BY <1>2 DEF Others, Sending
<1>6. JobsInRange'
  <2>1. \A v \in Workers : barMode' /\ v # Loop => job'[v].pc = "free"
    BY <1>1, <1>2, <1>3 DEF IndInv, JobsInRange, Others
  <2>2. \A v \in Workers : job'[v].pc \in Sending => job'[v].act \in Sides
    BY <1>5 DEF IndInv, JobsInRange
  <2> QED
    BY <2>1, <2>2 DEF JobsInRange
<1>7. ExitsCooled'
  <2> SUFFICES ASSUME NEW v \in Workers
               PROVE  job'[v].forced /\ job'[v].pc \in {"clear", "send", "wait"} => v \notin exited'
    BY <1>3 DEF ExitsCooled
  <2> QED
    BY <1>3, <1>5 DEF IndInv, ExitsCooled, Sending
<1>8. MarksQueued' /\ SuppressedIfQueued'
  BY <1>1, <1>2, <1>3 DEF MarksQueued, SuppressedIfQueued
<1> QED
  BY <1>4, <1>6, <1>7, <1>8 DEF IndInv

\* The end of a cooldown, the signal worker, the positions and the market.
LEMMA OutsideWorldStep ==
  ASSUME IndInv, EndCooldown \/ Receive \/ Process \/ PositionChanges \/ PriceMoves
  PROVE  IndInv'
<1>1. UNCHANGED <<barMode, job, lastSent, lastQueued>>
      /\ (exited' = {} \/ UNCHANGED <<cooling, exited>>)
  BY DEF EndCooldown, Receive, Process, PositionChanges, PriceMoves, history
<1>2. TypeOK'
  <2>1. TypeOK
    BY DEF IndInv
  <2>2. CASE EndCooldown
    BY <2>1, <2>2 DEF TypeOK, EndCooldown, trading
  <2>3. CASE Receive
    <3>1. /\ signalCh \in Seq(Sides) /\ signalCh # <<>> /\ Len(signalCh) <= Capacity
          /\ sw' = Head(signalCh) /\ signalCh' = Tail(signalCh)
      BY <2>1, <2>3 DEF TypeOK, Receive
    <3>2. sw' \in Sides /\ signalCh' \in Seq(Sides) /\ Len(signalCh') <= Capacity
      BY <3>1
    <3> QED
      BY <2>1, <2>3, <3>2 DEF TypeOK, Receive, history
  <2>4. CASE Process \/ PositionChanges \/ PriceMoves
    BY <2>1, <2>4 DEF TypeOK, Process, PositionChanges, PriceMoves, history
  <2> QED
    BY <2>2, <2>3, <2>4
<1>3. JobsInRange' /\ MarksQueued' /\ SuppressedIfQueued'
  BY <1>1 DEF IndInv, JobsInRange, MarksQueued, SuppressedIfQueued
<1>4. ExitsCooled'
  BY <1>1 DEF IndInv, ExitsCooled
<1> QED
  BY <1>2, <1>3, <1>4 DEF IndInv

-----------------------------------------------------------------------------
(* The theorems                                                            *)

LEMMA StutterStep == ASSUME IndInv, UNCHANGED vars PROVE IndInv'
BY DEF vars, trading, history, IndInv, TypeOK, JobsInRange, ExitsCooled, MarksQueued,
       SuppressedIfQueued

\* Every step keeps the inductive invariant.
LEMMA IndInvStep == IndInv /\ [Next]_vars => IndInv'
<1> SUFFICES ASSUME IndInv, [Next]_vars PROVE IndInv'
  OBVIOUS
<1>1. CASE UNCHANGED vars
  BY <1>1, StutterStep
<1>2. ASSUME NEW w \in Workers, TakeTick(w) \/ Tick(w) PROVE IndInv'
  BY <1>2, TakeTickStep, AnalyseStep, ReadStep, HoldStep, FilterStep, ClearStep, QueueStep,
     DropStep, GiveUpStep, MarkStep, StartCooldownStep DEF Tick
<1>3. CASE EndCooldown \/ Receive \/ Process \/ PositionChanges \/ PriceMoves
  BY <1>3, OutsideWorldStep
<1> QED
  BY <1>1, <1>2, <1>3 DEF Next

\* The inductive invariant holds in every reachable state of the worker.
THEOREM AlwaysIndInv == Spec => []IndInv
<1>1. Init => IndInv
  BY InitIndInv
<1> QED
  BY <1>1, IndInvStep, PTL DEF Spec

\* With bars, an action is suppressed as a repetition only if it was the last
\* one to enter the channel: sendSignal records what it queued, not what it
\* dropped.
THEOREM OnlyRepetitionsSuppressed == Spec => []SuppressedIfQueued
<1>1. IndInv => SuppressedIfQueued
  BY DEF IndInv
<1> QED
  BY <1>1, AlwaysIndInv, PTL

\* A worker that passed the check of the cooldown has queued no forced exit
\* since the last one ended: the cooldown is stored before the next check.
THEOREM ExitsRespectCooldown == Spec => OneExitPerCooldown
<1>1. IndInv /\ [Next]_vars =>
        [\A w \in Workers :
           job[w].forced /\ job[w].pc \in {"send", "wait"} /\ job'[w].pc = "mark"
             => w \notin exited]_vars
  BY DEF IndInv, ExitsCooled
<1> QED
  BY <1>1, AlwaysIndInv, PTL DEF Spec, OneExitPerCooldown
=============================================================================
