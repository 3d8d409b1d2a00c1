-------------------------------- MODULE ServiceProofs --------------------------------
(***************************************************************************)
(* Theorems on the components that share no state with others, those that  *)
(* MCServices runs: the daily clean-up skips no day, no log entry is left  *)
(* in the buffer, the newest log files are kept, the exchange is asked for *)
(* its markets only when needed, the loss limit knows of every trade       *)
(* booked before the last order, calls are metered, a configuration that   *)
(* loads is always on disk, the trading switch is as it was answered, the  *)
(* live bars are those of the backtest, a backtest's cash and trades agree *)
(* and no order is filled at a price its signal could have known, and the  *)
(* tests of a walk-forward evaluation are out of sample.  For every value  *)
(* of the constants.                                                       *)
(***************************************************************************)
EXTENDS Maintenance, LogStore, LogFile, MarketSpecs, LossLimit, RateLimiter, ConfigFile,
        EngineLifecycle, BarAggregation, Backtest, WalkForward,
        SumTheorems, SequenceTheorems

-----------------------------------------------------------------------------
(* Maintenance                                                             *)

\* Only rows of the last RetentionDays days are left.
RecentOnly == rows \subseteq Today - (RetentionDays - 1) .. Today

\* A day that is not cleaned up yet is in its window, and the next look at the clock
\* is in that window too.
ToCome ==
  /\ InWindow /\ last # Today
  /\ due < Today * MinutesPerDay + Window

MaintInv ==
  /\ now \in Nat /\ due \in Nat /\ cleaner \in {"down", "delay", "loop"}
  /\ {last, lastSaved, broken, inWindow} \subseteq {NoDate} \cup 0 .. Today
  /\ rows \subseteq 0 .. Today
  /\ cleaner = "loop" => now <= due /\ due <= now + Window
  /\ cleaner = "loop" /\ broken # Today /\ inWindow # Today => RecentOnly \/ ToCome

\* What the lengths of the maintenance schedule are.
LEMMA MaintConstants ==
  /\ MinutesPerDay \in Nat /\ MinutesPerDay > 0
  /\ Window \in Nat /\ Window > 0 /\ Window < MinutesPerDay
  /\ Delay \in Nat /\ RetentionDays \in Nat /\ RetentionDays > 0 /\ LastDay \in Nat
BY MaintenanceAssumption

\* A time is its day and the minutes since midnight.
LEMMA DayAndMinute ==
  ASSUME NEW t \in Nat
  PROVE  /\ t \div MinutesPerDay \in Nat /\ t % MinutesPerDay \in 0 .. MinutesPerDay - 1
         /\ t = (t \div MinutesPerDay) * MinutesPerDay + (t % MinutesPerDay)
<1> DEFINE d == t \div MinutesPerDay
           m == t % MinutesPerDay
<1>1. d \in Nat
  BY MaintConstants, Z3
<1>2. m \in 0 .. MinutesPerDay - 1
  BY MaintConstants, Z3
<1>3. m = t - d * MinutesPerDay
  BY MaintConstants, Z3
<1> HIDE DEF d, m
<1>4. d * MinutesPerDay \in Nat
  BY <1>1, MaintConstants
<1>5. t = d * MinutesPerDay + m
  BY <1>2, <1>3, <1>4
<1>6. QED BY <1>1, <1>2, <1>5 DEF d, m

\* That decides which day and minute it is.
LEMMA OnlyDayAndMinute ==
  ASSUME NEW d \in Nat, NEW e \in Nat, NEW m \in 0 .. MinutesPerDay - 1,
         NEW n \in 0 .. MinutesPerDay - 1,
         d * MinutesPerDay + m = e * MinutesPerDay + n
  PROVE  d = e /\ m = n
<1>1. ASSUME NEW x \in Nat, NEW y \in Nat, x < y
      PROVE  x * MinutesPerDay + MinutesPerDay <= y * MinutesPerDay
  <2>1. PICK k \in Nat : y = x + 1 + k
    <3>1. y - x - 1 \in Nat /\ y = x + 1 + (y - x - 1)
      BY <1>1
    <3>2. QED BY <3>1
  <2>2. k * MinutesPerDay \in Nat /\ x * MinutesPerDay \in Nat
    BY MaintConstants
  <2>3. y * MinutesPerDay = x * MinutesPerDay + MinutesPerDay + k * MinutesPerDay
    BY <2>1, MaintConstants
  <2>4. QED BY <2>2, <2>3, MaintConstants
<1>2. d * MinutesPerDay \in Nat /\ e * MinutesPerDay \in Nat
  BY MaintConstants
<1>3. ~(d < e) /\ ~(e < d)
  BY <1>1, <1>2, MaintConstants
<1>4. d = e
  BY <1>3
<1>5. QED BY <1>2, <1>4, MaintConstants

\* A minute later it is the same day, or midnight of the next.
LEMMA NextMinute ==
  ASSUME NEW t \in Nat
  PROVE  \/ /\ (t + 1) \div MinutesPerDay = t \div MinutesPerDay
            /\ (t + 1) % MinutesPerDay = (t % MinutesPerDay) + 1
         \/ /\ (t + 1) \div MinutesPerDay = t \div MinutesPerDay + 1
            /\ (t + 1) % MinutesPerDay = 0
<1> DEFINE d == t \div MinutesPerDay
           m == t % MinutesPerDay
           e == (t + 1) \div MinutesPerDay
           n == (t + 1) % MinutesPerDay
<1>1. d \in Nat /\ m \in 0 .. MinutesPerDay - 1 /\ t = d * MinutesPerDay + m
  BY DayAndMinute
<1>2. e \in Nat /\ n \in 0 .. MinutesPerDay - 1 /\ t + 1 = e * MinutesPerDay + n
  <2> DEFINE u == t + 1
  <2>1. u \in Nat
    OBVIOUS
  <2> HIDE DEF u
  <2>2. /\ u \div MinutesPerDay \in Nat /\ u % MinutesPerDay \in 0 .. MinutesPerDay - 1
        /\ u = (u \div MinutesPerDay) * MinutesPerDay + (u % MinutesPerDay)
    BY <2>1, DayAndMinute
  <2>3. QED BY <2>2 DEF u
<1> HIDE DEF d, m, e, n
<1>3. CASE m + 1 < MinutesPerDay
  <2>1. m + 1 \in 0 .. MinutesPerDay - 1
    BY <1>1, <1>3, MaintConstants
  <2>2. d * MinutesPerDay \in Nat
    BY <1>1, MaintConstants
  <2>3. d * MinutesPerDay + (m + 1) = e * MinutesPerDay + n
    BY <1>1, <1>2, <2>2
  <2>4. e = d /\ n = m + 1
    BY <1>1, <1>2, <2>1, <2>3, OnlyDayAndMinute
  <2>5. QED BY <2>4 DEF d, m, e, n
<1>4. CASE ~(m + 1 < MinutesPerDay)
  <2>1. m + 1 = MinutesPerDay
    BY <1>1, <1>4, MaintConstants
  <2>2. d * MinutesPerDay \in Nat /\ (d + 1) * MinutesPerDay = d * MinutesPerDay + MinutesPerDay
    BY <1>1, MaintConstants
  <2>3. (d + 1) * MinutesPerDay + 0 = e * MinutesPerDay + n
    BY <1>1, <1>2, <2>1, <2>2, MaintConstants
  <2>4. d + 1 \in Nat /\ 0 \in 0 .. MinutesPerDay - 1
    BY <1>1, MaintConstants
  <2>5. e = d + 1 /\ n = 0
    BY <1>2, <2>3, <2>4, OnlyDayAndMinute
  <2>6. QED BY <2>5 DEF d, m, e, n
<1>5. QED BY <1>3, <1>4

\* The same of the clock of the model.
LEMMA Clock ==
  ASSUME now \in Nat
  PROVE  /\ Today \in Nat /\ Today * MinutesPerDay \in Nat
         /\ now % MinutesPerDay \in 0 .. MinutesPerDay - 1
         /\ now = Today * MinutesPerDay + (now % MinutesPerDay)
<1>1. Today \in Nat /\ now = Today * MinutesPerDay + (now % MinutesPerDay)
  BY DayAndMinute DEF Today
<1>2. Today * MinutesPerDay \in Nat
  BY <1>1, MaintConstants
<1>3. QED BY <1>1, <1>2, DayAndMinute

\* A clean-up keeps what it has to keep, or is broken.
LEMMA CleanupKeeps ==
  ASSUME MaintInv, CleanupOldData, UNCHANGED now
  PROVE  /\ rows' \subseteq 0 .. Today /\ broken' \in {NoDate} \cup 0 .. Today
         /\ broken' # Today => RecentOnly'
<1>1. Today \in Nat
  BY Clock DEF MaintInv
<1>2. Today' = Today
  BY DEF Today
<1>3. CASE rows' = {d \in rows : d >= Today - (RetentionDays - 1)} /\ UNCHANGED broken
  <2>1. \A d \in rows : d \in 0 .. Today
    BY DEF MaintInv
  <2>2. \A d \in rows' : d \in 0 .. Today /\ d \in Today - (RetentionDays - 1) .. Today
    BY <1>1, <1>3, <2>1, MaintConstants
  <2>3. QED BY <1>2, <1>3, <2>2 DEF MaintInv, RecentOnly
<1>4. CASE broken' = Today /\ UNCHANGED rows
  BY <1>1, <1>4 DEF MaintInv
<1>5. QED BY <1>3, <1>4 DEF CleanupOldData

LEMMA EndDelayStep ==
  ASSUME MaintInv, EndDelay
  PROVE  MaintInv'
<1>1. /\ Today \in Nat /\ Today' = Today /\ InWindow' = InWindow
      /\ now' = now /\ cleaner' = "loop" /\ due' = now + Window
  BY Clock DEF MaintInv, EndDelay, Today, InWindow
<1>2. now' \in Nat /\ due' \in Nat /\ now' <= due' /\ due' <= now' + Window
  BY <1>1, MaintConstants DEF MaintInv
<1>3. CASE InWindow
  <2>1. inWindow' = Today /\ UNCHANGED <<last, lastSaved, rows, broken>>
    BY <1>3 DEF EndDelay
  <2>2. QED BY <1>1, <1>2, <2>1 DEF MaintInv
<1>4. CASE ~InWindow
  <2>1. RunDailyCleanup /\ UNCHANGED inWindow
    BY <1>4 DEF EndDelay
  <2>2. last' = Today /\ lastSaved' \in {Today, lastSaved} /\ CleanupOldData
    BY <2>1 DEF RunDailyCleanup
  <2>3. /\ rows' \subseteq 0 .. Today /\ broken' \in {NoDate} \cup 0 .. Today
        /\ broken' # Today => RecentOnly'
    BY <1>1, <2>2, CleanupKeeps
  <2>4. {last', lastSaved', broken', inWindow'} \subseteq {NoDate} \cup 0 .. Today
    BY <1>1, <2>1, <2>2, <2>3 DEF MaintInv
  <2>5. QED BY <1>1, <1>2, <2>3, <2>4 DEF MaintInv
<1>5. QED BY <1>3, <1>4

LEMMA CheckStep ==
  ASSUME MaintInv, Check10Minutes
  PROVE  MaintInv'
<1>1. /\ Today \in Nat /\ Today' = Today /\ InWindow' = InWindow
      /\ now' = now /\ cleaner' = "loop" /\ due' = now + Window
      /\ cleaner = "loop" /\ now = due /\ inWindow' = inWindow
  BY Clock DEF MaintInv, Check10Minutes, Today, InWindow
<1>2. now' \in Nat /\ due' \in Nat /\ now' <= due' /\ due' <= now' + Window
  BY <1>1, MaintConstants DEF MaintInv
<1>3. CASE InWindow /\ last # Today
  <2>1. last' = Today /\ lastSaved' \in {Today, lastSaved} /\ CleanupOldData
    BY <1>3 DEF Check10Minutes, RunDailyCleanup
  <2>2. /\ rows' \subseteq 0 .. Today /\ broken' \in {NoDate} \cup 0 .. Today
        /\ broken' # Today => RecentOnly'
    BY <1>1, <2>1, CleanupKeeps
  <2>3. {last', lastSaved', broken', inWindow'} \subseteq {NoDate} \cup 0 .. Today
    BY <1>1, <2>1, <2>2 DEF MaintInv
  <2>4. QED BY <1>1, <1>2, <2>2, <2>3 DEF MaintInv
<1>4. CASE ~(InWindow /\ last # Today)
  <2>1. UNCHANGED <<last, lastSaved, rows, broken>>
    BY <1>4 DEF Check10Minutes
  <2>2. broken # Today /\ inWindow # Today => RecentOnly
    BY <1>1, <1>4 DEF MaintInv, ToCome
  <2>3. RecentOnly' <=> RecentOnly
    BY <1>1, <2>1 DEF RecentOnly
  <2>4. QED BY <1>1, <1>2, <2>1, <2>2, <2>3 DEF MaintInv
<1>5. QED BY <1>3, <1>4

\* Midnight puts the next look at the clock into the new day's window; and the last
\* minute of a window is not over before the look that was due in it.
LEMMA PassMinuteStep ==
  ASSUME MaintInv, PassMinute
  PROVE  MaintInv'
<1>1. /\ now \in Nat /\ now' = now + 1 /\ due \in Nat
      /\ rows' = rows \cup {Today'}
      /\ UNCHANGED <<cleaner, due, last, lastSaved, broken, inWindow>>
      /\ cleaner # "down" => now < due
  BY DEF MaintInv, PassMinute, Today
<1>2. /\ Today \in Nat /\ Today * MinutesPerDay \in Nat
      /\ now % MinutesPerDay \in 0 .. MinutesPerDay - 1
      /\ now = Today * MinutesPerDay + (now % MinutesPerDay)
  BY <1>1, Clock
<1> DEFINE m == now % MinutesPerDay
<1>3. \/ Today' = Today /\ (now' % MinutesPerDay) = m + 1
      \/ Today' = Today + 1 /\ (now' % MinutesPerDay) = 0
  BY <1>1, NextMinute DEF Today
<1>4. (InWindow <=> m < Window) /\ (InWindow' <=> (now' % MinutesPerDay) < Window)
  BY DEF InWindow
<1> DEFINE n == now' % MinutesPerDay
<1>5. m \in Nat /\ now = Today * MinutesPerDay + m /\ (n = m + 1 \/ n = 0)
  BY <1>2, <1>3, MaintConstants
<1>6. \/ Today' = Today /\ n = m + 1
      \/ Today' = Today + 1 /\ n = 0
  BY <1>3
<1> HIDE DEF m, n
<1>7. Today' \in Nat /\ Today <= Today'
  BY <1>2, <1>6
<1>8. now' \in Nat /\ rows' \subseteq 0 .. Today'
  BY <1>1, <1>2, <1>7 DEF MaintInv
<1>9. {last', lastSaved', broken', inWindow'} \subseteq {NoDate} \cup 0 .. Today'
  BY <1>1, <1>2, <1>7 DEF MaintInv
<1>10. cleaner' = "loop" => now' <= due' /\ due' <= now' + Window
  BY <1>1, MaintConstants DEF MaintInv
<1>11. ASSUME cleaner' = "loop", broken' # Today', inWindow' # Today'
       PROVE  RecentOnly' \/ ToCome'
  <2>1. CASE Today' = Today /\ n = m + 1
    <3>1. RecentOnly \/ ToCome
      BY <1>1, <1>11, <2>1 DEF MaintInv
    <3>2. CASE RecentOnly
      <4>1. Today \in Today - (RetentionDays - 1) .. Today
        BY <1>2, MaintConstants
      <4>2. QED BY <1>1, <2>1, <3>2, <4>1 DEF RecentOnly
    <3>3. CASE ToCome
      <4>1. m < Window /\ last # Today /\ due < Today * MinutesPerDay + Window
        BY <1>4, <3>3 DEF ToCome, m
      <4>2. now + 1 <= due
        BY <1>1, <1>11
      <4>3. n < Window
        <5>1. \A x \in Nat : now = x + m /\ due < x + Window => m + 1 < Window
          BY <1>1, <1>5, <4>2, MaintConstants
        <5>2. QED BY <1>2, <1>5, <2>1, <4>1, <5>1
      <4>4. QED BY <1>1, <1>4, <2>1, <4>1, <4>3 DEF ToCome, n
    <3>4. QED BY <3>1, <3>2, <3>3
  <2>2. CASE Today' = Today + 1 /\ n = 0
    <3>1. n < Window /\ now' = Today' * MinutesPerDay + n
      <4>1. now' % MinutesPerDay \in 0 .. MinutesPerDay - 1 /\ now' = Today' * MinutesPerDay + (now' % MinutesPerDay)
        BY <1>8, DayAndMinute DEF Today
      <4>2. QED BY <2>2, <4>1, MaintConstants DEF n
    <3>2. Today' * MinutesPerDay \in Nat /\ now' = Today' * MinutesPerDay
      BY <1>7, <1>8, <2>2, <3>1, MaintConstants
    <3>3. due <= now + Window
      BY <1>1, <1>11 DEF MaintInv
    <3>4. due' < Today' * MinutesPerDay + Window
      BY <1>1, <3>2, <3>3, MaintConstants
    <3>5. last' # Today'
      BY <1>1, <1>2, <2>2 DEF MaintInv, NoDate
    <3>6. QED BY <1>4, <3>1, <3>4, <3>5 DEF ToCome, n
  <2>3. QED BY <1>6, <2>1, <2>2
<1>12. QED BY <1>1, <1>8, <1>9, <1>10, <1>11 DEF MaintInv

\* The clean-up's invariant: a day in which it is not done yet still has it to come.
THEOREM AlwaysMaintInv == MaintSpec => []MaintInv
<1>1. MaintInit => MaintInv
  <2> SUFFICES ASSUME MaintInit PROVE MaintInv
    OBVIOUS
  <2>1. 0 \in Nat /\ now = 0
    BY DEF MaintInit
  <2>2. Today \in Nat
    BY <2>1, Clock
  <2>3. QED BY <2>1, <2>2 DEF MaintInit, MaintInv, NoDate
<1>2. MaintInv /\ [MaintNext]_maintVars => MaintInv'
  <2> SUFFICES ASSUME MaintInv, [MaintNext]_maintVars
               PROVE  MaintInv'
    OBVIOUS
  <2>1. ASSUME UNCHANGED now, UNCHANGED <<rows, broken, inWindow>>
        PROVE  /\ Today \in Nat /\ Today' = Today /\ (RecentOnly' <=> RecentOnly)
    BY <2>1, Clock DEF MaintInv, Today, RecentOnly
  <2>2. CASE StartWorker
    BY <2>1, <2>2, MaintConstants DEF MaintInv, StartWorker
  <2>3. CASE EndDelay
    BY <2>3, EndDelayStep
  <2>4. CASE Check10Minutes
    BY <2>4, CheckStep
  <2>5. CASE StopWorker
    BY <2>1, <2>5 DEF MaintInv, StopWorker
  <2>6. CASE PassMinute
    BY <2>6, PassMinuteStep
  <2>7. CASE UNCHANGED maintVars
    BY <2>7 DEF maintVars, MaintInv, RecentOnly, ToCome, Today, InWindow
  <2>8. QED BY <2>2, <2>3, <2>4, <2>5, <2>6, <2>7 DEF MaintNext
<1>3. QED BY <1>1, <1>2, PTL DEF MaintSpec

\* No day is skipped (Maintenance): every clean-up that can be done is done in its window.
THEOREM NoDaySkipped == MaintSpec => []OldRowsGo
<1>1. MaintInv => OldRowsGo
  BY DEF MaintInv, OldRowsGo, RecentOnly, ToCome
<1>2. QED BY <1>1, AlwaysMaintInv, PTL

-----------------------------------------------------------------------------
(* LogStore                                                                *)

InBuffer == At("pending")

StoreInv ==
  /\ entry \in [Entries -> {"new", "pending", "flushing", "saving", "saved", "lost"}]
  /\ logDb \in {"none", "attached", "detached", "closed"} /\ overflow \in BOOLEAN
  /\ Cardinality(InBuffer) <= MaxPending
  /\ NoneStranded

\* The entries in the buffer can be counted.
LEMMA WaitingFinite == IsFiniteSet(InBuffer) /\ Cardinality(InBuffer) \in Nat
<1>1. InBuffer \subseteq Entries /\ IsFiniteSet(Entries)
  BY StoreAssumption DEF InBuffer, At
<1>2. QED BY <1>1, FS_Subset, FS_CardinalityType

\* Room in the buffer is for one entry at least, and a step that moves an entry which
\* does not wait to where it does not wait leaves the buffer alone.
LEMMA LogStep ==
  ASSUME NEW e \in Entries, StoreInv, Log(e)
  PROVE  StoreInv'
<1>1. /\ entry[e] = "new" /\ UNCHANGED logDb
      /\ e \notin InBuffer
  BY DEF Log, InBuffer, At
<1>2. CASE logDb = "attached" /\ MoveTo(e, "saving") /\ UNCHANGED overflow
  <2>1. InBuffer' = InBuffer
    BY <1>1, <1>2 DEF StoreInv, InBuffer, At, MoveTo
  <2>2. QED BY <1>1, <1>2, <2>1 DEF StoreInv, NoneStranded, InBuffer, MoveTo
<1>3. CASE /\ logDb # "attached" /\ Cardinality(InBuffer) < MaxPending
           /\ MoveTo(e, "pending") /\ UNCHANGED overflow
  <2>1. InBuffer' = InBuffer \cup {e}
    BY <1>1, <1>3 DEF StoreInv, InBuffer, At, MoveTo
  <2>2. Cardinality(InBuffer') = Cardinality(InBuffer) + 1
    BY <1>1, <2>1, WaitingFinite, FS_AddElement
  <2>3. Cardinality(InBuffer') <= MaxPending
    BY <1>3, <2>2, WaitingFinite, StoreAssumption
  <2>4. ~overflow
    BY <1>3, WaitingFinite, StoreAssumption DEF StoreInv, NoneStranded, InBuffer
  <2>5. QED BY <1>1, <1>3, <2>3, <2>4 DEF StoreInv, NoneStranded, InBuffer, MoveTo
<1>4. CASE /\ logDb # "attached" /\ Cardinality(InBuffer) >= MaxPending
           /\ MoveTo(e, "lost") /\ overflow' = TRUE
  <2>1. InBuffer' = InBuffer
    BY <1>1, <1>4 DEF StoreInv, InBuffer, At, MoveTo
  <2>2. Cardinality(InBuffer) = MaxPending
    BY <1>4, WaitingFinite, StoreAssumption DEF StoreInv
  <2>3. QED BY <1>1, <1>4, <2>1, <2>2 DEF StoreInv, NoneStranded, InBuffer, MoveTo
<1>5. QED BY <1>2, <1>3, <1>4 DEF Log, InBuffer

LEMMA SaveLogStep ==
  ASSUME NEW e \in Entries, StoreInv, SaveLog(e) \/ SaveLogFails(e)
  PROVE  StoreInv'
<1>1. PICK place \in {"saved", "lost"} : MoveTo(e, place)
  BY DEF SaveLog, SaveLogFails
<1>2. entry[e] \in {"saving", "flushing"} /\ UNCHANGED <<logDb, overflow>>
  BY DEF SaveLog, SaveLogFails
<1>3. InBuffer' = InBuffer
  BY <1>1, <1>2 DEF StoreInv, InBuffer, At, MoveTo
<1>4. QED BY <1>1, <1>2, <1>3 DEF StoreInv, NoneStranded, InBuffer, MoveTo

\* Attaching and detaching both empty the buffer.
LEMMA EmptiedStep ==
  ASSUME StoreInv, Attach \/ Detach
  PROVE  StoreInv'
<1>1. PICK place \in {"flushing", "lost"} :
        entry' = [e \in Entries |-> IF entry[e] = "pending" THEN place ELSE entry[e]]
  BY DEF Attach, Detach
<1>2. logDb' \in {"attached", "detached"} /\ overflow' = FALSE
  BY DEF Attach, Detach
<1>3. InBuffer' = {}
  BY <1>1 DEF InBuffer, At
<1>4. Cardinality(InBuffer') = 0
  BY <1>3, FS_EmptySet
<1>5. entry' \in [Entries -> {"new", "pending", "flushing", "saving", "saved", "lost"}]
  BY <1>1 DEF StoreInv
<1>6. NoneStranded'
  BY <1>2, <1>3 DEF NoneStranded, InBuffer
<1>7. Cardinality(InBuffer') <= MaxPending
  BY <1>4, StoreAssumption
<1>8. QED BY <1>2, <1>5, <1>6, <1>7 DEF StoreInv

\* The buffer's invariant: as long as it overflows it is full.
THEOREM AlwaysStoreInv == StoreSpec => []StoreInv
<1>1. StoreInit => StoreInv
  <2> SUFFICES ASSUME StoreInit PROVE StoreInv
    OBVIOUS
  <2>1. InBuffer = {}
    BY DEF StoreInit, InBuffer, At
  <2>2. Cardinality(InBuffer) = 0
    BY <2>1, FS_EmptySet
  <2>3. NoneStranded
    BY <2>1 DEF StoreInit, NoneStranded, InBuffer
  <2>4. Cardinality(InBuffer) <= MaxPending
    BY <2>2, StoreAssumption
  <2>5. QED BY <2>3, <2>4 DEF StoreInit, StoreInv
<1>2. StoreInv /\ [StoreNext]_storeVars => StoreInv'
  <2> SUFFICES ASSUME StoreInv, [StoreNext]_storeVars
               PROVE  StoreInv'
    OBVIOUS
  <2>1. CASE Attach \/ Detach
    BY <2>1, EmptiedStep
  <2>2. CASE CloseDb
    <3>1. InBuffer' = InBuffer /\ UNCHANGED <<entry, overflow>> /\ logDb' = "closed"
      BY <2>2 DEF CloseDb, InBuffer, At
    <3>2. QED BY <3>1 DEF StoreInv, NoneStranded, InBuffer
  <2>3. CASE \E e \in Entries : Log(e) \/ SaveLog(e) \/ SaveLogFails(e)
    BY <2>3, LogStep, SaveLogStep
  <2>4. CASE UNCHANGED storeVars
    BY <2>4 DEF storeVars, StoreInv, NoneStranded, InBuffer, At
  <2>5. QED BY <2>1, <2>2, <2>3, <2>4 DEF StoreNext
<1>3. QED BY <1>1, <1>2, PTL DEF StoreSpec

\* No entry waits for a database that is there, and none is dropped in silence (LogStore).
THEOREM NoEntryStranded == StoreSpec => []NoneStranded
<1>1. StoreInv => NoneStranded
  BY DEF StoreInv
<1>2. QED BY <1>1, AlwaysStoreInv, PTL

-----------------------------------------------------------------------------
(* LogFile: parts of the files                                             *)

\* Those that are kept are found one file after the other.
LEMMA KeptParts ==
  ASSUME NEW T, NEW files \in Seq(T), NEW keep
  PROVE  \E of : /\ of[0] = <<>>
                 /\ \A n \in 1 .. Len(files) :
                      of[n] = IF files[n] \in keep THEN Append(of[n - 1], files[n])
                              ELSE of[n - 1]
                 /\ Those(files, keep) = of[Len(files)]
<1> DEFINE N == Len(files)
           Part(of, n) == IF n = 0 THEN <<>>
                          ELSE IF files[n] \in keep THEN Append(of[n - 1], files[n])
                          ELSE of[n - 1]
           next == [n \in 1 .. N |->
                      [s \in Seq(T) |-> IF files[n] \in keep THEN Append(s, files[n]) ELSE s]]
           of == CHOOSE g : g = [n \in 0 .. N |-> Part(g, n)]
<1>1. N \in Nat /\ <<>> \in Seq(T) /\ \A n \in 1 .. N : files[n] \in T
  OBVIOUS
<1>2. next \in [1 .. N -> [Seq(T) -> Seq(T)]]
  BY <1>1
<1>3. \A n \in 1 .. N : \A s \in Seq(T) :
        next[n][s] = IF files[n] \in keep THEN Append(s, files[n]) ELSE s
  BY <1>1
<1> HIDE DEF next
<1>4. PICK g \in [0 .. N -> Seq(T)] :
        g[0] = <<>> /\ \A n \in 1 .. N : g[n] = next[n][g[n - 1]]
  <2> DEFINE V == Seq(T)
             zero == <<>>
  <2>1. N \in Nat /\ zero \in V /\ next \in StepsIn(N, V)
    BY <1>1, <1>2 DEF StepsIn
  <2> HIDE DEF N, V, zero
  <2>2. PICK g : g \in Paths(N, V, zero, next)
    BY <2>1, StepByStep
  <2>3. QED BY <2>2 DEF Paths, V, zero
<1>5. g = [n \in 0 .. N |-> Part(g, n)]
  <2>1. ASSUME NEW n \in 0 .. N PROVE g[n] = Part(g, n)
    <3>1. CASE n = 0
      BY <1>4, <3>1
    <3>2. CASE n # 0
      <4>1. n \in 1 .. N /\ n - 1 \in 0 .. N
        BY <1>1, <3>2
      <4>2. g[n - 1] \in Seq(T)
        BY <4>1
      <4>3. QED BY <1>3, <1>4, <3>2, <4>1, <4>2
    <3>3. QED BY <3>1, <3>2
  <2>2. g = [n \in 0 .. N |-> g[n]]
    OBVIOUS
  <2> HIDE DEF Part
  <2>3. QED BY <2>1, <2>2
<1>6. of = [n \in 0 .. N |-> Part(of, n)]
  <2> HIDE DEF Part, N
  <2>1. QED BY <1>5
<1>7. Those(files, keep) = of[N]
  BY DEF Those
<1> HIDE DEF of
<1>8. of[0] = <<>>
  BY <1>1, <1>6
<1>9. ASSUME NEW n \in 1 .. N
      PROVE  of[n] = IF files[n] \in keep THEN Append(of[n - 1], files[n]) ELSE of[n - 1]
  <2>1. n \in 0 .. N /\ n # 0
    BY <1>1
  <2>2. of[n] = Part(of, n)
    BY <1>6, <2>1
  <2>3. QED BY <2>1, <2>2
<1>10. QED BY <1>7, <1>8, <1>9

\* A segment of one file.
LEMMA OneOf ==
  ASSUME NEW T, NEW files \in Seq(T), NEW i \in 1 .. Len(files)
  PROVE  SubSeq(files, i, i) = <<files[i]>>
<1>1. SubSeq(files, i, i) = [j \in 1 .. 1 |-> files[i + j - 1]]
  OBVIOUS
<1>2. \A j \in 1 .. 1 : files[i + j - 1] = files[i]
  OBVIOUS
<1>3. QED BY <1>1, <1>2

\* If none of the first p files is kept and all after them are, those after them remain.
LEMMA LaterKept ==
  ASSUME NEW T, NEW files \in Seq(T), NEW keep, NEW p \in 0 .. Len(files),
         \A i \in 1 .. Len(files) : files[i] \in keep <=> i > p
  PROVE  Those(files, keep) = SubSeq(files, p + 1, Len(files))
<1> DEFINE N == Len(files)
<1>1. N \in Nat /\ p \in Nat /\ p <= N
  OBVIOUS
<1>2. PICK of : /\ of[0] = <<>>
                /\ \A n \in 1 .. N :
                     of[n] = IF files[n] \in keep THEN Append(of[n - 1], files[n])
                             ELSE of[n - 1]
                /\ Those(files, keep) = of[N]
  BY KeptParts
<1>3. Those(files, keep) = of[N]
  BY <1>2
<1>4. of[0] = <<>>
  BY <1>2
<1>5. \A n \in 1 .. N : of[n] = IF files[n] \in keep THEN Append(of[n - 1], files[n]) ELSE of[n - 1]
  BY <1>2
<1> DEFINE Q(n) == n <= N => of[n] = IF n <= p THEN <<>> ELSE SubSeq(files, p + 1, n)
           A == {n \in Nat : Q(n)}
<1>6. 0 \in A
  BY <1>1, <1>4
<1>7. ASSUME NEW n \in Nat, n \in A
      PROVE  n + 1 \in A
  <2>1. Q(n)
    BY <1>7
  <2>2. CASE n + 1 > N
    <3>1. Q(n + 1)
      BY <1>1, <2>2
    <3> HIDE DEF Q
    <3>2. QED BY <3>1
  <2>3. CASE n + 1 <= N
    <3>1. n + 1 \in 1 .. N /\ n <= N /\ n + 1 - 1 = n
      BY <1>1, <2>3
    <3>2. of[n + 1] = IF files[n + 1] \in keep THEN Append(of[n], files[n + 1]) ELSE of[n]
      BY <1>5, <3>1
    <3>3. files[n + 1] \in keep <=> n + 1 > p
      BY <3>1
    <3>4. CASE n + 1 <= p
      <4>1. of[n + 1] = <<>>
        BY <1>1, <2>1, <3>1, <3>2, <3>3, <3>4
      <4>2. Q(n + 1)
        BY <3>4, <4>1
      <4> HIDE DEF Q
      <4>3. QED BY <4>2
    <3>5. CASE n + 1 > p
      <4>1. of[n + 1] = Append(of[n], files[n + 1])
        BY <3>2, <3>3, <3>5
      <4>2. CASE n = p
        <5>1. of[n] = <<>>
          BY <2>1, <3>1, <4>2
        <5>2. SubSeq(files, p + 1, p + 1) = <<files[p + 1]>>
          <6>1. p + 1 \in 1 .. Len(files)
            BY <1>1, <3>1, <4>2
          <6>2. QED BY <6>1, OneOf
        <5>3. of[n + 1] = <<files[n + 1]>>
          BY <4>1, <5>1
        <5>4. of[n + 1] = SubSeq(files, p + 1, n + 1)
          BY <4>2, <5>2, <5>3
        <5>5. Q(n + 1)
          BY <3>5, <5>4
        <5> HIDE DEF Q
        <5>6. QED BY <5>5
      <4>3. CASE n > p
        <5>1. of[n] = SubSeq(files, p + 1, n)
          <6>1. ~(n <= p) /\ n <= N
            BY <1>1, <3>1, <4>3
          <6> HIDE DEF N
          <6>2. QED BY <2>1, <6>1
        <5>2. Append(SubSeq(files, p + 1, n), files[n + 1]) = SubSeq(files, p + 1, n + 1)
          BY <1>1, <3>1, <4>3
        <5>3. Q(n + 1)
          BY <1>1, <3>5, <4>1, <5>1, <5>2
        <5> HIDE DEF Q
        <5>4. QED BY <5>3
      <4>4. QED BY <1>1, <3>5, <4>2, <4>3
    <3>6. QED BY <1>1, <3>4, <3>5
  <2>4. QED BY <1>1, <2>2, <2>3
<1>8. N \in A
  <2> HIDE DEF A, N
  <2>1. Nat \subseteq A
    BY <1>6, <1>7, NumberInduction
  <2>2. QED BY <1>1, <2>1
<1>9. of[N] = IF N <= p THEN <<>> ELSE SubSeq(files, p + 1, N)
  BY <1>1, <1>8
<1>10. CASE N <= p
  <2>1. SubSeq(files, p + 1, N) = <<>>
    BY <1>1, <1>10
  <2>2. QED BY <1>3, <1>9, <1>10, <2>1
<1>11. QED BY <1>1, <1>3, <1>9, <1>10

\* What is kept of one file more.
LEMMA AppendKept ==
  ASSUME NEW T, NEW s \in Seq(T), NEW x \in T, NEW keep
  PROVE  Those(Append(s, x), keep) = IF x \in keep THEN Append(Those(s, keep), x)
                                     ELSE Those(s, keep)
<1> DEFINE files == Append(s, x)
           N == Len(s)
<1>1. /\ N \in Nat /\ files \in Seq(T) /\ Len(files) = N + 1 /\ files[N + 1] = x
      /\ \A n \in 1 .. N : files[n] = s[n]
  OBVIOUS
<1>2. PICK of : /\ of[0] = <<>>
                /\ \A n \in 1 .. N :
                     of[n] = IF s[n] \in keep THEN Append(of[n - 1], s[n]) ELSE of[n - 1]
                /\ Those(s, keep) = of[N]
  BY KeptParts
<1> HIDE DEF files
<1>3. PICK more : /\ more[0] = <<>>
                  /\ \A n \in 1 .. Len(files) :
                       more[n] = IF files[n] \in keep THEN Append(more[n - 1], files[n])
                                 ELSE more[n - 1]
                  /\ Those(files, keep) = more[Len(files)]
  BY <1>1, KeptParts
<1>4. Those(s, keep) = of[N]
  BY <1>2
<1>5. Those(files, keep) = more[N + 1]
  BY <1>1, <1>3
<1> HIDE DEF N
<1> DEFINE Q(n) == n <= N => more[n] = of[n]
           A == {n \in Nat : Q(n)}
<1>6. 0 \in A
  BY <1>2, <1>3
<1>7. ASSUME NEW n \in Nat, n \in A
      PROVE  n + 1 \in A
  <2>1. ASSUME n + 1 <= N
        PROVE  more[n + 1] = of[n + 1]
    <3>1. /\ n + 1 \in 1 .. N /\ n + 1 \in 1 .. Len(files) /\ n + 1 - 1 = n /\ n <= N
      BY <1>1, <2>1
    <3>2. of[n + 1] = IF s[n + 1] \in keep THEN Append(of[n], s[n + 1]) ELSE of[n]
      BY <1>2, <3>1
    <3>3. more[n + 1] = IF files[n + 1] \in keep THEN Append(more[n], files[n + 1]) ELSE more[n]
      BY <1>3, <3>1
    <3>4. files[n + 1] = s[n + 1] /\ more[n] = of[n]
      BY <1>1, <1>7, <3>1
    <3>5. QED BY <3>2, <3>3, <3>4
  <2>2. Q(n + 1)
    BY <2>1
  <2> HIDE DEF Q
  <2>3. QED BY <2>2
<1>8. more[N] = of[N]
  <2> HIDE DEF A
  <2>1. Nat \subseteq A
    BY <1>6, <1>7, NumberInduction
  <2>2. N \in A
    BY <1>1, <2>1
  <2> USE DEF A
  <2>3. QED BY <1>1, <2>2
<1>9. more[N + 1] = IF x \in keep THEN Append(of[N], x) ELSE of[N]
  <2>1. N + 1 \in 1 .. Len(files) /\ N + 1 - 1 = N
    BY <1>1
  <2>2. more[N + 1] = IF files[N + 1] \in keep THEN Append(more[N], files[N + 1]) ELSE more[N]
    <3> DEFINE n == N + 1
    <3>1. n \in 1 .. Len(files) /\ n - 1 = N
      BY <1>1, <2>1
    <3> HIDE DEF n
    <3>2. more[n] = IF files[n] \in keep THEN Append(more[n - 1], files[n]) ELSE more[n - 1]
      BY <1>3, <3>1
    <3>3. QED BY <3>1, <3>2 DEF n
  <2>3. QED BY <1>1, <1>8, <2>2
<1>10. QED BY <1>4, <1>5, <1>9 DEF files

\* Files that are all kept.
LEMMA AllKept ==
  ASSUME NEW T, NEW files \in Seq(T), NEW keep,
         \A i \in 1 .. Len(files) : files[i] \in keep
  PROVE  Those(files, keep) = files
<1>1. /\ 0 \in 0 .. Len(files)
      /\ \A i \in 1 .. Len(files) : files[i] \in keep <=> i > 0
  OBVIOUS
<1>2. Those(files, keep) = SubSeq(files, 0 + 1, Len(files))
  BY <1>1, LaterKept
<1>3. QED BY <1>2, SubSeqFull

-----------------------------------------------------------------------------
(* LogFile: the backups as a chain                                         *)

\* The compressed backups of the rotations from first to final.
Gzs(first, final) == [i \in 1 .. final - first + 1 |-> Backup(first + i - 1, "gz")]

Stages == {"idle", "create", "compress", "remove", "cleanLog", "cleanGz"}

\* What the goroutine of the latest rotation does next.
Doing == IF rotated = 0 THEN "idle" ELSE keeper[rotated]

Files == [rotation : Nat, form : {"log", "gz"}]
OwnLog == Backup(rotated, "log")
OwnGz == Backup(rotated, "gz")

\* The backups by what that goroutine does next: compressed ones, and its own at the end.
Chain(first) ==
  \/ Doing \in {"idle", "cleanGz"} /\ backups = Gzs(first, rotated)
  \/ Doing = "create" /\ first <= rotated /\ backups = Append(Gzs(first, rotated - 1), OwnLog)
  \/ /\ Doing \in {"compress", "remove"} /\ first <= rotated
     /\ backups = Append(Append(Gzs(first, rotated - 1), OwnLog), OwnGz)

\* Of those that are gone, none is one of the newest and young enough.
GoneInOrder(first) ==
  \A k \in 1 .. rotated : k > rotated - MaxBackups /\ k > tooOld => k >= first

FileInv ==
  /\ rotated \in Nat /\ tooOld \in Nat /\ keeper \in [Rotations -> Stages]
  /\ rotated <= MaxRotations
  /\ ~disturbed =>
       /\ \A k \in Rotations : k # rotated => keeper[k] = "idle"
       /\ \E first \in Nat \ {0} : first <= rotated + 1 /\ Chain(first) /\ GoneInOrder(first)

\* Facts of compressed backups.
LEMMA GzsAre ==
  ASSUME NEW first \in Nat \ {0}, NEW final \in Nat, first <= final + 1
  PROVE  /\ Gzs(first, final) \in Seq(Files) /\ Len(Gzs(first, final)) = final - first + 1
         /\ \A i \in 1 .. final - first + 1 : Gzs(first, final)[i] = Backup(first + i - 1, "gz")
<1> DEFINE n == final - first + 1
<1>1. n \in Nat /\ \A i \in 1 .. n : first + i - 1 \in Nat
  OBVIOUS
<1>2. \A i \in 1 .. n : Backup(first + i - 1, "gz") \in Files
  BY <1>1 DEF Backup, Files
<1>3. QED BY <1>1, <1>2 DEF Gzs

\* The backup of one rotation more.
LEMMA GzsGrow ==
  ASSUME NEW first \in Nat \ {0}, NEW final \in Nat, first <= final
  PROVE  Append(Gzs(first, final - 1), Backup(final, "gz")) = Gzs(first, final)
<1> DEFINE s == Gzs(first, final - 1)
           t == Gzs(first, final)
           u == Append(s, Backup(final, "gz"))
<1>1. /\ final - 1 \in Nat /\ first <= final - 1 + 1 /\ first <= final + 1
      /\ final - 1 - first + 1 = final - first /\ final - first \in Nat
  OBVIOUS
<1>2. /\ s \in Seq(Files) /\ Len(s) = final - first
      /\ \A i \in 1 .. final - first : s[i] = Backup(first + i - 1, "gz")
  BY <1>1, GzsAre
<1>3. /\ t \in Seq(Files) /\ Len(t) = final - first + 1
      /\ \A i \in 1 .. final - first + 1 : t[i] = Backup(first + i - 1, "gz")
  BY <1>1, GzsAre
<1>4. Backup(final, "gz") \in Files
  BY DEF Backup, Files
<1> HIDE DEF s, t
<1>5. /\ u \in Seq(Files) /\ Len(u) = final - first + 1 /\ u[final - first + 1] = Backup(final, "gz")
      /\ \A i \in 1 .. final - first : u[i] = s[i]
  BY <1>1, <1>2, <1>4
<1> HIDE DEF u
<1>6. \A i \in 1 .. final - first + 1 : u[i] = t[i]
  <2> SUFFICES ASSUME NEW i \in 1 .. final - first + 1 PROVE u[i] = t[i]
    OBVIOUS
  <2>1. CASE i = final - first + 1
    <3>1. first + i - 1 = final
      BY <1>1, <2>1
    <3>2. QED BY <1>3, <1>5, <2>1, <3>1
  <2>2. CASE i # final - first + 1
    <3>1. i \in 1 .. final - first
      BY <1>1, <2>2
    <3>2. QED BY <1>2, <1>3, <1>5, <3>1
  <2>3. QED BY <2>1, <2>2
<1>7. u = t
  BY <1>1, <1>3, <1>5, <1>6, SeqEqual
<1>8. QED BY <1>7 DEF u, s, t

\* The later ones of compressed backups.
LEMMA GzsLater ==
  ASSUME NEW first \in Nat \ {0}, NEW final \in Nat, first <= final + 1,
         NEW p \in Nat, p <= final - first + 1
  PROVE  SubSeq(Gzs(first, final), p + 1, final - first + 1) = Gzs(first + p, final)
<1> DEFINE s == Gzs(first, final)
           t == Gzs(first + p, final)
           n == final - first + 1
           u == SubSeq(s, p + 1, n)
<1>1. n \in Nat /\ p \in 0 .. n /\ first + p \in Nat \ {0} /\ first + p <= final + 1
      /\ final - (first + p) + 1 = n - p
  OBVIOUS
<1>2. /\ s \in Seq(Files) /\ Len(s) = n
      /\ \A i \in 1 .. n : s[i] = Backup(first + i - 1, "gz")
  BY GzsAre
<1>3. /\ t \in Seq(Files) /\ Len(t) = n - p
      /\ \A i \in 1 .. n - p : t[i] = Backup(first + p + i - 1, "gz")
  BY <1>1, GzsAre
<1> HIDE DEF s, t, n
<1>4. \A i \in p + 1 .. n : s[i] \in Files
  BY <1>1, <1>2
<1>5. /\ u \in Seq(Files) /\ Len(u) = n - p
      /\ \A i \in 1 .. n - p : u[i] = s[p + i]
  <2>1. /\ u \in Seq(Files)
        /\ Len(u) = IF p + 1 <= n THEN n - (p + 1) + 1 ELSE 0
        /\ \A i \in 1 .. n - (p + 1) + 1 : u[i] = s[p + 1 + i - 1]
    BY <1>1, <1>4, SubSeqProperties
  <2> HIDE DEF u
  <2>2. n - (p + 1) + 1 = n - p /\ (~(p + 1 <= n) => n - p = 0)
    BY <1>1
  <2>3. Len(u) = n - p
    BY <2>1, <2>2
  <2>4. ASSUME NEW i \in 1 .. n - p PROVE u[i] = s[p + i]
    <3>1. i \in 1 .. n - (p + 1) + 1 /\ p + 1 + i - 1 = p + i
      BY <1>1
    <3>2. u[i] = s[p + 1 + i - 1]
      BY <2>1, <3>1
    <3>3. QED BY <3>1, <3>2
  <2>5. QED BY <2>1, <2>3, <2>4
<1> HIDE DEF u
<1>6. \A i \in 1 .. n - p : u[i] = t[i]
  <2> SUFFICES ASSUME NEW i \in 1 .. n - p PROVE u[i] = t[i]
    OBVIOUS
  <2>1. p + i \in 1 .. n /\ first + (p + i) - 1 = first + p + i - 1
    BY <1>1
  <2>2. QED BY <1>2, <1>3, <1>5, <2>1
<1>7. u = t
  BY <1>1, <1>3, <1>5, <1>6, SeqEqual
<1>8. QED BY <1>7 DEF u, s, t, n

\* The files of a longer sequence.
LEMMA AppendHas ==
  ASSUME NEW T, NEW s \in Seq(T), NEW x
  PROVE  ToSet(Append(s, x)) = ToSet(s) \cup {x}
<1>1. /\ DOMAIN Append(s, x) = 1 .. Len(s) + 1 /\ Append(s, x)[Len(s) + 1] = x
      /\ \A i \in 1 .. Len(s) : Append(s, x)[i] = s[i]
      /\ DOMAIN s = 1 .. Len(s) /\ Len(s) \in Nat
  OBVIOUS
<1>2. \A i \in 1 .. Len(s) + 1 : i \in 1 .. Len(s) \/ i = Len(s) + 1
  BY <1>1
<1>3. \A i \in 1 .. Len(s) : i \in 1 .. Len(s) + 1
  BY <1>1
<1>4. Len(s) + 1 \in 1 .. Len(s) + 1
  BY <1>1
<1>5. QED BY <1>1, <1>2, <1>3, <1>4 DEF ToSet

\* A compressed backup is there for each of the rotations.
LEMMA GzsHave ==
  ASSUME NEW first \in Nat \ {0}, NEW final \in Nat, first <= final + 1
  PROVE  ToSet(Gzs(first, final)) = {Backup(k, "gz") : k \in first .. final}
<1> DEFINE s == Gzs(first, final)
           n == final - first + 1
<1>1. /\ s \in Seq(Files) /\ Len(s) = n /\ n \in Nat
      /\ \A i \in 1 .. n : s[i] = Backup(first + i - 1, "gz")
  BY GzsAre
<1>2. DOMAIN s = 1 .. n
  BY <1>1
<1>3. \A i \in 1 .. n : first + i - 1 \in first .. final
  OBVIOUS
<1>4. \A k \in first .. final : k - first + 1 \in 1 .. n /\ first + (k - first + 1) - 1 = k
  OBVIOUS
<1> HIDE DEF s, n
<1>5. \A i \in 1 .. n : \E k \in first .. final : s[i] = Backup(k, "gz")
  BY <1>1, <1>3
<1>6. \A k \in first .. final : \E i \in 1 .. n : s[i] = Backup(k, "gz")
  <2> SUFFICES ASSUME NEW k \in first .. final PROVE \E i \in 1 .. n : s[i] = Backup(k, "gz")
    OBVIOUS
  <2>1. s[k - first + 1] = Backup(first + (k - first + 1) - 1, "gz")
    BY <1>1, <1>4
  <2>2. QED BY <1>4, <2>1
<1>7. ToSet(s) = {s[i] : i \in 1 .. n}
  BY <1>2 DEF ToSet
<1>8. ToSet(s) = {Backup(k, "gz") : k \in first .. final}
  BY <1>5, <1>6, <1>7
<1>9. QED BY <1>8 DEF s

\* Files that are not too old.
YoungOf(files, t) == {b \in ToSet(files) : b.rotation > t}

\* Cleaning up removes the oldest, in order.
LEMMA Cleaned ==
  ASSUME NEW first \in Nat \ {0}, NEW final \in Nat, first <= final + 1, final > 0, NEW t \in Nat,
         NEW young, young = Those(Gzs(first, final), YoungOf(Gzs(first, final), t))
  PROVE  \E next \in Nat \ {0} :
           /\ next <= final + 1
           /\ Those(young, Kept(young) \cup {Backup(final, "gz")}) = Gzs(next, final)
           /\ \A k \in 1 .. final : k > final - MaxBackups /\ k > t /\ k >= first => k >= next
<1> DEFINE s == Gzs(first, final)
           n == final - first + 1
           p == IF t < first THEN 0 ELSE IF t > final THEN n ELSE t - first + 1
           Y == YoungOf(s, t)
           second == first + p
           m == final - second + 1
           q == IF m > MaxBackups THEN m - MaxBackups ELSE 0
           K == Kept(young) \cup {Backup(final, "gz")}
           next == second + q
<1>0. MaxBackups \in Nat /\ MaxBackups > 0
  BY FileAssumption
<1>1. /\ n \in Nat /\ p \in Nat /\ p <= n /\ \A i \in 1 .. n : first + i - 1 > t <=> i > p
  OBVIOUS
<1>2. /\ s \in Seq(Files) /\ Len(s) = n
      /\ \A i \in 1 .. n : s[i] = Backup(first + i - 1, "gz")
  BY GzsAre
<1>3. DOMAIN s = 1 .. n
  BY <1>1, <1>2
<1>4. SubSeq(s, p + 1, n) = Gzs(second, final)
  <2> HIDE DEF p
  <2>1. QED BY <1>1, GzsLater
<1> HIDE DEF s
<1>5. \A i \in 1 .. n : s[i] \in Y <=> i > p
  <2> SUFFICES ASSUME NEW i \in 1 .. n PROVE s[i] \in Y <=> i > p
    OBVIOUS
  <2>1. s[i].rotation = first + i - 1
    <3>1. s[i] = Backup(first + i - 1, "gz")
      BY <1>2
    <3>2. QED BY <3>1 DEF Backup
  <2>2. s[i] \in ToSet(s)
    BY <1>3 DEF ToSet
  <2>3. first + i - 1 > t <=> i > p
    BY <1>1
  <2> HIDE DEF p, n
  <2>4. QED BY <2>1, <2>2, <2>3 DEF YoungOf
<1>6. young = Gzs(second, final)
  <2>1. young = Those(s, Y)
    BY DEF s
  <2> HIDE DEF Y, p, n
  <2>2. p \in 0 .. Len(s)
    BY <1>1, <1>2
  <2>3. \A i \in 1 .. Len(s) : s[i] \in Y <=> i > p
    BY <1>2, <1>5
  <2>4. Those(s, Y) = SubSeq(s, p + 1, Len(s))
    BY <1>2, <2>2, <2>3, LaterKept
  <2>5. QED BY <1>2, <1>4, <2>1, <2>4
<1>7. /\ second \in Nat \ {0} /\ second <= final + 1 /\ m \in Nat
      /\ \A k \in 1 .. final : k > t /\ k >= first => k >= second
  OBVIOUS
<1> HIDE DEF p, second
<1>8. /\ young \in Seq(Files) /\ Len(young) = m
      /\ \A i \in 1 .. m : young[i] = Backup(second + i - 1, "gz")
  BY <1>6, <1>7, GzsAre
<1>9. DOMAIN young = 1 .. m
  BY <1>7, <1>8
<1>10. q \in Nat /\ q <= m /\ (m > 0 => m > q) /\ \A i \in 1 .. m : i > m - MaxBackups <=> i > q
  BY <1>0, <1>7
<1>11. \A i \in 1 .. m : young[i] \in K <=> i > q
  <2> SUFFICES ASSUME NEW i \in 1 .. m PROVE young[i] \in K <=> i > q
    OBVIOUS
  <2>1. \A j \in 1 .. m : young[j].rotation = second + j - 1
    <3> SUFFICES ASSUME NEW j \in 1 .. m PROVE young[j].rotation = second + j - 1
      OBVIOUS
    <3>1. young[j] = Backup(second + j - 1, "gz")
      BY <1>8
    <3>2. QED BY <3>1 DEF Backup
  <2>2. \A j \in 1 .. m : young[i] = young[j] => i = j
    BY <1>7, <2>1
  <2>3. young[i] \in Kept(young) <=> i > m - MaxBackups
    BY <1>8, <1>9, <2>2 DEF Kept
  <2>4. young[i] = Backup(final, "gz") => i > q
    <3>1. young[i] = Backup(final, "gz") => second + i - 1 = final
      BY <2>1 DEF Backup
    <3>2. second + i - 1 = final => i = m
      BY <1>7
    <3>3. QED BY <1>10, <3>1, <3>2
  <2>5. i > m - MaxBackups <=> i > q
    BY <1>10
  <2> HIDE DEF q, m
  <2>6. QED BY <2>3, <2>4, <2>5
<1>12. SubSeq(young, q + 1, m) = Gzs(next, final)
  <2> HIDE DEF q
  <2>1. QED BY <1>6, <1>7, <1>10, GzsLater
<1>13. Those(young, K) = Gzs(next, final)
  <2> HIDE DEF K, q, m, next
  <2>1. q \in 0 .. Len(young)
    BY <1>8, <1>10, <1>7
  <2>2. \A i \in 1 .. Len(young) : young[i] \in K <=> i > q
    BY <1>8, <1>11
  <2>3. Those(young, K) = SubSeq(young, q + 1, Len(young))
    BY <1>8, <2>1, <2>2, LaterKept
  <2>4. QED BY <1>8, <1>12, <2>3
<1>14. /\ next \in Nat \ {0} /\ next <= final + 1
       /\ \A k \in 1 .. final : k > final - MaxBackups /\ k >= second => k >= next
  BY <1>0, <1>7
<1> HIDE DEF next, m, q
<1>15. \A k \in 1 .. final : k > final - MaxBackups /\ k > t /\ k >= first => k >= next
  BY <1>7, <1>14
<1>16. QED BY <1>13, <1>14, <1>15

-----------------------------------------------------------------------------
(* LogFile: steps                                                          *)

\* The backups are a chain, and those that are gone went in order.
InChain(first) == first <= rotated + 1 /\ Chain(first) /\ GoneInOrder(first)
Chained == \E first \in Nat \ {0} : InChain(first)

FileTypes == /\ rotated \in Nat /\ rotated <= MaxRotations /\ tooOld \in Nat
             /\ keeper \in [Rotations -> Stages]
OneKeeper == \A k \in Rotations : k # rotated => keeper[k] = "idle"

\* The invariant in these words.
LEMMA FileInvIs == FileInv <=> FileTypes /\ (~disturbed => OneKeeper /\ Chained)
BY DEF FileInv, FileTypes, OneKeeper, Chained, InChain

\* A keeper at work is that of the latest rotation.
LEMMA AtWork ==
  ASSUME FileInv, NEW k \in Rotations, keeper[k] # "idle", ~disturbed
  PROVE  k = rotated /\ rotated > 0 /\ Doing = keeper[k]
<1>1. k = rotated
  BY FileInvIs DEF OneKeeper
<1>2. rotated > 0
  BY <1>1, FileAssumption DEF Rotations
<1>3. QED BY <1>1, <1>2 DEF Doing

\* Its next step leaves the other keepers idle.
LEMMA KeeperMoves ==
  ASSUME FileInv, NEW k \in Rotations, NEW pc \in Stages, KeeperGoto(k, pc), KeepFile
  PROVE  /\ FileTypes'
         /\ OneKeeper /\ k = rotated => OneKeeper' /\ Doing' = pc
         /\ rotated' = rotated /\ tooOld' = tooOld
<1>1. /\ keeper' = [keeper EXCEPT ![k] = pc] /\ rotated' = rotated /\ tooOld' = tooOld
      /\ FileTypes
  BY FileInvIs DEF KeeperGoto, KeepFile
<1>2. keeper' \in [Rotations -> Stages] /\ keeper'[k] = pc
      /\ \A j \in Rotations : j # k => keeper'[j] = keeper[j]
  BY <1>1 DEF FileTypes
<1>3. FileTypes'
  BY <1>1, <1>2 DEF FileTypes
<1>4. ASSUME OneKeeper, k = rotated
      PROVE  OneKeeper' /\ Doing' = pc
  <2>1. k > 0
    BY FileAssumption DEF Rotations
  <2>2. Doing' = pc
    BY <1>1, <1>2, <1>4, <2>1 DEF Doing
  <2>3. OneKeeper'
    BY <1>1, <1>2, <1>4 DEF OneKeeper
  <2>4. QED BY <2>2, <2>3
<1>5. QED BY <1>1, <1>3, <1>4

\* A write that does not rotate, or whose rotation fails before it begins.
LEMMA WriteKeeps ==
  ASSUME FileInv, UNCHANGED <<rotated, backups, keeper, tooOld>>, disturbed => disturbed'
  PROVE  FileInv'
<1>1. FileTypes' /\ (OneKeeper => OneKeeper') /\ (~disturbed => OneKeeper /\ Chained)
  BY FileInvIs DEF FileTypes, OneKeeper
<1>2. Chained => Chained'
  BY DEF Chained, InChain, Chain, GoneInOrder, Doing, OwnLog, OwnGz
<1>3. FileTypes' /\ (~disturbed' => OneKeeper' /\ Chained')
  BY <1>1, <1>2
<1>4. QED BY <1>3, FileInvIs, PTL

\* What a failure leaves is only of the right types.
LEMMA FailureKeeps == FileTypes' /\ disturbed' => FileInv'
<1>1. FileTypes' /\ disturbed' => FileTypes' /\ (~disturbed' => OneKeeper' /\ Chained')
  OBVIOUS
<1>2. QED BY <1>1, FileInvIs, PTL

\* The step of a keeper that fails nothing: the chain is to be shown.
LEMMA KeeperKeeps ==
  ASSUME FileInv, NEW k \in Rotations, NEW pc \in Stages, KeeperGoto(k, pc), KeepFile,
         keeper[k] # "idle",
         ~disturbed => disturbed' \/ (Chained /\ Doing' = pc => Chained'),
         disturbed => disturbed'
  PROVE  FileInv'
<1>1. FileTypes' /\ (OneKeeper /\ k = rotated => OneKeeper' /\ Doing' = pc)
  BY KeeperMoves
<1>2. ASSUME ~disturbed'
      PROVE  OneKeeper' /\ Chained'
  <2>1. ~disturbed /\ OneKeeper /\ Chained
    BY <1>2, FileInvIs
  <2>2. k = rotated
    BY <2>1, AtWork
  <2>3. QED BY <1>1, <1>2, <2>1, <2>2
<1>3. FileTypes' /\ (~disturbed' => OneKeeper' /\ Chained')
  BY <1>1, <1>2
<1>4. QED BY <1>3, FileInvIs, PTL

\* A chain stays in order while nothing becomes older and there is no rotation.
LEMMA StillInOrder ==
  ASSUME NEW first, GoneInOrder(first), rotated' = rotated, tooOld' = tooOld
  PROVE  GoneInOrder(first)'
BY DEF GoneInOrder

\* The files of the keeper, and what it starts from.
LEMMA ChainTypes ==
  ASSUME rotated \in Nat, NEW first \in Nat \ {0}, first <= rotated
  PROVE  /\ rotated - 1 \in Nat /\ first <= rotated - 1 + 1 /\ rotated > 0
         /\ Gzs(first, rotated - 1) \in Seq(Files) /\ OwnLog \in Files /\ OwnGz \in Files
         /\ Append(Gzs(first, rotated - 1), OwnLog) \in Seq(Files)
         /\ \A i \in 1 .. Len(Gzs(first, rotated - 1)) :
              /\ Gzs(first, rotated - 1)[i] # OwnLog /\ Gzs(first, rotated - 1)[i] # OwnGz
         /\ OwnLog # OwnGz
<1>1. rotated - 1 \in Nat /\ first <= rotated - 1 + 1 /\ rotated > 0
  OBVIOUS
<1>2. OwnLog \in Files /\ OwnGz \in Files /\ OwnLog # OwnGz
  BY DEF OwnLog, OwnGz, Backup, Files
<1> DEFINE s == Gzs(first, rotated - 1)
<1>3. /\ s \in Seq(Files) /\ Len(s) = rotated - first
      /\ \A i \in 1 .. rotated - first : s[i] = Backup(first + i - 1, "gz")
  <2>1. rotated - 1 - first + 1 = rotated - first
    OBVIOUS
  <2>2. QED BY <1>1, <2>1, GzsAre
<1> HIDE DEF s
<1>4. Append(s, OwnLog) \in Seq(Files)
  BY <1>2, <1>3
<1>5. \A i \in 1 .. Len(s) : s[i] # OwnLog /\ s[i] # OwnGz
  <2> SUFFICES ASSUME NEW i \in 1 .. Len(s) PROVE s[i] # OwnLog /\ s[i] # OwnGz
    OBVIOUS
  <2>1. i \in 1 .. rotated - first /\ first + i - 1 # rotated
    BY <1>3
  <2>2. s[i] = Backup(first + i - 1, "gz")
    BY <1>3, <2>1
  <2>3. QED BY <2>1, <2>2 DEF OwnLog, OwnGz, Backup
<1>6. QED BY <1>1, <1>2, <1>3, <1>4, <1>5 DEF s

\* A rotation adds the backup that is not compressed yet.
LEMMA RotateStep == ASSUME FileInv, Rotate PROVE FileInv'
<1>1. /\ FileTypes /\ rotated < MaxRotations /\ rotated' = rotated + 1
      /\ backups' = Append(backups, Backup(rotated', "log"))
      /\ keeper' = [keeper EXCEPT ![rotated'] = "create"] /\ tooOld' = tooOld
      /\ disturbed' = (disturbed \/ KeepersAtWork # {})
  BY FileInvIs DEF Rotate
<1>2. rotated' \in Rotations /\ rotated' \in Nat /\ rotated' # 0 /\ rotated' <= MaxRotations
  BY <1>1, FileAssumption DEF FileTypes, Rotations
<1>3. keeper' \in [Rotations -> Stages] /\ keeper'[rotated'] = "create"
      /\ \A j \in Rotations : j # rotated' => keeper'[j] = keeper[j]
  <2>1. "create" \in Stages
    BY DEF Stages
  <2>2. QED BY <1>1, <1>2, <2>1 DEF FileTypes
<1>4. FileTypes'
  BY <1>1, <1>2, <1>3 DEF FileTypes
<1>5. Doing' = "create"
  BY <1>2, <1>3 DEF Doing
<1>6. ASSUME ~disturbed'
      PROVE  OneKeeper' /\ Chained'
  <2>1. ~disturbed /\ KeepersAtWork = {} /\ Chained
    BY <1>1, <1>6, FileInvIs
  <2>2. \A j \in Rotations : keeper[j] = "idle"
    BY <2>1 DEF KeepersAtWork
  <2>3. OneKeeper'
    BY <1>3, <2>2 DEF OneKeeper
  <2>4. PICK first \in Nat \ {0} : InChain(first)
    BY <2>1 DEF Chained
  <2>5. Doing = "idle"
    <3>1. CASE rotated = 0
      BY <3>1 DEF Doing
    <3>2. CASE rotated # 0
      <4>1. rotated \in Rotations
        BY <1>1, <3>2, FileAssumption DEF FileTypes, Rotations
      <4>2. QED BY <2>2, <3>2, <4>1 DEF Doing
    <3>3. QED BY <3>1, <3>2
  <2>6. backups = Gzs(first, rotated) /\ first <= rotated + 1 /\ GoneInOrder(first)
    BY <2>4, <2>5 DEF InChain, Chain
  <2>7. rotated' - 1 = rotated /\ first <= rotated'
    BY <1>1, <2>6 DEF FileTypes
  <2>8. Chain(first)'
    BY <1>1, <1>5, <2>6, <2>7 DEF Chain, OwnLog
  <2>9. GoneInOrder(first)'
    <3>1. ASSUME NEW k \in 1 .. rotated + 1, k > rotated + 1 - MaxBackups, k > tooOld
          PROVE  k >= first
      <4>1. CASE k \in 1 .. rotated
        <5>1. k > rotated - MaxBackups
          BY <1>1, <3>1, FileAssumption DEF FileTypes
        <5>2. QED BY <2>6, <3>1, <4>1, <5>1 DEF GoneInOrder
      <4>2. CASE k = rotated + 1
        BY <1>1, <2>6, <4>2 DEF FileTypes
      <4>3. QED BY <1>1, <4>1, <4>2 DEF FileTypes
    <3>2. \A k \in 1 .. rotated' : k > rotated' - MaxBackups /\ k > tooOld' => k >= first
      <4>1. rotated' = rotated + 1 /\ tooOld' = tooOld /\ rotated \in Nat
        BY <1>1 DEF FileTypes
      <4>2. SUFFICES ASSUME NEW k \in 1 .. rotated', k > rotated' - MaxBackups, k > tooOld'
                     PROVE  k >= first
        OBVIOUS
      <4>3. k \in 1 .. rotated + 1 /\ k > rotated + 1 - MaxBackups /\ k > tooOld
        BY <4>1, <4>2, FileAssumption
      <4>4. QED BY <3>1, <4>3
    <3>3. QED BY <3>2 DEF GoneInOrder
  <2>10. InChain(first)'
    BY <1>1, <1>2, <2>7, <2>8, <2>9 DEF InChain
  <2>11. QED BY <2>3, <2>10 DEF Chained
<1>7. FileTypes' /\ (~disturbed' => OneKeeper' /\ Chained')
  BY <1>4, <1>6
<1>8. QED BY <1>7, FileInvIs, PTL

\* Without a new file there is no keeper either, and it counts as a failure.
LEMMA ReopenFailsStep == ASSUME FileInv, ReopenFails PROVE FileInv'
<1>1. /\ FileTypes /\ rotated < MaxRotations /\ rotated' = rotated + 1 /\ disturbed'
      /\ keeper' = keeper /\ tooOld' = tooOld
  BY FileInvIs DEF ReopenFails
<1>2. FileTypes'
  BY <1>1, FileAssumption DEF FileTypes
<1>3. QED BY <1>1, <1>2, FailureKeeps

\* The .gz comes after the backup that it is made of.
LEMMA CreateGzStep == ASSUME FileInv, NEW k \in Rotations, CreateGz(k) PROVE FileInv'
<1>1. /\ keeper[k] = "create" /\ backups' = Append(backups, Backup(k, "gz"))
      /\ KeeperGoto(k, "compress") /\ KeepFile /\ disturbed' = disturbed
  BY DEF CreateGz
<1>2. ASSUME ~disturbed, Chained, Doing' = "compress"
      PROVE  Chained'
  <2>1. k = rotated /\ Doing = "create" /\ rotated' = rotated /\ tooOld' = tooOld
    BY <1>1, <1>2, AtWork DEF KeepFile
  <2>2. PICK first \in Nat \ {0} : InChain(first)
    BY <1>2 DEF Chained
  <2>3. first <= rotated /\ backups = Append(Gzs(first, rotated - 1), OwnLog)
    BY <2>1, <2>2 DEF InChain, Chain
  <2>4. backups' = Append(Append(Gzs(first, rotated' - 1), OwnLog'), OwnGz')
    BY <1>1, <2>1, <2>3 DEF OwnLog, OwnGz
  <2>5. Chain(first)'
    BY <1>2, <2>1, <2>3, <2>4 DEF Chain
  <2>6. InChain(first)'
    BY <2>1, <2>2, <2>5, StillInOrder DEF InChain
  <2>7. QED BY <2>6 DEF Chained
<1>3. "compress" \in Stages /\ keeper[k] # "idle"
  BY <1>1 DEF Stages
<1>4. disturbed => disturbed'
  BY <1>1
<1>5. QED BY <1>1, <1>2, <1>3, <1>4, KeeperKeeps

\* It becomes the newest file, which it is already.
LEMMA CompressStep == ASSUME FileInv, NEW k \in Rotations, CompressLogFile(k) PROVE FileInv'
<1>1. /\ keeper[k] = "compress"
      /\ backups' = IF IsThere(Backup(k, "gz"))
                    THEN Append(Without(Backup(k, "gz")), Backup(k, "gz")) ELSE backups
      /\ KeeperGoto(k, "remove") /\ KeepFile /\ disturbed' = disturbed
  BY DEF CompressLogFile
<1>2. ASSUME ~disturbed, Chained, Doing' = "remove"
      PROVE  Chained'
  <2>1. /\ k = rotated /\ Doing = "compress" /\ rotated' = rotated /\ tooOld' = tooOld
        /\ rotated \in Nat
    BY <1>1, <1>2, AtWork, FileInvIs DEF KeepFile, FileTypes
  <2>2. PICK first \in Nat \ {0} : InChain(first)
    BY <1>2 DEF Chained
  <2> DEFINE s == Append(Gzs(first, rotated - 1), OwnLog)
             others == ToSet(backups) \ {OwnGz}
  <2>3. first <= rotated /\ backups = Append(s, OwnGz)
    BY <2>1, <2>2 DEF InChain, Chain
  <2>4. s \in Seq(Files) /\ OwnGz \in Files
    BY <2>1, <2>3, ChainTypes
  <2>5. \A i \in 1 .. Len(s) : s[i] \in others
    <3>1. /\ \A i \in 1 .. Len(Gzs(first, rotated - 1)) : Gzs(first, rotated - 1)[i] # OwnGz
          /\ OwnLog # OwnGz /\ Gzs(first, rotated - 1) \in Seq(Files)
      BY <2>1, <2>3, ChainTypes
    <3>2. \A i \in 1 .. Len(s) : s[i] # OwnGz
      BY <3>1
    <3> HIDE DEF s
    <3>3. ToSet(backups) = ToSet(s) \cup {OwnGz}
      BY <2>3, <2>4, AppendHas
    <3>4. \A i \in 1 .. Len(s) : s[i] \in ToSet(s)
      BY <2>4 DEF ToSet
    <3>5. QED BY <3>2, <3>3, <3>4
  <2> HIDE DEF s, others
  <2>6. Those(s, others) = s
    BY <2>4, <2>5, AllKept
  <2>7. OwnGz \notin others
    BY DEF others
  <2>8. Those(backups, others) = s
    BY <2>3, <2>4, <2>6, <2>7, AppendKept
  <2>9. Without(OwnGz) = s
    BY <2>8 DEF Without, others
  <2>10. backups' = backups
    BY <1>1, <2>1, <2>3, <2>9 DEF OwnGz
  <2>11. Chain(first)'
    BY <1>2, <2>1, <2>3, <2>10 DEF Chain, OwnLog, OwnGz, s
  <2>12. InChain(first)'
    BY <2>1, <2>2, <2>11, StillInOrder DEF InChain
  <2>13. QED BY <2>12 DEF Chained
<1>3. "remove" \in Stages /\ keeper[k] # "idle"
  BY <1>1 DEF Stages
<1>4. disturbed => disturbed'
  BY <1>1
<1>5. QED BY <1>1, <1>2, <1>3, <1>4, KeeperKeeps

\* A failure.
LEMMA CompressionFailsStep ==
  ASSUME FileInv, NEW k \in Rotations, CompressionFails(k)
  PROVE  FileInv'
<1>1. KeeperGoto(k, "cleanLog") /\ KeepFile /\ disturbed'
  BY DEF CompressionFails
<1>2. "cleanLog" \in Stages
  BY DEF Stages
<1>3. FileTypes'
  BY <1>1, <1>2, KeeperMoves
<1>4. QED BY <1>1, <1>3, FailureKeeps

\* The backup is gone, its .gz is the newest of the compressed ones.
LEMMA RemoveLogStep == ASSUME FileInv, NEW k \in Rotations, RemoveLog(k) PROVE FileInv'
<1>1. /\ keeper[k] = "remove" /\ KeeperGoto(k, "cleanGz") /\ KeepFile
      /\ \/ backups' = Without(Backup(k, "log")) /\ disturbed' = disturbed
         \/ backups' = backups /\ disturbed'
  BY DEF RemoveLog
<1>0. "cleanGz" \in Stages /\ keeper[k] # "idle"
  BY <1>1 DEF Stages
<1>2. CASE disturbed'
  <2>1. FileTypes'
    BY <1>0, <1>1, KeeperMoves
  <2>2. QED BY <1>2, <2>1, FailureKeeps
<1>3. ASSUME ~disturbed', Chained, Doing' = "cleanGz", ~disturbed
      PROVE  Chained'
  <2>1. /\ k = rotated /\ Doing = "remove" /\ rotated' = rotated /\ tooOld' = tooOld
        /\ rotated \in Nat /\ backups' = Without(OwnLog)
    BY <1>1, <1>3, AtWork, FileInvIs DEF KeepFile, FileTypes, OwnLog
  <2>2. PICK first \in Nat \ {0} : InChain(first)
    BY <1>3 DEF Chained
  <2> DEFINE s == Gzs(first, rotated - 1)
             others == ToSet(backups) \ {OwnLog}
  <2>3. first <= rotated /\ backups = Append(Append(s, OwnLog), OwnGz)
    BY <2>1, <2>2 DEF InChain, Chain
  <2>4. /\ s \in Seq(Files) /\ OwnGz \in Files /\ OwnLog \in Files /\ OwnLog # OwnGz
        /\ Append(s, OwnLog) \in Seq(Files) /\ \A i \in 1 .. Len(s) : s[i] # OwnLog
    BY <2>1, <2>3, ChainTypes
  <2> HIDE DEF s
  <2>5. ToSet(backups) = ToSet(s) \cup {OwnLog} \cup {OwnGz}
    BY <2>3, <2>4, AppendHas
  <2>6. \A i \in 1 .. Len(s) : s[i] \in others
    <3>1. \A i \in 1 .. Len(s) : s[i] \in ToSet(s)
      BY <2>4 DEF ToSet
    <3>2. QED BY <2>4, <2>5, <3>1
  <2>7. OwnGz \in others /\ OwnLog \notin others
    BY <2>4, <2>5
  <2> HIDE DEF others
  <2>8. Those(s, others) = s
    BY <2>4, <2>6, AllKept
  <2>9. Those(Append(s, OwnLog), others) = s
    BY <2>4, <2>7, <2>8, AppendKept
  <2>10. Those(Append(Append(s, OwnLog), OwnGz), others) = Append(s, OwnGz)
    BY <2>4, <2>7, <2>9, AppendKept
  <2>11. backups' = Append(s, OwnGz)
    BY <2>1, <2>3, <2>10 DEF Without, others
  <2>12. Append(s, OwnGz) = Gzs(first, rotated)
    BY <2>1, <2>3, GzsGrow DEF s, OwnGz
  <2>13. Chain(first)'
    BY <1>3, <2>1, <2>11, <2>12 DEF Chain
  <2>14. InChain(first)'
    BY <2>1, <2>2, <2>13, StillInOrder DEF InChain
  <2>15. QED BY <2>14 DEF Chained
<1>4. CASE ~disturbed'
  <2>1. ~disturbed => disturbed' \/ (Chained /\ Doing' = "cleanGz" => Chained')
    BY <1>3, <1>4
  <2>2. disturbed => disturbed'
    BY <1>1, <1>4
  <2>3. QED BY <1>0, <1>1, <2>1, <2>2, KeeperKeeps
<1>5. QED BY <1>2, <1>4

\* What is removed is not one of the newest, or too old.
LEMMA CleanupStep == ASSUME FileInv, NEW k \in Rotations, CleanupBackups(k) PROVE FileInv'
<1> DEFINE young == Those(backups, {b \in ToSet(backups) : b.rotation > tooOld})
<1>1. /\ keeper[k] \in {"cleanLog", "cleanGz"}
      /\ keeper[k] = "cleanGz" => backups' = Those(young, Kept(young) \cup {Backup(k, "gz")})
      /\ KeeperGoto(k, "idle") /\ KeepFile /\ disturbed' = disturbed
  BY DEF CleanupBackups
<1> HIDE DEF young
<1>2. ASSUME ~disturbed, Chained, Doing' = "idle"
      PROVE  Chained'
  <2>1. /\ k = rotated /\ Doing = keeper[k] /\ rotated' = rotated /\ tooOld' = tooOld
        /\ rotated \in Nat /\ rotated > 0 /\ tooOld \in Nat
    BY <1>1, <1>2, AtWork, FileInvIs DEF KeepFile, FileTypes
  <2>2. PICK first \in Nat \ {0} : InChain(first)
    BY <1>2 DEF Chained
  <2>3. Doing = "cleanGz" /\ first <= rotated + 1 /\ backups = Gzs(first, rotated)
    BY <1>1, <2>1, <2>2 DEF InChain, Chain
  <2>4. young = Those(Gzs(first, rotated), YoungOf(Gzs(first, rotated), tooOld))
    BY <2>3 DEF young, YoungOf
  <2>5. PICK next \in Nat \ {0} :
          /\ next <= rotated + 1
          /\ Those(young, Kept(young) \cup {Backup(rotated, "gz")}) = Gzs(next, rotated)
          /\ \A j \in 1 .. rotated :
               j > rotated - MaxBackups /\ j > tooOld /\ j >= first => j >= next
    BY <2>1, <2>3, <2>4, Cleaned
  <2>6. backups' = Gzs(next, rotated)
    BY <1>1, <2>1, <2>3, <2>5
  <2>7. Chain(next)'
    BY <1>2, <2>1, <2>6 DEF Chain
  <2>8. GoneInOrder(next)
    BY <2>2, <2>5 DEF InChain, GoneInOrder
  <2>9. InChain(next)'
    BY <2>1, <2>5, <2>7, <2>8, StillInOrder DEF InChain
  <2>10. QED BY <2>9 DEF Chained
<1>3. "idle" \in Stages /\ keeper[k] # "idle"
  BY <1>1 DEF Stages
<1>4. disturbed => disturbed'
  BY <1>1
<1>5. QED BY <1>1, <1>2, <1>3, <1>4, KeeperKeeps

\* Fewer are young enough.
LEMMA GrowOldStep == ASSUME FileInv, GrowOld PROVE FileInv'
<1>1. /\ FileTypes /\ tooOld' = tooOld + 1 /\ UNCHANGED <<rotated, backups, keeper, disturbed>>
      /\ (~disturbed => OneKeeper /\ Chained)
  BY FileInvIs DEF GrowOld
<1>2. FileTypes' /\ (OneKeeper => OneKeeper')
  BY <1>1 DEF FileTypes, OneKeeper
<1>3. ASSUME Chained PROVE Chained'
  <2>1. PICK first \in Nat \ {0} : InChain(first)
    BY <1>3 DEF Chained
  <2>2. \A k \in 1 .. rotated : k > tooOld + 1 => k > tooOld
    BY <1>1 DEF FileTypes
  <2>3. GoneInOrder(first)'
    BY <1>1, <2>1, <2>2 DEF InChain, GoneInOrder
  <2>4. Chain(first)'
    BY <1>1, <2>1 DEF InChain, Chain, Doing, OwnLog, OwnGz
  <2>5. InChain(first)'
    BY <1>1, <2>1, <2>3, <2>4 DEF InChain
  <2>6. QED BY <2>5 DEF Chained
<1>4. FileTypes' /\ (~disturbed' => OneKeeper' /\ Chained')
  BY <1>1, <1>2, <1>3
<1>5. QED BY <1>4, FileInvIs, PTL

\* What there is for a chain.
LEMMA ChainHas ==
  ASSUME rotated \in Nat, NEW first \in Nat \ {0}, InChain(first), NEW k \in Nat \ {0},
         first <= k, k <= rotated
  PROVE  \E f \in {"log", "gz"} : IsThere(Backup(k, f))
<1>1. CASE backups = Gzs(first, rotated)
  <2>1. Backup(k, "gz") \in ToSet(backups)
    BY <1>1, GzsHave
  <2>2. QED BY <2>1 DEF IsThere
<1>2. CASE /\ first <= rotated
           /\ \/ backups = Append(Gzs(first, rotated - 1), OwnLog)
              \/ backups = Append(Append(Gzs(first, rotated - 1), OwnLog), OwnGz)
  <2> DEFINE s == Gzs(first, rotated - 1)
  <2>1. s \in Seq(Files) /\ Append(s, OwnLog) \in Seq(Files)
    BY <1>2, ChainTypes
  <2>2. ToSet(s) = {Backup(j, "gz") : j \in first .. rotated - 1}
    <3>1. rotated - 1 \in Nat /\ first <= rotated - 1 + 1
      BY <1>2
    <3>2. QED BY <3>1, GzsHave
  <2> HIDE DEF s
  <2>3. ToSet(Append(s, OwnLog)) = ToSet(s) \cup {OwnLog}
    BY <2>1, AppendHas
  <2>4. ToSet(Append(Append(s, OwnLog), OwnGz)) = ToSet(s) \cup {OwnLog} \cup {OwnGz}
    BY <2>1, <2>3, AppendHas
  <2>5. ToSet(s) \subseteq ToSet(backups) /\ OwnLog \in ToSet(backups)
    BY <1>2, <2>3, <2>4 DEF s
  <2>6. CASE k = rotated
    BY <2>5, <2>6 DEF OwnLog, IsThere
  <2>7. CASE k < rotated
    <3>1. k \in first .. rotated - 1
      BY <2>7
    <3>2. QED BY <2>2, <2>5, <3>1 DEF IsThere
  <2>8. QED BY <2>6, <2>7
<1>3. QED BY <1>1, <1>2 DEF InChain, Chain

\* Whatever the sizes and limits: while each keeper ends before the next rotation and
\* nothing fails, the newest MaxBackups backups that are not too old are kept.
THEOREM NewestAlwaysKept == FileSpec => []NewestBackupsKept
<1>1. FileInit => FileInv
  <2> SUFFICES ASSUME FileInit PROVE FileInv
    OBVIOUS
  <2>1. /\ rotated = 0 /\ tooOld = 0 /\ backups = <<>>
        /\ keeper = [k \in Rotations |-> "idle"]
    BY DEF FileInit
  <2>2. FileTypes /\ OneKeeper
    BY <2>1, FileAssumption DEF FileTypes, OneKeeper, Stages
  <2>3. Gzs(1, 0) = <<>>
    BY DEF Gzs
  <2>4. InChain(1)
    BY <2>1, <2>3 DEF InChain, Chain, GoneInOrder, Doing
  <2>5. QED BY <2>2, <2>4, FileInvIs DEF Chained
<1>2. FileInv /\ [FileNext]_fileVars => FileInv'
  <2> SUFFICES ASSUME FileInv, [FileNext]_fileVars PROVE FileInv'
    OBVIOUS
  <2>1. CASE WriteEntry \/ OpenOrCreate \/ RenameFails \/ CloseFails \/ CloseFile
             \/ UNCHANGED fileVars
    <3>1. UNCHANGED <<rotated, backups, keeper, tooOld>> /\ (disturbed => disturbed')
      BY <2>1 DEF WriteEntry, OpenOrCreate, RenameFails, CloseFails, CloseFile, KeepBackups,
                  fileVars
    <3>2. QED BY <3>1, WriteKeeps
  <2>2. CASE \E k \in Rotations : \/ CreateGz(k) \/ CompressLogFile(k) \/ CompressionFails(k)
                                 \/ RemoveLog(k) \/ CleanupBackups(k)
    BY <2>2, CreateGzStep, CompressStep, CompressionFailsStep, RemoveLogStep, CleanupStep
  <2>3. QED BY <2>1, <2>2, RotateStep, ReopenFailsStep, GrowOldStep DEF FileNext
<1>3. FileInv => NewestBackupsKept
  <2> SUFFICES ASSUME FileInv, ~disturbed, NEW k \in rotated - MaxBackups + 1 .. rotated,
                      k > tooOld
               PROVE  \E f \in {"log", "gz"} : IsThere(Backup(k, f))
    BY DEF NewestBackupsKept
  <2>1. rotated \in Nat /\ tooOld \in Nat
    BY FileInvIs DEF FileTypes
  <2>2. PICK first \in Nat \ {0} : InChain(first)
    BY FileInvIs DEF Chained
  <2>3. k \in Nat \ {0} /\ k <= rotated /\ k > rotated - MaxBackups
    BY <2>1, FileAssumption
  <2>4. first <= k
    BY <2>1, <2>2, <2>3 DEF InChain, GoneInOrder
  <2>5. QED BY <2>1, <2>2, <2>3, <2>4, ChainHas
<1>4. QED BY <1>1, <1>2, <1>3, PTL DEF FileSpec

-----------------------------------------------------------------------------
(* MarketSpecs                                                             *)

SpecsInv == SpecsTypeOK /\ RefreshedOnlyIfNeeded

\* Who refreshes is alone, so the cache is as it was when the lock was taken.
THEOREM AlwaysSpecsInv == SpecsSpec => []SpecsInv
<1>1. SpecsInit => SpecsInv
  <2> SUFFICES ASSUME SpecsInit PROVE SpecsInv
    OBVIOUS
  <2>1. \A r \in Readers : reader[r].pc = "away"
    BY DEF SpecsInit, Away
  <2>2. SpecsTypeOK
    BY DEF SpecsInit, SpecsTypeOK, Away
  <2>3. QED BY <2>1, <2>2 DEF SpecsInv, RefreshedOnlyIfNeeded
<1>2. SpecsInv /\ [SpecsNext]_specsVars => SpecsInv'
  <2> SUFFICES ASSUME SpecsInv, [SpecsNext]_specsVars
               PROVE  SpecsInv'
    OBVIOUS
  <2> USE DEF SpecsInv, SpecsTypeOK, RefreshedOnlyIfNeeded, Cached
  <2>1. ASSUME NEW r \in Readers, LookInCache(r)
        PROVE  SpecsInv'
    BY <2>1 DEF LookInCache, Away
  <2>2. ASSUME NEW r \in Readers, LookAgain(r)
        PROVE  SpecsInv'
    BY <2>2 DEF LookAgain, Locked, Away
  <2>3. ASSUME NEW r \in Readers, RefreshCache(r)
        PROVE  SpecsInv'
    <3>1. \A q \in Readers : reader'[q].pc # "refresh"
      BY <2>3 DEF RefreshCache, Away
    <3>2. SpecsTypeOK'
      BY <2>3 DEF RefreshCache, Away
    <3>3. QED BY <3>1, <3>2
  <2>4. CASE CacheExpires
    BY <2>4 DEF CacheExpires
  <2>5. CASE UNCHANGED specsVars
    BY <2>5 DEF specsVars
  <2>6. QED BY <2>1, <2>2, <2>3, <2>4, <2>5 DEF SpecsNext
<1>3. QED BY <1>1, <1>2, PTL DEF SpecsSpec

\* The exchange is asked once for what several readers miss (MarketSpecs).
THEOREM NoNeedlessRefresh == SpecsSpec => []RefreshedOnlyIfNeeded
<1>1. SpecsInv => RefreshedOnlyIfNeeded
  BY DEF SpecsInv
<1>2. QED BY <1>1, AlwaysSpecsInv, PTL

-----------------------------------------------------------------------------
(* LossLimit                                                               *)

\* A row has the trades up to one that is booked, and no fewer than the epoch leaves.
Covers(row) == row.upTo \in epoch .. Len(trades)

InFlightAlone == \A o, p \in InFlight : o = p
SavesCover == \A o \in Placements : update[o].pc = "save" => placedAt <= update[o].row.upTo

LossShape ==
  /\ trades \in Seq([result : Results, day : Nat])
  /\ deleted \in 0 .. Len(trades) /\ placedAt \in 0 .. Len(trades)
  /\ epoch \in Nat /\ today \in Nat /\ placed \in Nat /\ mixed \in BOOLEAN
  /\ passed => placed < MaxOrders
  /\ DOMAIN update = Placements /\ \A o \in Placements : DOMAIN update[o] = {"pc", "row"}

LossInv ==
  /\ LossShape
  /\ metrics # NoMetrics => Covers(metrics)
  /\ \A o \in Placements : update[o].pc = "save" => Covers(update[o].row)
  /\ ~mixed => InFlightAlone /\ SavesCover
  /\ MetricsCoverTrades

\* Positions in the trades table are numbers.
LEMMA LengthIsNat ==
  ASSUME LossShape
  PROVE  Len(trades) \in Nat /\ deleted \in Nat /\ placedAt \in Nat
BY DEF LossShape

\* Steps that leave the updates alone keep what they know: trades are only added and
\* deleted, and an order's number of trades is only noted when it is placed.
LEMMA LossFrame ==
  ASSUME LossInv, UNCHANGED <<metrics, epoch, update, mixed, placedAt, placed>>,
         trades' \in Seq([result : Results, day : Nat]),
         Len(trades) <= Len(trades'), deleted <= deleted', deleted' \in 0 .. Len(trades'),
         today' \in Nat, passed' => placed < MaxOrders
  PROVE  LossInv'
<1>1. Len(trades) \in Nat /\ Len(trades') \in Nat /\ deleted \in Nat /\ deleted' \in Nat
      /\ placedAt \in Nat
  BY LengthIsNat DEF LossInv
<1>2. LossShape'
  BY <1>1 DEF LossInv, LossShape
<1>3. InFlight' = InFlight
  BY DEF InFlight
<1>4. ASSUME NEW row, Covers(row)
      PROVE  row.upTo \in epoch' .. Len(trades')
  BY <1>1, <1>4 DEF LossInv, LossShape, Covers
<1>5. metrics' # NoMetrics => Covers(metrics)'
  BY <1>4 DEF LossInv, Covers
<1>6. \A o \in Placements : update'[o].pc = "save" => Covers(update[o].row)'
  BY <1>4 DEF LossInv, Covers
<1>7. MetricsCoverTrades'
  BY <1>1, <1>3 DEF LossInv, MetricsCoverTrades, LossShape
<1>8. QED BY <1>2, <1>3, <1>5, <1>6, <1>7 DEF LossInv, InFlightAlone, SavesCover

LEMMA PlaceStep ==
  ASSUME LossInv, PlaceOrder
  PROVE  LossInv'
<1>1. /\ passed /\ ~passed' /\ placed' = placed + 1 /\ placedAt' = Len(trades)
      /\ mixed' = (InFlight # {})
      /\ UNCHANGED <<trades, deleted, metrics, epoch, today>>
      /\ update' = [update EXCEPT ![placed + 1].pc = "read"]
  BY DEF PlaceOrder
<1>2. placed + 1 \in Placements /\ placed' \in Nat
  BY <1>1, LossAssumption DEF LossInv, LossShape, Placements
<1>3. /\ DOMAIN update' = Placements
      /\ \A o \in Placements : DOMAIN update'[o] = {"pc", "row"}
      /\ update'[placed + 1].pc = "read"
      /\ \A o \in Placements \ {placed + 1} : update'[o] = update[o]
  BY <1>1, <1>2 DEF LossInv, LossShape
<1>4. LossShape'
  BY <1>1, <1>2, <1>3, LengthIsNat DEF LossInv, LossShape
<1>5. \A o \in Placements : update'[o].pc = "save" => update[o].pc = "save" /\ update'[o] = update[o]
  BY <1>2, <1>3
<1>6. /\ metrics' # NoMetrics => Covers(metrics)'
      /\ \A o \in Placements : update'[o].pc = "save" => Covers(update[o].row)'
  BY <1>1, <1>5 DEF LossInv, Covers
<1>7. InFlight' = InFlight \cup {placed + 1}
  BY <1>2, <1>3 DEF InFlight
<1>8. ~mixed' => InFlightAlone' /\ SavesCover'
  <2> SUFFICES ASSUME ~mixed' PROVE InFlightAlone' /\ SavesCover'
    OBVIOUS
  <2>1. InFlight = {}
    BY <1>1
  <2>2. \A o \in Placements : update'[o].pc # "save"
    BY <1>5, <2>1 DEF InFlight
  <2>3. QED BY <1>7, <2>1, <2>2 DEF InFlightAlone, SavesCover
<1>9. MetricsCoverTrades'
  BY <1>7 DEF MetricsCoverTrades
<1>10. QED BY <1>4, <1>6, <1>8, <1>9 DEF LossInv

\* The update of an order, and no other, comes from r to r2.
Moves(o, r2) == update' = [update EXCEPT ![o] = r2]

\* An update that ends or goes on moves nothing but itself.
LEMMA MoveFrame ==
  ASSUME LossInv, NEW o \in Placements, NEW r2, Moves(o, r2), DOMAIN r2 = {"pc", "row"},
         UNCHANGED <<trades, deleted, epoch, today, passed, placed, placedAt>>,
         mixed' \in BOOLEAN
  PROVE  /\ LossShape'
         /\ update'[o] = r2 /\ \A p \in Placements \ {o} : update'[p] = update[p]
BY DEF LossInv, LossShape, Moves

LEMMA ReadStep ==
  ASSUME NEW o \in Placements, LossInv, ReadTrades(o)
  PROVE  LossInv'
<1> DEFINE from == IF epoch > Oldest THEN epoch ELSE Oldest
           r2 == IF Len(trades) < from THEN [NoUpdate EXCEPT !.pc = "done"]
                 ELSE [pc |-> "save", row |-> [upTo |-> Len(trades), total |-> Total(from)]]
<1>1. /\ update[o].pc = "read" /\ Moves(o, r2)
      /\ UNCHANGED <<trades, deleted, metrics, epoch, today, passed, placed, placedAt, mixed>>
  BY DEF ReadTrades, Moves
<1>2. DOMAIN r2 = {"pc", "row"}
  BY DEF NoUpdate
<1>3. /\ Len(trades) < from => r2.pc = "done"
      /\ ~(Len(trades) < from) => r2.pc = "save" /\ r2.row.upTo = Len(trades)
  BY DEF NoUpdate
<1> HIDE DEF r2
<1>4. /\ LossShape' /\ update'[o] = r2 /\ \A p \in Placements \ {o} : update'[p] = update[p]
  BY <1>1, <1>2, MoveFrame DEF LossInv, LossShape
<1>5. /\ Len(trades) \in Nat /\ deleted \in Nat /\ epoch \in Nat /\ from \in Nat
      /\ placedAt \in Nat /\ placedAt <= Len(trades) /\ epoch <= from
  BY LengthIsNat DEF LossInv, LossShape, Oldest
<1>6. o \in InFlight /\ InFlight' = InFlight \ (IF r2.pc = "done" THEN {o} ELSE {})
  BY <1>1, <1>3, <1>4 DEF InFlight
<1>7. \A p \in Placements : update'[p].pc = "save" => Covers(update[p].row)'
  BY <1>1, <1>3, <1>4, <1>5 DEF LossInv, Covers
<1>8. metrics' # NoMetrics => Covers(metrics)'
  BY <1>1 DEF LossInv, Covers
<1>9. ~mixed' => InFlightAlone' /\ SavesCover'
  BY <1>1, <1>3, <1>4, <1>5, <1>6 DEF LossInv, InFlightAlone, SavesCover
<1>10. MetricsCoverTrades'
  <2> SUFFICES ASSUME ~mixed', InFlight' = {}, metrics' # NoMetrics
               PROVE  placedAt' <= metrics'.upTo \/ placedAt' <= deleted'
    BY DEF MetricsCoverTrades
  <2>1. Len(trades) < from
    BY <1>3, <1>6
  <2>2. metrics.upTo \in epoch .. Len(trades)
    BY <1>1 DEF LossInv, Covers
  <2>3. from = deleted + 1
    BY <1>5, <2>1, <2>2 DEF Oldest
  <2>4. QED BY <1>1, <1>5, <2>1, <2>3
<1>11. QED BY <1>4, <1>7, <1>8, <1>9, <1>10 DEF LossInv

LEMMA SaveMetricStep ==
  ASSUME NEW o \in Placements, LossInv, SavePerformanceMetric(o)
  PROVE  LossInv'
<1> DEFINE r2 == [NoUpdate EXCEPT !.pc = "done"]
<1>1. /\ update[o].pc = "save" /\ metrics' = update[o].row /\ Moves(o, r2)
      /\ UNCHANGED <<trades, deleted, epoch, today, passed, placed, placedAt, mixed>>
  BY DEF SavePerformanceMetric, Saved, Moves
<1>2. DOMAIN r2 = {"pc", "row"} /\ r2.pc = "done"
  BY DEF NoUpdate
<1> HIDE DEF r2
<1>3. /\ LossShape' /\ update'[o] = r2 /\ \A p \in Placements \ {o} : update'[p] = update[p]
  BY <1>1, <1>2, MoveFrame DEF LossInv, LossShape
<1>4. InFlight' \subseteq InFlight
  BY <1>2, <1>3 DEF InFlight
<1>5. \A p \in Placements : update'[p].pc = "save" => update'[p] = update[p]
  BY <1>2, <1>3
<1>6. /\ Covers(metrics)'
      /\ \A p \in Placements : update'[p].pc = "save" => Covers(update[p].row)'
  BY <1>1, <1>5 DEF LossInv, Covers
<1>7. ~mixed' => InFlightAlone' /\ SavesCover'
  BY <1>1, <1>4, <1>5 DEF LossInv, InFlightAlone, SavesCover
<1>8. MetricsCoverTrades'
  BY <1>1 DEF LossInv, SavesCover, MetricsCoverTrades
<1>9. QED BY <1>3, <1>6, <1>7, <1>8 DEF LossInv

LEMMA UpdateFailsStep ==
  ASSUME NEW o \in Placements, LossInv, UpdateFails(o)
  PROVE  LossInv'
<1> DEFINE r2 == [NoUpdate EXCEPT !.pc = "done"]
<1>1. /\ Moves(o, r2) /\ mixed'
      /\ UNCHANGED <<trades, deleted, metrics, epoch, today, passed, placed, placedAt>>
  BY DEF UpdateFails, Saved, Moves
<1>2. DOMAIN r2 = {"pc", "row"} /\ r2.pc = "done"
  BY DEF NoUpdate
<1> HIDE DEF r2
<1>3. mixed' \in BOOLEAN
  BY DEF UpdateFails
<1>4. /\ LossShape' /\ update'[o] = r2 /\ \A p \in Placements \ {o} : update'[p] = update[p]
  BY <1>1, <1>2, <1>3, MoveFrame
<1>5. \A p \in Placements : update'[p].pc = "save" => update'[p] = update[p]
  BY <1>2, <1>4
<1>6. /\ metrics' # NoMetrics => Covers(metrics)'
      /\ \A p \in Placements : update'[p].pc = "save" => Covers(update[p].row)'
  BY <1>1, <1>5 DEF LossInv, Covers
<1>7. QED BY <1>1, <1>4, <1>6 DEF LossInv, MetricsCoverTrades

\* The metrics' invariant: an update that is alone has every trade its order knew of.
THEOREM AlwaysLossInv == LossSpec => []LossInv
<1>1. LossInit => LossInv
  <2> SUFFICES ASSUME LossInit PROVE LossInv
    OBVIOUS
  <2>1. \A o \in Placements : update[o].pc = "none" /\ DOMAIN update[o] = {"pc", "row"}
    BY DEF LossInit, NoUpdate
  <2>2. trades \in Seq([result : Results, day : Nat]) /\ Len(trades) = 0
    BY DEF LossInit
  <2>3. LossShape
    <3>1. /\ deleted \in 0 .. Len(trades) /\ placedAt \in 0 .. Len(trades)
          /\ epoch \in Nat /\ today \in Nat /\ placed \in Nat
      BY <2>2 DEF LossInit
    <3>2. DOMAIN update = Placements
      BY DEF LossInit
    <3>3. QED BY <2>1, <2>2, <3>1, <3>2 DEF LossInit, LossShape
  <2>4. InFlight = {}
    BY <2>1 DEF InFlight
  <2>5. metrics = NoMetrics /\ MetricsCoverTrades
    BY DEF LossInit, MetricsCoverTrades
  <2>6. QED BY <2>1, <2>3, <2>4, <2>5 DEF LossInv, InFlightAlone, SavesCover
<1>2. LossInv /\ [LossNext]_lossVars => LossInv'
  <2> SUFFICES ASSUME LossInv, [LossNext]_lossVars
               PROVE  LossInv'
    OBVIOUS
  <2>1. /\ Len(trades) \in Nat /\ deleted \in Nat /\ trades \in Seq([result : Results, day : Nat])
        /\ deleted \in 0 .. Len(trades) /\ today \in Nat /\ placed \in Nat
        /\ passed => placed < MaxOrders
    BY LengthIsNat DEF LossInv, LossShape
  <2>2. CASE CheckRiskManagement \/ ForcedExit \/ OrderFails
    BY <2>1, <2>2, LossFrame DEF CheckRiskManagement, ForcedExit, OrderFails
  <2>3. CASE PlaceOrder
    BY <2>3, PlaceStep
  <2>4. CASE BookTrade
    <3>1. PICK r \in Results : trades' = Append(trades, [result |-> r, day |-> today])
      BY <2>4 DEF BookTrade
    <3>2. trades' \in Seq([result : Results, day : Nat]) /\ Len(trades') = Len(trades) + 1
      BY <2>1, <3>1
    <3>3. UNCHANGED <<metrics, epoch, update, mixed, placedAt, placed, deleted, today, passed>>
      BY <2>4 DEF BookTrade
    <3>4. QED BY <2>1, <3>2, <3>3, LossFrame
  <2>5. CASE NextDay
    BY <2>1, <2>5, LossFrame DEF NextDay
  <2>6. CASE DeleteOldTrade
    BY <2>1, <2>6, LossFrame DEF DeleteOldTrade
  <2>7. CASE MetricsExpire
    <3>1. /\ metrics' = NoMetrics
          /\ UNCHANGED <<trades, deleted, epoch, today, passed, placed, update, placedAt, mixed>>
      BY <2>7 DEF MetricsExpire
    <3>2. InFlight' = InFlight
      BY <3>1 DEF InFlight
    <3>3. QED BY <3>1, <3>2 DEF LossInv, LossShape, Covers, InFlightAlone, SavesCover,
                                MetricsCoverTrades
  <2>8. CASE \E o \in Placements : ReadTrades(o) \/ SavePerformanceMetric(o) \/ UpdateFails(o)
    BY <2>8, ReadStep, SaveMetricStep, UpdateFailsStep
  <2>9. CASE UNCHANGED lossVars
    BY <2>1, <2>9, LossFrame DEF lossVars
  <2>10. QED BY <2>2, <2>3, <2>4, <2>5, <2>6, <2>7, <2>8, <2>9 DEF LossNext
<1>3. QED BY <1>1, <1>2, PTL DEF LossSpec

\* The total loss limit misses only trades booked since the last order (LossLimit).
THEOREM LimitKnowsTrades == LossSpec => []MetricsCoverTrades
<1>1. LossInv => MetricsCoverTrades
  BY DEF LossInv
<1>2. QED BY <1>1, AlwaysLossInv, PTL

-----------------------------------------------------------------------------
(* RateLimiter                                                             *)

\* Ticks that have not become a token: one in the ticker, one in the goroutine's hands.
Held == (IF fired THEN 1 ELSE 0) + (IF received THEN 1 ELSE 0)

\* Of the tokens there were when the last j + 1 intervals began and those that came
\* since, the ones not taken are in the bucket or about to be put there.
MeteredInv ==
  /\ tokens \in Nat /\ tokens <= Rate
  /\ fired \in BOOLEAN /\ received \in BOOLEAN
  /\ taken \in [Intervals -> Nat]
  /\ \A j \in Intervals :
       SumFunctionOnSet(taken, 0 .. j) + tokens + Held <= Rate + j + 2

\* The first j + 1 counters are natural numbers, and so is their sum.
LEMMA TakenSum ==
  ASSUME taken \in [Intervals -> Nat], NEW j \in Intervals
  PROVE  /\ Summable(taken, 0 .. j) /\ SumFunctionOnSet(taken, 0 .. j) \in Int
         /\ IsFiniteSet(0 .. j) /\ 0 .. j \subseteq Intervals
         /\ \A i \in 0 .. j : taken[i] \in Int
<1>0. Rate \in Nat /\ j \in 0 .. Rate
  BY RateAssumption DEF Intervals
<1>1. IsFiniteSet(0 .. j) /\ 0 .. j \subseteq Intervals
  <2>1. IsFiniteSet(0 .. j)
    BY <1>0, FS_Interval
  <2>2. 0 .. j \subseteq 0 .. Rate
    BY <1>0
  <2>3. QED BY <2>1, <2>2 DEF Intervals
<1>2. \A i \in 0 .. j : taken[i] \in Int
  BY <1>1
<1>3. Summable(taken, 0 .. j)
  BY <1>1, <1>2 DEF Summable
<1>4. QED BY <1>1, <1>2, <1>3, SumInt

\* Another interval begins, with one more tick to come.
LEMMA MeterTicks ==
  ASSUME MeteredInv, TickerFires
  PROVE  MeteredInv'
<1>1. /\ taken' = [i \in Intervals |-> IF i = 0 THEN 0 ELSE taken[i - 1]]
      /\ UNCHANGED <<tokens, received>> /\ fired' \in BOOLEAN
  BY DEF TickerFires, MeteredInv
<1>0. Held \in Int /\ Held' \in Int /\ Held' <= Held + 1 /\ Held' <= 2
  BY <1>1 DEF Held, MeteredInv
<1>2. taken' \in [Intervals -> Nat]
  BY <1>1, RateAssumption DEF MeteredInv, Intervals
<1>3. ASSUME NEW j \in Intervals
      PROVE  SumFunctionOnSet(taken', 0 .. j) + tokens' + Held' <= Rate + j + 2
  <2>0. j \in Nat /\ Rate \in Nat /\ tokens \in Nat /\ tokens <= Rate
    BY RateAssumption DEF Intervals, MeteredInv
  <2>1. Summable(taken, 0 .. j) /\ \A i \in 0 .. j : taken'[i] = IF i = 0 THEN 0 ELSE taken[i - 1]
    BY <1>1, TakenSum DEF MeteredInv
  <2>2. SumFunctionOnSet(taken', 0 .. j) = SumFunctionOnSet(taken, 0 .. j - 1)
    <3>1. j \in 0 .. j
      BY <2>0
    <3>2. \A n \in 0 .. j :
            SumFunctionOnSet(taken', 0 .. n) = SumFunctionOnSet(taken, 0 .. n - 1)
      BY <2>0, <2>1, SumShift
    <3>3. QED BY <3>1, <3>2
  <2>3. CASE j = 0
    <3>1. 0 .. j - 1 = {}
      BY <2>3
    <3>2. SumFunctionOnSet(taken', 0 .. j) = 0
      BY <2>2, <3>1, SumEmpty
    <3>3. tokens' \in Nat /\ tokens' <= Rate
      BY <1>1, <2>0
    <3>4. \A x, y \in Int : x <= Rate /\ y <= 2 => 0 + x + y <= Rate + j + 2
      BY <2>0
    <3>5. Held' \in Int /\ Held' <= 2
      BY <1>0
    <3>6. QED BY <3>2, <3>3, <3>4, <3>5
  <2>4. CASE j # 0
    <3>1. j - 1 \in Intervals
      BY <2>0, <2>4 DEF Intervals
    <3>2. /\ SumFunctionOnSet(taken, 0 .. j - 1) \in Int
          /\ SumFunctionOnSet(taken, 0 .. j - 1) + tokens + Held <= Rate + (j - 1) + 2
      BY <3>1, TakenSum DEF MeteredInv
    <3>3. QED BY <1>0, <1>1, <2>0, <2>2, <3>2
  <2>5. QED BY <2>3, <2>4
<1>4. QED BY <1>1, <1>2, <1>3 DEF MeteredInv

\* A call takes a token.
LEMMA MeterTakes ==
  ASSUME MeteredInv, NEW c \in Calls, Wait(c)
  PROVE  MeteredInv'
<1>1. /\ tokens > 0 /\ tokens' = tokens - 1 /\ UNCHANGED <<fired, received>>
      /\ taken' = [taken EXCEPT ![0] = @ + 1]
  BY DEF Wait
<1>0. Held' = Held /\ Held \in Int
  BY <1>1 DEF Held
<1>2. taken \in [Intervals -> Nat] /\ tokens \in Nat /\ 0 \in Intervals
  BY RateAssumption DEF MeteredInv, Intervals
<1>3. /\ taken' \in [Intervals -> Nat] /\ taken'[0] = taken[0] + 1
      /\ \A i \in Intervals \ {0} : taken'[i] = taken[i]
  BY <1>1, <1>2
<1>4. ASSUME NEW j \in Intervals
      PROVE  SumFunctionOnSet(taken', 0 .. j) + tokens' + Held' <= Rate + j + 2
  <2>1. /\ SumFunctionOnSet(taken, 0 .. j) \in Int
        /\ IsFiniteSet(0 .. j) /\ 0 .. j \subseteq Intervals /\ 0 \in 0 .. j
        /\ \A i \in 0 .. j : taken[i] \in Int
    BY <1>2, TakenSum DEF Intervals
  <2>2. \A i \in 0 .. j : taken[i] \in Int /\ taken'[i] \in Int
    BY <1>3, <2>1
  <2>3. \A i \in (0 .. j) \ {0} : taken[i] = taken'[i]
    BY <1>3, <2>1
  <2>4. SumFunctionOnSet(taken', 0 .. j)
          = SumFunctionOnSet(taken, 0 .. j) + (taken'[0] - taken[0])
    <3> DEFINE S == 0 .. j
               f == taken
               g == taken'
    <3>1. /\ Summable(f, S) /\ Summable(g, S) /\ 0 \in S
          /\ \A y \in S \ {0} : f[y] = g[y]
      BY <2>1, <2>2, <2>3 DEF Summable
    <3> HIDE DEF S, f, g
    <3>2. SumFunctionOnSet(g, S) = SumFunctionOnSet(f, S) + (g[0] - f[0])
      BY <3>1, SumUpdate
    <3>3. QED BY <3>2 DEF S, f, g
  <2>5. SumFunctionOnSet(taken, 0 .. j) + tokens + Held <= Rate + j + 2
    BY DEF MeteredInv
  <2>6. taken[0] \in Nat /\ j \in Nat /\ Rate \in Nat
    BY <1>2, RateAssumption DEF Intervals
  <2>7. QED BY <1>0, <1>1, <1>2, <1>3, <2>1, <2>4, <2>5, <2>6
<1>5. tokens' \in Nat /\ tokens' <= Rate
  BY <1>1, <1>2, RateAssumption DEF MeteredInv
<1>6. QED BY <1>1, <1>3, <1>4, <1>5 DEF MeteredInv

\* Every step keeps account of the tokens.
LEMMA MeterStep == MeteredInv /\ [RateNext]_rateVars => MeteredInv'
<1> SUFFICES ASSUME MeteredInv, [RateNext]_rateVars PROVE MeteredInv'
  OBVIOUS
<1>1. CASE TickerFires
  BY <1>1, MeterTicks
<1>2. ASSUME NEW c \in Calls, Wait(c) PROVE MeteredInv'
  BY <1>2, MeterTakes
<1>3. CASE Replenish
  <2>1. received /\ received' = FALSE /\ UNCHANGED <<fired, taken>>
    BY <1>3 DEF Replenish
  <2>2. tokens \in Nat /\ tokens' \in Nat /\ tokens' <= Rate /\ tokens' <= tokens + 1
    <3>1. tokens \in Nat /\ tokens <= Rate /\ Rate \in Nat
      BY RateAssumption DEF MeteredInv
    <3>2. tokens' = IF tokens < Rate THEN tokens + 1 ELSE tokens
      BY <1>3 DEF Replenish
    <3>3. QED BY <3>1, <3>2
  <2>3. Held \in Int /\ Held' \in Int /\ Held' = Held - 1
    BY <2>1 DEF Held
  <2>4. ASSUME NEW j \in Intervals
        PROVE  SumFunctionOnSet(taken', 0 .. j) + tokens' + Held' <= Rate + j + 2
    <3>1. SumFunctionOnSet(taken, 0 .. j) \in Int /\ taken' = taken
      BY <2>1, TakenSum DEF MeteredInv
    <3>2. SumFunctionOnSet(taken, 0 .. j) + tokens + Held <= Rate + j + 2
      BY DEF MeteredInv
    <3>3. j \in Nat /\ Rate \in Nat
      BY RateAssumption DEF Intervals
    <3>4. QED BY <2>2, <2>3, <3>1, <3>2, <3>3
  <2>5. QED BY <2>1, <2>2, <2>4 DEF MeteredInv
<1>4. CASE ReceiveTick
  <2>1. /\ fired /\ received = FALSE /\ fired' = FALSE /\ received' = TRUE
        /\ UNCHANGED <<tokens, taken>>
    BY <1>4 DEF ReceiveTick, MeteredInv
  <2>2. Held' = Held
    BY <2>1 DEF Held
  <2>3. QED BY <2>1, <2>2 DEF MeteredInv
<1>5. CASE \/ StopLimiter \/ UNCHANGED rateVars
           \/ \E c \in Calls : \/ BeginCall(c) \/ GiveUp(c) \/ Answered(c)
                               \/ NetworkError(c) \/ Retry(c)
  <2>1. UNCHANGED <<tokens, fired, received, taken>>
    BY <1>5 DEF StopLimiter, rateVars, BeginCall, GiveUp, Answered, NetworkError, Retry
  <2>2. QED BY <2>1 DEF MeteredInv, Held
<1>6. QED BY <1>1, <1>2, <1>3, <1>4, <1>5 DEF RateNext

\* Whatever the rate, and however long the goroutine of the limiter takes to receive a tick
\* and to put its token: in a period no more calls begin than twice requests_per_minute and
\* two, which are the full bucket's, the ticker's and those of two ticks from before.
THEOREM CallsMetered == RateSpec => []CallsAreMetered
<1>1. RateInit => MeteredInv
  <2> SUFFICES ASSUME RateInit PROVE MeteredInv
    OBVIOUS
  <2>1. taken \in [Intervals -> Nat] /\ \A i \in Intervals : taken[i] = 0
    BY DEF RateInit
  <2>2. ASSUME NEW j \in Intervals
        PROVE  SumFunctionOnSet(taken, 0 .. j) = 0 /\ j \in Nat
    <3>1. IsFiniteSet(0 .. j) /\ \A i \in 0 .. j : taken[i] = 0
      BY <2>1, TakenSum
    <3>2. QED BY <3>1, SumZero DEF Intervals
  <2>3. \A j \in Intervals : SumFunctionOnSet(taken, 0 .. j) + tokens + Held <= Rate + j + 2
    BY <2>2, RateAssumption DEF RateInit, Held
  <2>4. tokens \in Nat /\ tokens <= Rate /\ fired \in BOOLEAN /\ received \in BOOLEAN
    <3>1. Rate \in Nat /\ tokens = Rate
      BY RateAssumption DEF RateInit
    <3>2. tokens \in Nat /\ tokens <= Rate
      BY <3>1
    <3>3. fired \in BOOLEAN /\ received \in BOOLEAN
      BY DEF RateInit
    <3>4. QED BY <3>2, <3>3
  <2>5. QED BY <2>1, <2>3, <2>4 DEF MeteredInv
<1>2. MeteredInv => CallsAreMetered
  <2> SUFFICES ASSUME MeteredInv PROVE CallsAreMetered
    OBVIOUS
  <2>1. Rate \in Intervals /\ Intervals = 0 .. Rate /\ Rate \in Nat /\ tokens \in Nat
    BY RateAssumption DEF Intervals, MeteredInv
  <2>2. SumFunctionOnSet(taken, 0 .. Rate) + tokens + Held <= Rate + Rate + 2
    BY <2>1 DEF MeteredInv
  <2>3. SumFunctionOnSet(taken, 0 .. Rate) \in Int
    BY <2>1, TakenSum DEF MeteredInv
  <2>4. Held \in Nat
    BY DEF Held
  <2>5. QED BY <2>1, <2>2, <2>3, <2>4 DEF CallsAreMetered, Taken
<1>3. QED BY <1>1, <1>2, MeterStep, PTL DEF RateSpec

-----------------------------------------------------------------------------
(* ConfigFile                                                              *)

USE ConfigAssumption

\* What Load yields, and what requests save.
Loaded == [name : Names, key : {"literal", "secret"}, days : {1}]
Savable == [name : Names, key : {"placeholder"}, days : {1}]
Request == [pc : {"idle", "open", "write", "rename", "reload", "install"},
            cfg : Savable \cup Loaded \cup {Invalid}, inode : Inodes \cup {NoInode}, alone : BOOLEAN]

Types ==
  /\ content \in [Inodes -> Whole \cup {Empty, Torn}]
  /\ configPath \in Inodes /\ tmpPath \in Inodes \cup {NoInode}
  /\ config \in Loaded \cup {Invalid}
  /\ envSet \in BOOLEAN /\ overlapped \in BOOLEAN /\ crossed \in BOOLEAN
  /\ post \in [Posts -> Request]

\* The temporary file is another one than the file.
TwoFiles == tmpPath # configPath

\* A request that is alone has the temporary file to itself, with nothing but its own
\* configuration in it.
AloneInTemp ==
  \A p \in Posts : Saving(p) /\ post[p].alone =>
    /\ tmpPath \in Inodes /\ post[p].inode = tmpPath
    /\ \A q \in Posts : Saving(q) => q = p
    /\ post[p].pc = "write" => content[tmpPath] = Empty
    /\ post[p].pc = "rename" => content[tmpPath] = post[p].cfg

HaveConfigs ==
  \A p \in Posts :
    /\ post[p].pc \in {"open", "write", "rename"} => post[p].cfg \in Savable
    /\ post[p].pc = "install" => post[p].cfg \in Loaded

\* Unless requests overlapped, the file is whole, and nobody writes to it.
WholeFile ==
  ~overlapped =>
    /\ content[configPath] \in Whole
    /\ \A p \in Posts : Saving(p) => post[p].inode # configPath

\* A request that has loaded the file as it is now, and not installed it.
Fresh(p) == post[p].pc = "install" /\ post[p].alone

\* Then what was loaded last and waits to be installed is what the file has; and if nobody
\* is about to load it or to install that, it is in use.
InUse ==
  ~overlapped /\ (envSet \/ Literal(configPath)) =>
    /\ \A p \in Posts : Fresh(p) => post[p].cfg = Load(configPath)
    /\ config # Invalid /\ ~crossed /\ (\A p \in Posts : post[p].pc # "reload" /\ ~Fresh(p))
       => config = Load(configPath)

ConfigInv == Types /\ TwoFiles /\ AloneInTemp /\ HaveConfigs /\ WholeFile /\ InUse

-----------------------------------------------------------------------------
(* ConfigFile: loading                                                     *)

\* The special contents of a file differ from the whole ones.
LEMMA Distinct ==
  /\ \A c \in Whole : c # Empty /\ c # Torn
  /\ \A c \in Loaded : c # Invalid
  /\ \A c \in Savable : c # Invalid /\ c \in Whole
  /\ Empty # Torn
BY DEF Whole, Loaded, Savable, Empty, Torn, Invalid

\* Load yields a complete configuration or none.
LEMMA LoadType ==
  ASSUME NEW i
  PROVE  Load(i) \in Loaded \cup {Invalid}
<1>1. CASE i \in Inodes /\ content[i] \in Whole
  <2> DEFINE c == [content[i] EXCEPT !.key = ExpandEnvVars(@)]
  <2>1. /\ c.name \in Names /\ c.days \in {0, 1}
        /\ c.key = ExpandEnvVars(content[i].key)
        /\ c = [name |-> c.name, key |-> c.key, days |-> c.days]
    BY <1>1 DEF Whole
  <2>2. c.key \in {"literal", "secret", "missing"}
    BY <2>1 DEF ExpandEnvVars
  <2>3. Load(i) = Validate(c)
    BY <1>1 DEF Load
  <2> HIDE DEF c
  <2>4. Validate(c) = Invalid \/ (c.key # "missing" /\ Validate(c) = [c EXCEPT !.days = 1])
    BY <2>1 DEF Validate
  <2>5. c.key # "missing" => [c EXCEPT !.days = 1] \in Loaded
    BY <2>1, <2>2 DEF Loaded
  <2>6. QED BY <2>3, <2>4, <2>5
<1>2. CASE ~(i \in Inodes /\ content[i] \in Whole)
  BY <1>2 DEF Load
<1>3. QED BY <1>1, <1>2

\* A whole file loads if it has the credentials or the environment does.
LEMMA WholeLoads ==
  ASSUME NEW i \in Inodes, content[i] \in Whole, envSet \/ Literal(i)
  PROVE  Load(i) # Invalid
<1> DEFINE c == [content[i] EXCEPT !.key = ExpandEnvVars(@)]
<1>1. c.key = ExpandEnvVars(content[i].key) /\ content[i].key \in {"literal", "placeholder"}
  BY DEF Whole
<1>2. c.key \in {"literal", "secret"}
  BY <1>1 DEF ExpandEnvVars, Literal
<1>3. Load(i) = Validate(c)
  BY DEF Load
<1>4. c = [name |-> c.name, key |-> c.key, days |-> c.days]
  BY DEF Whole
<1> HIDE DEF c
<1>5. \E d : Validate(c) = [c EXCEPT !.days = d]
  BY <1>2, <1>4 DEF Validate
<1>6. \A d : [c EXCEPT !.days = d] # Invalid
  BY <1>4 DEF Invalid
<1>7. QED BY <1>3, <1>5, <1>6

\* Load depends on nothing but the file and the environment.
LEMMA SameLoad ==
  ASSUME content'[configPath'] = content[configPath], envSet' = envSet,
         configPath \in Inodes, configPath' \in Inodes
  PROVE  Load(configPath)' = Load(configPath) /\ Literal(configPath)' = Literal(configPath)
BY DEF Load, Literal, Validate, ExpandEnvVars

-----------------------------------------------------------------------------
(* ConfigFile: steps                                                       *)

\* The file the program starts with is whole.
LEMMA InitConfigInv ==
  ASSUME ConfigInit
  PROVE  ConfigInv
<1>1. PICK i \in Inodes, c \in Whole :
        /\ content = [j \in Inodes |-> IF j = i THEN c ELSE Empty]
        /\ configPath = i /\ tmpPath = NoInode
  BY DEF ConfigInit
<1>2. /\ config = Invalid /\ envSet \in BOOLEAN /\ overlapped = FALSE /\ crossed = FALSE
      /\ post = [p \in Posts |-> NoPost]
  BY DEF ConfigInit
<1>3. NoPost \in Request /\ NoPost.pc = "idle"
  BY DEF NoPost, Request
<1>4. Types
  BY <1>1, <1>2, <1>3 DEF Types
<1>5. \A p \in Posts : post[p].pc = "idle"
  BY <1>2, <1>3
<1>6. content[configPath] \in Whole /\ tmpPath # configPath
  BY <1>1
<1>7. QED
  BY <1>2, <1>4, <1>5, <1>6
  DEF ConfigInv, TwoFiles, AloneInTemp, HaveConfigs, WholeFile, InUse, Fresh, Saving

LEMMA StartStep ==
  ASSUME ConfigInv, StartProcess
  PROVE  ConfigInv'
<1>1. /\ UNCHANGED <<content, configPath, tmpPath, envSet, post, overlapped, crossed>>
      /\ config' = Load(configPath)
  BY DEF StartProcess
<1>2. configPath \in Inodes
  BY DEF ConfigInv, Types
<1>3. Load(configPath)' = Load(configPath) /\ Literal(configPath)' = Literal(configPath)
  BY <1>1, <1>2, SameLoad
<1>4. Types'
  BY <1>1, LoadType DEF ConfigInv, Types
<1>5. InUse'
  <2>1. \A p \in Posts : Fresh(p)' <=> Fresh(p)
    BY <1>1 DEF Fresh
  <2>2. QED BY <1>1, <1>3, <2>1 DEF ConfigInv, InUse
<1>6. QED
  BY <1>1, <1>4, <1>5
  DEF ConfigInv, TwoFiles, AloneInTemp, HaveConfigs, WholeFile, Saving

\* What is on disk is as the crash found it, and nobody writes any more.
LEMMA CrashStep ==
  ASSUME ConfigInv, CrashProcess
  PROVE  ConfigInv'
<1>1. /\ UNCHANGED <<content, configPath, tmpPath, envSet, overlapped>>
      /\ config' = Invalid /\ post' = [p \in Posts |-> NoPost] /\ crossed' = FALSE
  BY DEF CrashProcess
<1>2. NoPost \in Request /\ NoPost.pc = "idle"
  BY DEF NoPost, Request
<1>3. \A p \in Posts : post'[p].pc = "idle"
  BY <1>1, <1>2
<1>4. Types'
  BY <1>1, <1>2 DEF ConfigInv, Types
<1>5. QED
  BY <1>1, <1>3, <1>4
  DEF ConfigInv, TwoFiles, AloneInTemp, HaveConfigs, WholeFile, InUse, Fresh, Saving

\* A request that is not saving any more, or not yet, with the files as they are.
LEMMA RequestMoves ==
  ASSUME ConfigInv, NEW p \in Posts, NEW to \in Request, to.pc \notin {"write", "rename"},
         to.pc = "open" => to.cfg \in Savable, to.pc = "install" => to.cfg \in Loaded,
         post' = [post EXCEPT ![p] = to],
         config' \in Loaded \cup {Invalid}, crossed' \in BOOLEAN,
         UNCHANGED <<content, configPath, envSet, overlapped>>,
         tmpPath' = tmpPath \/ (tmpPath' = NoInode /\ Saving(p)),
         InUse'
  PROVE  ConfigInv'
<1>1. Types'
  BY DEF ConfigInv, Types
<1>2. post'[p] = to /\ \A q \in Posts \ {p} : post'[q] = post[q]
  BY DEF ConfigInv, Types
<1>3. TwoFiles' /\ HaveConfigs'
  BY <1>2 DEF ConfigInv, Types, TwoFiles, HaveConfigs
<1>4. \A q \in Posts : Saving(q)' => q # p /\ Saving(q) /\ post'[q] = post[q]
  BY <1>2 DEF Saving
<1>5. AloneInTemp'
  BY <1>4 DEF ConfigInv, AloneInTemp
<1>6. WholeFile'
  BY <1>4 DEF ConfigInv, WholeFile
<1>7. QED BY <1>1, <1>3, <1>5, <1>6 DEF ConfigInv

\* If neither what it leaves nor what it comes to has to do with loading, the configuration
\* in use is as good as it was.
LEMMA RequestElsewhere ==
  ASSUME ConfigInv, NEW p \in Posts, NEW to \in Request, to.pc \in {"idle", "open"},
         to.pc = "open" => to.cfg \in Savable,
         post[p].pc \notin {"reload", "install"},
         post' = [post EXCEPT ![p] = to],
         UNCHANGED <<content, configPath, config, envSet, overlapped, crossed>>,
         tmpPath' = tmpPath \/ (tmpPath' = NoInode /\ Saving(p))
  PROVE  ConfigInv'
<1>1. Load(configPath)' = Load(configPath) /\ Literal(configPath)' = Literal(configPath)
  BY SameLoad DEF ConfigInv, Types
<1>2. post'[p] = to /\ \A q \in Posts \ {p} : post'[q] = post[q]
  BY DEF ConfigInv, Types
<1>3. InUse'
  BY <1>1, <1>2 DEF ConfigInv, InUse, Fresh
<1>4. config' \in Loaded \cup {Invalid} /\ crossed' \in BOOLEAN
  BY DEF ConfigInv, Types
<1>5. to.pc \notin {"write", "rename"} /\ to.pc # "install"
  OBVIOUS
<1>6. QED BY <1>3, <1>4, <1>5, RequestMoves

LEMMA SnapshotStep ==
  ASSUME ConfigInv, NEW p \in Posts, Snapshot(p)
  PROVE  ConfigInv'
<1>1. /\ config \in Loaded /\ post[p].pc = "idle"
      /\ UNCHANGED <<content, configPath, tmpPath, config, envSet, overlapped, crossed>>
  BY DEF Snapshot, ConfigInv, Types
<1>2. PICK n \in Names \cup {NoName} :
        post' = [post EXCEPT ![p] = [NoPost EXCEPT !.pc = "open",
                  !.cfg = [config EXCEPT !.key = "placeholder", !.name = IF n = NoName THEN @ ELSE n]]]
  BY DEF Snapshot
<1> DEFINE cfg == [config EXCEPT !.key = "placeholder", !.name = IF n = NoName THEN @ ELSE n]
           to == [NoPost EXCEPT !.pc = "open", !.cfg = cfg]
<1>3. cfg \in Savable
  BY <1>1 DEF Loaded, Savable
<1> HIDE DEF cfg
<1>4. to \in Request /\ to.pc = "open" /\ to.cfg = cfg
  BY <1>3 DEF Request, NoPost
<1>5. post' = [post EXCEPT ![p] = to]
  BY <1>2 DEF cfg
<1> HIDE DEF to
<1>6. QED BY <1>1, <1>3, <1>4, <1>5, RequestElsewhere

LEMMA FailStep ==
  ASSUME ConfigInv, NEW p \in Posts, SaveFailed(p)
  PROVE  ConfigInv'
<1>1. /\ Saving(p) /\ post' = [post EXCEPT ![p] = NoPost]
      /\ tmpPath' = tmpPath \/ tmpPath' = NoInode
      /\ UNCHANGED <<content, configPath, config, envSet, overlapped, crossed>>
  BY DEF SaveFailed
<1>2. NoPost \in Request /\ NoPost.pc = "idle"
  BY DEF NoPost, Request
<1>3. post[p].pc \notin {"reload", "install"}
  BY <1>1 DEF Saving
<1>4. QED BY <1>1, <1>2, <1>3, RequestElsewhere

\* What is loaded waits to be installed; unless requests overlapped, the file does load.
LEMMA LoadStep ==
  ASSUME ConfigInv, NEW p \in Posts, LoadSaved(p)
  PROVE  ConfigInv'
<1> DEFINE to == IF Load(configPath) = Invalid THEN NoPost
                 ELSE [NoPost EXCEPT !.pc = "install", !.cfg = Load(configPath), !.alone = TRUE]
<1>1. /\ post[p].pc = "reload" /\ post' = [post EXCEPT ![p] = to]
      /\ UNCHANGED <<content, configPath, tmpPath, config, envSet, overlapped, crossed>>
  BY DEF LoadSaved
<1>2. /\ to \in Request /\ to.pc \in {"idle", "install"}
      /\ to.pc = "install" <=> Load(configPath) # Invalid
      /\ to.pc = "install" => to.cfg = Load(configPath) /\ to.alone /\ to.cfg \in Loaded
  BY LoadType DEF NoPost, Request
<1> HIDE DEF to
<1>3. post'[p] = to /\ \A q \in Posts \ {p} : post'[q] = post[q]
  BY <1>1 DEF ConfigInv, Types
<1>4. Load(configPath)' = Load(configPath) /\ Literal(configPath)' = Literal(configPath)
  BY <1>1, SameLoad DEF ConfigInv, Types
<1>5. ~overlapped /\ (envSet \/ Literal(configPath)) => Load(configPath) # Invalid
  BY WholeLoads DEF ConfigInv, WholeFile, Types
<1>6. InUse'
  <2> SUFFICES ASSUME ~overlapped, envSet \/ Literal(configPath)
               PROVE  /\ \A q \in Posts : Fresh(q)' => post'[q].cfg = Load(configPath)
                      /\ \E q \in Posts : Fresh(q)'
    BY <1>1, <1>4 DEF InUse
  <2>1. post'[p].cfg = Load(configPath) /\ Fresh(p)'
    BY <1>2, <1>3, <1>5 DEF Fresh
  <2>2. \A q \in Posts \ {p} : Fresh(q)' => post'[q].cfg = Load(configPath)
    BY <1>3 DEF ConfigInv, InUse, Fresh
  <2>3. QED BY <2>1, <2>2
<1>7. config' \in Loaded \cup {Invalid} /\ crossed' \in BOOLEAN
  BY <1>1 DEF ConfigInv, Types
<1>8. QED BY <1>1, <1>2, <1>6, <1>7, RequestMoves

\* What is installed is what the file has, unless it was loaded before another renamed it.
LEMMA InstallStep ==
  ASSUME ConfigInv, NEW p \in Posts, Install(p)
  PROVE  ConfigInv'
<1>1. /\ post[p].pc = "install" /\ post' = [post EXCEPT ![p] = NoPost]
      /\ config' = post[p].cfg /\ crossed' = ~post[p].alone
      /\ UNCHANGED <<content, configPath, tmpPath, envSet, overlapped>>
  BY DEF Install
<1>2. NoPost \in Request /\ NoPost.pc = "idle"
  BY DEF NoPost, Request
<1>3. post'[p] = NoPost /\ \A q \in Posts \ {p} : post'[q] = post[q]
  BY <1>1 DEF ConfigInv, Types
<1>4. Load(configPath)' = Load(configPath) /\ Literal(configPath)' = Literal(configPath)
  BY <1>1, SameLoad DEF ConfigInv, Types
<1>5. InUse'
  <2> SUFFICES ASSUME ~overlapped, envSet \/ Literal(configPath)
               PROVE  /\ \A q \in Posts : Fresh(q)' => post'[q].cfg = Load(configPath)
                      /\ ~crossed' => config' = Load(configPath)
    BY <1>1, <1>4 DEF InUse
  <2>1. \A q \in Posts : Fresh(q)' => q # p
    BY <1>2, <1>3 DEF Fresh
  <2>2. \A q \in Posts : Fresh(q)' => post'[q].cfg = Load(configPath)
    BY <1>3, <2>1 DEF ConfigInv, InUse, Fresh
  <2>3. ~crossed' => config' = Load(configPath)
    BY <1>1 DEF ConfigInv, InUse, Fresh
  <2>4. QED BY <2>2, <2>3
<1>6. config' \in Loaded \cup {Invalid} /\ crossed' \in BOOLEAN
  <2>1. post[p].cfg \in Loaded
    BY <1>1 DEF ConfigInv, HaveConfigs
  <2>2. QED BY <1>1, <2>1
<1>7. QED BY <1>1, <1>2, <1>5, <1>6, RequestMoves

\* A temporary file that is new, or taken over from whoever writes it: not the file.
LEMMA OpenStep ==
  ASSUME ConfigInv, NEW p \in Posts, OpenTemp(p)
  PROVE  ConfigInv'
<1>1. PICK i \in Inodes :
        /\ i # configPath /\ tmpPath' = i
        /\ content' = [content EXCEPT ![i] = Empty]
        /\ post' = Opened(p, i)
  BY DEF OpenTemp, ConfigInv, TwoFiles
<1>2. /\ post[p].pc = "open" /\ UNCHANGED <<configPath, config, envSet, overlapped, crossed>>
  BY DEF OpenTemp
<1> DEFINE others == {q \in Posts \ {p} : Saving(q)}
           mine == [post[p] EXCEPT !.pc = "write", !.inode = i, !.alone = (others = {})]
<1>3. post \in [Posts -> Request]
  BY DEF ConfigInv, Types
<1>4. /\ mine \in Request /\ mine.pc = "write" /\ mine.inode = i /\ mine.cfg = post[p].cfg
      /\ mine.alone => others = {}
  <2>1. (others = {}) \in BOOLEAN
    OBVIOUS
  <2> HIDE DEF others
  <2>2. QED BY <1>3, <2>1 DEF Request
<1>5. /\ post'[p] = mine
      /\ \A q \in others : post'[q] = [post[q] EXCEPT !.alone = FALSE]
      /\ \A q \in Posts \ {p} : q \notin others => post'[q] = post[q]
      /\ DOMAIN post' = Posts
      /\ post' = [q \in Posts |-> post'[q]]
  BY <1>1 DEF Opened
<1> HIDE DEF mine
<1>6. \A q \in others : /\ post'[q] \in Request /\ post'[q].alone = FALSE
                        /\ post'[q].pc = post[q].pc /\ post'[q].cfg = post[q].cfg
                        /\ post'[q].inode = post[q].inode
  <2> SUFFICES ASSUME NEW q \in others
               PROVE  /\ post'[q] \in Request /\ post'[q].alone = FALSE
                      /\ post'[q].pc = post[q].pc /\ post'[q].cfg = post[q].cfg
                      /\ post'[q].inode = post[q].inode
    OBVIOUS
  <2>1. post[q] \in Request /\ post'[q] = [post[q] EXCEPT !.alone = FALSE]
    BY <1>3, <1>5
  <2>2. QED BY <2>1 DEF Request
<1>7. \A q \in Posts \ {p} : Saving(q)' <=> q \in others
  BY <1>5, <1>6 DEF Saving
<1> HIDE DEF others
<1>8. Types'
  <2>1. post' \in [Posts -> Request]
    BY <1>3, <1>4, <1>5, <1>6
  <2>2. content' \in [Inodes -> Whole \cup {Empty, Torn}]
    BY <1>1 DEF ConfigInv, Types
  <2>3. QED BY <1>1, <1>2, <2>1, <2>2 DEF ConfigInv, Types
<1>9. TwoFiles'
  BY <1>1, <1>2 DEF TwoFiles
<1>10. AloneInTemp'
  <2>1. ASSUME NEW q \in Posts, Saving(q)', post'[q].alone
        PROVE  q = p
    BY <1>6, <1>7, <2>1
  <2>2. post'[p].alone => \A q \in Posts : Saving(q)' => q = p
    BY <1>4, <1>5, <1>7
  <2>3. content'[tmpPath'] = Empty /\ tmpPath' \in Inodes
    BY <1>1 DEF ConfigInv, Types
  <2>4. post'[p].pc = "write" /\ post'[p].inode = tmpPath'
    BY <1>1, <1>4, <1>5
  <2>5. QED BY <2>1, <2>2, <2>3, <2>4 DEF AloneInTemp
<1>11. HaveConfigs'
  BY <1>2, <1>4, <1>5, <1>6 DEF ConfigInv, HaveConfigs
<1>12. content'[configPath'] = content[configPath]
  BY <1>1, <1>2 DEF ConfigInv, Types
<1>13. WholeFile'
  <2>1. \A q \in Posts \ {p} : Saving(q)' => Saving(q) /\ post'[q].inode = post[q].inode
    BY <1>6, <1>7 DEF others
  <2>2. post'[p].inode # configPath'
    BY <1>1, <1>2, <1>4, <1>5
  <2>3. QED BY <1>2, <1>12, <2>1, <2>2 DEF ConfigInv, WholeFile
<1>14. InUse'
  <2>1. Load(configPath)' = Load(configPath) /\ Literal(configPath)' = Literal(configPath)
    BY <1>2, <1>12, SameLoad DEF ConfigInv, Types
  <2>2. \A q \in Posts \ {p} : /\ post'[q].pc = post[q].pc /\ post'[q].cfg = post[q].cfg
                               /\ Fresh(q)' <=> Fresh(q)
    <3>1. \A q \in others : ~Fresh(q) /\ ~Fresh(q)'
      BY <1>6 DEF others, Saving, Fresh
    <3>2. QED BY <1>5, <1>6, <3>1 DEF Fresh
  <2>3. post[p].pc # "reload" /\ ~Fresh(p) /\ post'[p].pc # "reload" /\ ~Fresh(p)'
    BY <1>2, <1>4, <1>5 DEF Fresh
  <2>4. QED BY <1>2, <2>1, <2>2, <2>3 DEF ConfigInv, InUse
<1>15. QED BY <1>8, <1>9, <1>10, <1>11, <1>13, <1>14 DEF ConfigInv

\* Whoever is alone writes into an empty file.
LEMMA WriteStep ==
  ASSUME ConfigInv, NEW p \in Posts, WriteTemp(p)
  PROVE  ConfigInv'
<1>1. /\ post[p].pc = "write" /\ post' = [post EXCEPT ![p].pc = "rename"]
      /\ UNCHANGED <<configPath, tmpPath, config, envSet, overlapped, crossed>>
  BY DEF WriteTemp
<1>2. PICK c \in {post[p].cfg} \cup (IF content[post[p].inode] = Empty THEN {} ELSE {Torn}) :
        content' = [content EXCEPT ![post[p].inode] = c]
  BY DEF WriteTemp
<1>3. post \in [Posts -> Request] /\ post[p].cfg \in Savable /\ Saving(p)
  BY <1>1 DEF ConfigInv, Types, HaveConfigs, Saving
<1>4. c \in Whole \cup {Empty, Torn}
  BY <1>3, Distinct
<1>5. /\ post'[p] \in Request /\ post'[p].pc = "rename" /\ post'[p].cfg = post[p].cfg
      /\ post'[p].inode = post[p].inode /\ post'[p].alone = post[p].alone
      /\ \A q \in Posts \ {p} : post'[q] = post[q]
      /\ post' \in [Posts -> Request]
  BY <1>1, <1>3 DEF Request
<1>6. \A q \in Posts : Saving(q)' <=> Saving(q)
  BY <1>3, <1>5 DEF Saving
<1>7. Types'
  BY <1>1, <1>2, <1>4, <1>5 DEF ConfigInv, Types
<1>8. TwoFiles' /\ HaveConfigs'
  BY <1>1, <1>3, <1>5 DEF ConfigInv, TwoFiles, HaveConfigs
<1>9. AloneInTemp'
  <2> SUFFICES ASSUME NEW q \in Posts, Saving(q), post[q].alone
               PROVE  /\ q = p /\ tmpPath \in Inodes /\ post[q].inode = tmpPath
                      /\ \A r \in Posts : Saving(r) => r = q
                      /\ content'[tmpPath] = post[q].cfg
    BY <1>1, <1>5, <1>6 DEF AloneInTemp
  <2>1. /\ q = p /\ tmpPath \in Inodes /\ post[q].inode = tmpPath /\ content[tmpPath] = Empty
        /\ \A r \in Posts : Saving(r) => r = q
    BY <1>1, <1>3 DEF ConfigInv, AloneInTemp
  <2>2. content'[tmpPath] = post[q].cfg
    BY <1>2, <2>1 DEF ConfigInv, Types
  <2>3. QED BY <2>1, <2>2
<1>10. ~overlapped => content'[configPath'] = content[configPath]
  BY <1>1, <1>2, <1>3 DEF ConfigInv, Types, WholeFile
<1>11. WholeFile'
  BY <1>1, <1>5, <1>6, <1>10 DEF ConfigInv, WholeFile
<1>12. InUse'
  <2>1. ~overlapped => /\ Load(configPath)' = Load(configPath)
                       /\ Literal(configPath)' = Literal(configPath)
    BY <1>1, <1>10, SameLoad DEF ConfigInv, Types
  <2>2. \A q \in Posts : /\ post'[q].cfg = post[q].cfg /\ Fresh(q)' <=> Fresh(q)
                         /\ post'[q].pc = "reload" <=> post[q].pc = "reload"
    BY <1>1, <1>5 DEF Fresh
  <2>3. QED BY <1>1, <2>1, <2>2 DEF ConfigInv, InUse
<1>13. QED BY <1>7, <1>8, <1>9, <1>11, <1>12 DEF ConfigInv

\* What is renamed is whole if the request was alone, and counts as overlapped otherwise.
LEMMA RenameStep ==
  ASSUME ConfigInv, NEW p \in Posts, Rename(p)
  PROVE  ConfigInv'
<1>1. Saving(p) /\ post[p].pc = "rename" /\ tmpPath' = NoInode
      /\ UNCHANGED <<content, config, envSet, crossed>>
  BY DEF Rename, Saving
<1>2. CASE tmpPath = NoInode
  <2>1. post' = [post EXCEPT ![p] = NoPost] /\ UNCHANGED <<configPath, overlapped>>
    BY <1>2 DEF Rename
  <2>2. NoPost \in Request /\ NoPost.pc = "idle" /\ post[p].pc \notin {"reload", "install"}
    BY <1>1 DEF NoPost, Request
  <2>3. QED BY <1>1, <2>1, <2>2, RequestElsewhere
<1>3. CASE tmpPath # NoInode
  <2>1. configPath' = tmpPath /\ overlapped' = ~post[p].alone /\ post' = Renamed(p)
    BY <1>3 DEF Rename
  <2>2. post \in [Posts -> Request] /\ tmpPath \in Inodes
    BY <1>3 DEF ConfigInv, Types
  <2>3. /\ post' \in [Posts -> Request] /\ post'[p].pc = "reload"
        /\ \A q \in Posts \ {p} : /\ post'[q].pc = post[q].pc /\ post'[q].cfg = post[q].cfg
                                  /\ post[q].pc # "install" => post'[q] = post[q]
                                  /\ post[q].pc = "install" => ~post'[q].alone
    <3>1. post'[p] \in Request /\ post'[p].pc = "reload" /\ DOMAIN post' = Posts
      BY <2>1, <2>2 DEF Renamed, Request
    <3>2. ASSUME NEW q \in Posts \ {p}
          PROVE  /\ post'[q] \in Request
                 /\ post'[q].pc = post[q].pc /\ post'[q].cfg = post[q].cfg
                 /\ post[q].pc # "install" => post'[q] = post[q]
                 /\ post[q].pc = "install" => ~post'[q].alone
      BY <2>1, <2>2 DEF Renamed, Request
    <3>3. post' = [q \in Posts |-> post'[q]]
      BY <2>1 DEF Renamed
    <3>4. QED BY <3>1, <3>2, <3>3
  <2>4. \A q \in Posts : Saving(q)' => q # p /\ Saving(q) /\ post'[q] = post[q]
    BY <2>3 DEF Saving
  <2>5. overlapped' \in BOOLEAN
    BY <2>1
  <2>6. Types'
    BY <1>1, <2>1, <2>2, <2>3, <2>5 DEF ConfigInv, Types
  <2>7. TwoFiles' /\ HaveConfigs'
    BY <1>1, <2>1, <2>2, <2>3 DEF ConfigInv, TwoFiles, HaveConfigs
  <2>8. AloneInTemp'
    BY <1>1, <2>4 DEF ConfigInv, AloneInTemp
  <2>9. WholeFile'
    <3> SUFFICES ASSUME post[p].alone
                 PROVE  content[tmpPath] \in Whole /\ \A q \in Posts : ~Saving(q)'
      BY <1>1, <2>1 DEF WholeFile
    <3>1. /\ content[tmpPath] = post[p].cfg /\ post[p].cfg \in Savable
          /\ \A q \in Posts : Saving(q) => q = p
      BY <1>1 DEF ConfigInv, AloneInTemp, HaveConfigs
    <3>2. QED BY <2>4, <3>1, Distinct
  <2>10. InUse'
    BY <2>3 DEF InUse, Fresh
  <2>11. QED BY <2>6, <2>7, <2>8, <2>9, <2>10 DEF ConfigInv
<1>4. QED BY <1>2, <1>3

-----------------------------------------------------------------------------
(* ConfigFile: the theorems                                                *)

\* The invariant that the theorem on the file rests on.
THEOREM AlwaysConfigInv == ConfigSpec => []ConfigInv
<1>1. ConfigInv /\ [ConfigNext]_configVars => ConfigInv'
  <2> SUFFICES ASSUME ConfigInv, [ConfigNext]_configVars
               PROVE  ConfigInv'
    OBVIOUS
  <2>1. CASE ConfigNext
    BY <2>1, StartStep, CrashStep, SnapshotStep, OpenStep, WriteStep, RenameStep, FailStep,
       LoadStep, InstallStep DEF ConfigNext
  <2>2. CASE UNCHANGED configVars
    <3>1. UNCHANGED <<content, configPath, tmpPath, config, envSet, post, overlapped, crossed>>
      BY <2>2 DEF configVars
    <3>2. Load(configPath)' = Load(configPath) /\ Literal(configPath)' = Literal(configPath)
      BY <3>1, SameLoad DEF ConfigInv, Types
    <3>3. QED
      BY <3>1, <3>2
      DEF ConfigInv, Types, TwoFiles, AloneInTemp, HaveConfigs, WholeFile, InUse, Fresh, Saving
  <2>3. QED BY <2>1, <2>2
<1>2. QED BY <1>1, InitConfigInv, PTL DEF ConfigSpec

\* There is always a configuration that loads (saveConfigToFile, Load), across crashes, failed
\* writes and failed renames; and between requests it is the one in use (PostApiConfig),
\* unless one that had been loaded before another request renamed the file was installed.
THEOREM ConfigAlwaysOnDisk == ConfigSpec => []ConfigOnDisk
<1>1. ASSUME ConfigInv PROVE ConfigOnDisk
  <2>1. FileLoads
    BY <1>1, WholeLoads DEF ConfigInv, Types, WholeFile, FileLoads
  <2>2. (\A p \in Posts : post[p] = NoPost) => \A p \in Posts : post[p].pc # "reload" /\ ~Fresh(p)
    <3>1. NoPost.pc = "idle"
      BY DEF NoPost
    <3>2. QED BY <3>1 DEF Fresh
  <2>3. FileInUse
    BY <1>1, <2>2 DEF ConfigInv, InUse, FileInUse
  <2>4. QED BY <2>1, <2>3 DEF ConfigOnDisk
<1>2. QED BY <1>1, AlwaysConfigInv, PTL

-----------------------------------------------------------------------------
(* EngineLifecycle                                                         *)

USE LifeAssumption, NoOrderAssumption

\* A request that has set the switch in memory and not saved it is alone and of one
\* mind with it; without a process there is no server and no request.
RequestsAgree ==
  /\ ~dirty => \A r \in Requests : req[r].pc = "save" =>
       /\ enabled = req[r].want
       /\ \A q \in Requests : req[q].pc = "save" => q = r
  /\ ~dirty => (saved = "true") = answered
  /\ ~Up => http = "closed" /\ \A r \in Requests : req[r].pc = "idle"

\* The trader's wait is behind run.
MonitorsAwaited == phase \in {"client", "workers", "channels", "db", "exit"}

\* A monitor that starts after the wait is a late one.
NoneWatchedAfterWait ==
  MonitorsAwaited /\ ~gaveUp => \A o \in Orders : order[o] # "watched"

LifeInv == LifeTypeOK /\ RequestsAgree /\ SwitchIsAsAnswered /\ NoneWatchedAfterWait

\* Before the first start nobody has asked for anything.
LEMMA InitLifeInv ==
  ASSUME LifeInit
  PROVE  LifeInv
<1>1. LifeTypeOK
  <2>1. req \in [Requests -> [pc : {"idle", "set", "save"}, want : BOOLEAN]]
    BY DEF LifeInit, Idle
  <2>2. sw = [pc |-> "done", id |-> NoOrder]
    BY DEF LifeInit, Waiting
  <2>3. starts \in 0 .. MaxStarts
    <3>1. starts = 0
      BY DEF LifeInit
    <3>2. QED BY <3>1
  <2>4. order \in [Orders -> {"none", "sent", "watched", "late", "booked", "lost"}]
    BY DEF LifeInit
  <2>5. sw \in [pc : {"idle", "checked", "sending", "adding", "done"}, id : Orders \cup {NoOrder}]
    BY <2>2
  <2>6. /\ phase = "down" /\ saved = "unset" /\ enabled = FALSE /\ http = "closed"
        /\ gaveUp = FALSE /\ answered = FALSE /\ dirty = FALSE
    BY DEF LifeInit
  <2>7. QED BY <2>1, <2>3, <2>4, <2>5, <2>6 DEF LifeTypeOK
<1>2. (saved = "true") = FALSE /\ answered = FALSE
  BY DEF LifeInit
<1>3. RequestsAgree
  BY <1>2 DEF LifeInit, RequestsAgree, Idle, Up
<1>4. SwitchIsAsAnswered
  BY <1>2 DEF LifeInit, SwitchIsAsAnswered, Up
<1>5. NoneWatchedAfterWait
  BY DEF LifeInit, NoneWatchedAfterWait, MonitorsAwaited
<1>6. QED BY <1>1, <1>3, <1>4, <1>5 DEF LifeInv

-----------------------------------------------------------------------------
(* EngineLifecycle: type correctness                                       *)

LEMMA TypeStep ==
  ASSUME LifeTypeOK, LifeNext
  PROVE  LifeTypeOK'
<1> USE DEF LifeTypeOK, switch, trading, Shutdown
<1>1. CASE Start
  <2>1. PICK readable \in BOOLEAN : ReadSwitch(readable)
    BY <1>1 DEF Start
  <2>2. saved' \in {"unset", "true", "false"}
    BY <2>1 DEF ReadSwitch
  <2>3. enabled' \in BOOLEAN /\ dirty' \in BOOLEAN
    BY <2>1, Zenon DEF ReadSwitch
  <2>4. starts' \in 0 .. MaxStarts
    <3>1. starts < MaxStarts /\ starts' = starts + 1 /\ starts \in 0 .. MaxStarts
      BY <1>1 DEF Start
    <3>2. QED BY <3>1
  <2>5. QED BY <1>1, <2>2, <2>3, <2>4 DEF Start, Waiting
<1>2. CASE StartFails
  <2>1. saved' \in {"unset", "true", "false"}
    BY <1>2 DEF StartFails
  <2>2. starts' \in 0 .. MaxStarts
    <3>1. starts < MaxStarts /\ starts' = starts + 1 /\ starts \in 0 .. MaxStarts
      BY <1>2 DEF StartFails
    <3>2. QED BY <3>1
  <2>3. QED BY <1>2, <2>1, <2>2 DEF StartFails
<1>3. CASE Serve
  BY <1>3 DEF Serve
<1>4. CASE Interrupt
  BY <1>4 DEF Interrupt, Advance
<1>5. CASE CloseListener
  BY <1>5 DEF CloseListener
<1>6. CASE AwaitRequests \/ CancelMonitors \/ AwaitMonitors \/ CloseWebSocket
             \/ AwaitWorkers \/ CloseChannels \/ CloseDatabase
  BY <1>6 DEF AwaitRequests, CancelMonitors, AwaitMonitors, CloseWebSocket, AwaitWorkers,
              CloseChannels, CloseDatabase, Advance
<1>7. CASE Exit \/ Crash
  <2>1. Die
    BY <1>7 DEF Exit, Crash
  <2>2. order' \in [Orders -> {"none", "sent", "watched", "late", "booked", "lost"}]
    BY <2>1 DEF Die
  <2>3. dirty' \in BOOLEAN
    BY <2>1 DEF Die
  <2>4. req' \in [Requests -> [pc : {"idle", "set", "save"}, want : BOOLEAN]]
    BY <2>1 DEF Die, Idle
  <2>5. QED BY <2>1, <2>2, <2>3, <2>4 DEF Die, Waiting
<1>8. ASSUME NEW r \in Requests, Ask(r) \/ SetInMemory(r) \/ Save(r) \/ SaveFails(r)
      PROVE  LifeTypeOK'
  <2>1. CASE Ask(r)
    <3>1. PICK want \in BOOLEAN : req' = [req EXCEPT ![r] = [pc |-> "set", want |-> want]]
      BY <2>1 DEF Ask
    <3>2. req' \in [Requests -> [pc : {"idle", "set", "save"}, want : BOOLEAN]]
      BY <3>1
    <3>3. QED BY <2>1, <3>2 DEF Ask
  <2>2. CASE SetInMemory(r)
    <3>1. req' \in [Requests -> [pc : {"idle", "set", "save"}, want : BOOLEAN]]
      <4>1. req' = [req EXCEPT ![r] = Idle] \/ req' = [req EXCEPT ![r].pc = "save"]
        BY <2>2 DEF SetInMemory, Answer
      <4>2. Idle \in [pc : {"idle", "set", "save"}, want : BOOLEAN]
        BY DEF Idle
      <4>3. QED BY <4>1, <4>2
    <3>2. enabled' \in BOOLEAN /\ answered' \in BOOLEAN
      BY <2>2 DEF SetInMemory, Answer
    <3>3. dirty' \in BOOLEAN
      BY <2>2, Zenon DEF SetInMemory
    <3>4. QED BY <2>2, <3>1, <3>2, <3>3 DEF SetInMemory
  <2>3. CASE Save(r)
    BY <2>3 DEF Save, Answer, Idle, Overlap, Value
  <2>4. CASE SaveFails(r)
    <3>1. req' \in [Requests -> [pc : {"idle", "set", "save"}, want : BOOLEAN]]
      BY <2>4 DEF SaveFails, Answer, Idle
    <3>2. dirty' \in BOOLEAN /\ answered' \in BOOLEAN
      BY <2>4 DEF SaveFails, Answer
    <3>3. QED BY <2>4, <3>1, <3>2 DEF SaveFails
  <2>5. QED BY <1>8, <2>1, <2>2, <2>3, <2>4
<1>9. CASE TakeSignal \/ Reject \/ EndSignals \/ NoReply \/ Reply
  <2>1. /\ sw' \in [pc : {"idle", "checked", "sending", "adding", "done"},
                   id : Orders \cup {NoOrder}]
        /\ UNCHANGED <<phase, starts, http, gaveUp, switch, order>>
    <3>1. CASE TakeSignal \/ Reject \/ EndSignals
      BY <3>1 DEF TakeSignal, Reject, EndSignals, SwGoto
    <3>2. CASE NoReply \/ Reply
      <4>1. sw' = Waiting \/ sw' = [sw EXCEPT !.pc = "adding"]
        BY <3>2 DEF NoReply, Reply
      <4>2. UNCHANGED <<phase, starts, http, gaveUp, switch, order>>
        BY <3>2 DEF NoReply, Reply
      <4>3. QED BY <4>1, <4>2 DEF Waiting
    <3>3. QED BY <1>9, <3>1, <3>2
  <2>2. QED BY <2>1
<1>10. CASE SendOrder
  <2>1. PICK o \in Orders : /\ order' = [order EXCEPT ![o] = "sent"]
                            /\ sw' = [pc |-> "sending", id |-> o]
    BY <1>10 DEF SendOrder
  <2>2. QED BY <1>10, <2>1 DEF SendOrder
<1>11. CASE AddMonitor
  BY <1>11 DEF AddMonitor, Waiting
<1>12. ASSUME NEW o \in Orders, EndMonitor(o) \/ MonitorFails(o)
       PROVE  LifeTypeOK'
  <2>1. order' \in [Orders -> {"none", "sent", "watched", "late", "booked", "lost"}]
    BY <1>12 DEF EndMonitor, MonitorFails
  <2>2. UNCHANGED <<phase, starts, http, gaveUp, switch, sw>>
    BY <1>12 DEF EndMonitor, MonitorFails
  <2>3. QED BY <2>1, <2>2
<1>13. QED
  BY <1>1, <1>2, <1>3, <1>4, <1>5, <1>6, <1>7, <1>8, <1>9, <1>10, <1>11, <1>12
  DEF LifeNext, ShutdownSteps

-----------------------------------------------------------------------------
(* EngineLifecycle: the trading switch                                     *)

SwitchInv == RequestsAgree /\ SwitchIsAsAnswered

\* The switch is out of reach of everything but start, requests and crash.
LEMMA SwitchUntouched ==
  ASSUME SwitchInv, UNCHANGED switch, Up, Up', http' = "closed" \/ Up'
  PROVE  SwitchInv'
BY DEF SwitchInv, switch, RequestsAgree, SwitchIsAsAnswered

\* What the last run of the process saved, this one reads.
LEMMA StartKeepsSwitch ==
  ASSUME LifeTypeOK, SwitchInv, Start
  PROVE  SwitchInv'
<1>1. /\ ~Up /\ Up' /\ req' = req /\ answered' = answered
      /\ \A r \in Requests : req[r].pc = "idle"
  BY DEF Start, Up, SwitchInv, RequestsAgree
<1>2. PICK readable \in BOOLEAN : ReadSwitch(readable)
  BY DEF Start
<1>3. (saved' = "true") = (saved = "true")
  BY <1>2 DEF ReadSwitch
<1>4. ASSUME ~dirty'
      PROVE  /\ ~dirty /\ readable
             /\ (saved = "true") = answered
             /\ enabled' = (saved = "true")
  <2>1. ~dirty /\ readable = TRUE
    BY <1>2, <1>4 DEF ReadSwitch
  <2>2. enabled' = (saved = "true")
    BY <1>2, <2>1, Zenon DEF ReadSwitch
  <2>3. (saved = "true") = answered
    BY <2>1 DEF SwitchInv, RequestsAgree
  <2>4. QED BY <2>1, <2>2, <2>3
<1>5. RequestsAgree'
  BY <1>1, <1>3, <1>4 DEF RequestsAgree
<1>6. SwitchIsAsAnswered'
  BY <1>1, <1>3, <1>4 DEF SwitchIsAsAnswered
<1>7. QED BY <1>5, <1>6 DEF SwitchInv

\* A start that fails reads nothing; the row it may create says what no row said.
LEMMA FailedStartKeepsSwitch ==
  ASSUME SwitchInv, StartFails
  PROVE  SwitchInv'
<1>1. /\ (saved' = "true") = (saved = "true") /\ ~Up'
      /\ UNCHANGED <<phase, http, enabled, req, answered, dirty>>
  BY DEF StartFails, Up
<1>2. QED BY <1>1 DEF SwitchInv, RequestsAgree, SwitchIsAsAnswered, Up

\* A request that arrives changes no answer.
LEMMA AskKeepsSwitch ==
  ASSUME LifeTypeOK, SwitchInv, NEW r \in Requests, Ask(r)
  PROVE  SwitchInv'
<1>1. /\ Up /\ UNCHANGED <<phase, http, saved, enabled, answered, dirty>>
      /\ req[r].pc = "idle"
  BY DEF Ask, SwitchInv, RequestsAgree
<1>2. PICK want \in BOOLEAN : req' = [req EXCEPT ![r] = [pc |-> "set", want |-> want]]
  BY DEF Ask
<1>3. req'[r].pc = "set" /\ \A q \in Requests \ {r} : req'[q] = req[q]
  BY <1>2 DEF LifeTypeOK
<1>4. \A q \in Requests : req'[q].pc = "save" <=> req[q].pc = "save"
  BY <1>1, <1>3
<1>5. \A q \in Requests : req'[q].pc = "save" => req'[q] = req[q]
  BY <1>3
<1>6. QED BY <1>1, <1>4, <1>5 DEF SwitchInv, RequestsAgree, SwitchIsAsAnswered, Up

\* In memory: with another request under way, or with nothing to do, or half done.
LEMMA SetKeepsSwitch ==
  ASSUME LifeTypeOK, SwitchInv, NEW r \in Requests, SetInMemory(r)
  PROVE  SwitchInv'
<1>1. /\ Up /\ Up' /\ req[r].pc = "set" /\ saved' = saved
      /\ dirty' = (dirty \/ Overlap(r))
  BY DEF SetInMemory, Up
<1>2. CASE dirty'
  BY <1>1, <1>2 DEF SwitchInv, RequestsAgree, SwitchIsAsAnswered
<1>3. CASE ~dirty'
  <2>1. ~dirty /\ \A q \in Requests : req[q].pc # "save"
    BY <1>1, <1>3 DEF Overlap
  <2>2. (saved = "true") = answered /\ enabled = answered
    BY <1>1, <2>1 DEF SwitchInv, SwitchIsAsAnswered
  <2>3. CASE enabled = req[r].want
    <3>1. /\ answered' = req[r].want /\ enabled' = enabled
          /\ req' = [req EXCEPT ![r] = Idle]
      BY <2>3 DEF SetInMemory, Answer
    <3>2. \A q \in Requests : req'[q].pc # "save"
      BY <2>1, <3>1 DEF Idle, LifeTypeOK
    <3>3. QED BY <1>1, <2>2, <2>3, <3>1, <3>2 DEF SwitchInv, RequestsAgree, SwitchIsAsAnswered
  <2>4. CASE enabled # req[r].want
    <3>1. /\ answered' = answered /\ enabled' = req[r].want
          /\ req' = [req EXCEPT ![r].pc = "save"]
      BY <2>4 DEF SetInMemory
    <3>2. /\ req'[r].pc = "save" /\ req'[r].want = req[r].want
          /\ \A q \in Requests \ {r} : req'[q].pc # "save"
      BY <2>1, <3>1 DEF LifeTypeOK
    <3>3. QED BY <1>1, <2>2, <3>1, <3>2 DEF SwitchInv, RequestsAgree, SwitchIsAsAnswered
  <2>5. QED BY <2>3, <2>4
<1>4. QED BY <1>2, <1>3

\* In the database: what is answered is there, and in memory unless somebody interfered.
LEMMA SaveKeepsSwitch ==
  ASSUME LifeTypeOK, SwitchInv, NEW r \in Requests, Save(r)
  PROVE  SwitchInv'
<1>1. /\ Up' /\ saved' = Value(req[r].want) /\ answered' = req[r].want /\ enabled' = enabled
      /\ req' = [req EXCEPT ![r] = Idle]
      /\ dirty' = (Overlap(r) \/ enabled # req[r].want)
  BY DEF Save, Answer, Up
<1>2. (saved' = "true") = req[r].want
  BY <1>1 DEF Value, LifeTypeOK
<1>3. CASE dirty'
  BY <1>1, <1>3 DEF SwitchInv, RequestsAgree, SwitchIsAsAnswered
<1>4. CASE ~dirty'
  <2>1. enabled = req[r].want /\ \A q \in Requests \ {r} : req[q].pc # "save"
    BY <1>1, <1>4 DEF Overlap
  <2>2. \A q \in Requests : req'[q].pc # "save"
    BY <1>1, <2>1 DEF Idle, LifeTypeOK
  <2>3. QED BY <1>1, <1>2, <2>1, <2>2 DEF SwitchInv, RequestsAgree, SwitchIsAsAnswered
<1>5. QED BY <1>3, <1>4

\* A save that fails leaves the switch as it was.
LEMMA FailedSaveKeepsSwitch ==
  ASSUME SwitchInv, NEW r \in Requests, SaveFails(r)
  PROVE  SwitchInv'
<1>1. dirty' = TRUE /\ Up'
  BY DEF SaveFails, Up
<1>2. QED BY <1>1 DEF SwitchInv, RequestsAgree, SwitchIsAsAnswered

\* Nothing is left of a request that a crash cut in two, but that it was.
LEMMA DieKeepsSwitch ==
  ASSUME LifeTypeOK, SwitchInv, Die
  PROVE  SwitchInv'
<1>1. /\ ~Up' /\ http' = "closed" /\ saved' = saved /\ answered' = answered
      /\ \A r \in Requests : req'[r].pc = "idle"
  BY DEF Die, Up, Idle
<1>2. ASSUME ~dirty' PROVE ~dirty
  BY <1>2 DEF Die
<1>3. QED BY <1>1, <1>2 DEF SwitchInv, RequestsAgree, SwitchIsAsAnswered

LEMMA SwitchStep ==
  ASSUME LifeTypeOK, SwitchInv, LifeNext
  PROVE  SwitchInv'
<1>1. CASE Start
  BY <1>1, StartKeepsSwitch
<1>2. CASE StartFails
  BY <1>2, FailedStartKeepsSwitch
<1>3. CASE Serve
  BY <1>3, SwitchUntouched DEF Serve, Up
<1>4. CASE Interrupt \/ CloseListener \/ AwaitRequests \/ CancelMonitors \/ AwaitMonitors
             \/ CloseWebSocket \/ AwaitWorkers \/ CloseChannels \/ CloseDatabase
  <2>1. Up /\ Up' /\ UNCHANGED switch
    BY <1>4 DEF Interrupt, CloseListener, AwaitRequests, CancelMonitors, AwaitMonitors,
                CloseWebSocket, AwaitWorkers, CloseChannels, CloseDatabase, Advance, Up
  <2>2. QED BY <2>1, SwitchUntouched
<1>5. CASE Exit \/ Crash
  BY <1>5, DieKeepsSwitch DEF Exit, Crash
<1>6. ASSUME NEW r \in Requests, Ask(r) \/ SetInMemory(r) \/ Save(r) \/ SaveFails(r)
      PROVE  SwitchInv'
  BY <1>6, AskKeepsSwitch, SetKeepsSwitch, SaveKeepsSwitch, FailedSaveKeepsSwitch
<1>7. CASE \/ TakeSignal \/ Reject \/ EndSignals \/ SendOrder \/ NoReply \/ Reply \/ AddMonitor
           \/ \E o \in Orders : EndMonitor(o) \/ MonitorFails(o)
  <2>1. UNCHANGED <<switch, phase, http>>
    BY <1>7 DEF TakeSignal, Reject, EndSignals, SendOrder, NoReply, Reply, AddMonitor,
                EndMonitor, MonitorFails
  <2>2. QED BY <2>1 DEF SwitchInv, switch, RequestsAgree, SwitchIsAsAnswered, Up
<1>8. QED
  BY <1>1, <1>2, <1>3, <1>4, <1>5, <1>6, <1>7 DEF LifeNext, ShutdownSteps

-----------------------------------------------------------------------------
(* EngineLifecycle: the monitors                                           *)

LEMMA MonitorStep ==
  ASSUME LifeTypeOK, NoneWatchedAfterWait, LifeNext
  PROVE  NoneWatchedAfterWait'
<1> USE DEF NoneWatchedAfterWait, MonitorsAwaited
<1>1. CASE Start \/ StartFails
  BY <1>1 DEF Start, StartFails
<1>2. CASE Interrupt \/ CloseListener \/ AwaitRequests \/ CancelMonitors
  BY <1>2 DEF Interrupt, CloseListener, AwaitRequests, CancelMonitors, Advance
<1>3. CASE AwaitMonitors
  BY <1>3 DEF AwaitMonitors, MonitorsRunning, trading
<1>4. CASE CloseWebSocket \/ AwaitWorkers \/ CloseChannels \/ CloseDatabase
  BY <1>4 DEF CloseWebSocket, AwaitWorkers, CloseChannels, CloseDatabase, Advance, trading
<1>5. CASE Exit \/ Crash
  BY <1>5 DEF Exit, Crash, Die
<1>6. CASE AddMonitor
  <2>1. MonitorsAwaited => MonitorsCancelled
    BY DEF MonitorsCancelled, Shutdown
  <2>2. UNCHANGED <<phase, gaveUp>>
    BY <1>6 DEF AddMonitor
  <2>3. ASSUME MonitorsAwaited, NEW o \in Orders, order[o] # "watched"
        PROVE  order'[o] # "watched"
    BY <1>6, <2>1, <2>3 DEF AddMonitor, LifeTypeOK
  <2>4. QED BY <2>2, <2>3
<1>7. CASE SendOrder
  BY <1>7 DEF SendOrder, LifeTypeOK
<1>8. ASSUME NEW o \in Orders, EndMonitor(o) \/ MonitorFails(o)
      PROVE  NoneWatchedAfterWait'
  BY <1>8 DEF EndMonitor, MonitorFails, LifeTypeOK
<1>9. CASE Serve \/ (\E r \in Requests : Ask(r) \/ SetInMemory(r) \/ Save(r) \/ SaveFails(r))
             \/ TakeSignal \/ Reject \/ EndSignals \/ NoReply \/ Reply
  BY <1>9 DEF Serve, Ask, SetInMemory, Save, SaveFails, TakeSignal, Reject, EndSignals,
              NoReply, Reply, trading
<1>10. QED
  BY <1>1, <1>2, <1>3, <1>4, <1>5, <1>6, <1>7, <1>8, <1>9 DEF LifeNext, ShutdownSteps

-----------------------------------------------------------------------------
(* EngineLifecycle: the theorems                                           *)

\* The invariant that the theorems on the life of the process rest on.
THEOREM AlwaysLifeInv == LifeSpec => []LifeInv
<1>1. LifeInv /\ [LifeNext]_lifeVars => LifeInv'
  <2> SUFFICES ASSUME LifeInv, [LifeNext]_lifeVars
               PROVE  LifeInv'
    OBVIOUS
  <2>1. CASE LifeNext
    BY <2>1, TypeStep, SwitchStep, MonitorStep DEF LifeInv, SwitchInv
  <2>2. CASE UNCHANGED lifeVars
    <3>1. LifeTypeOK'
      BY <2>2 DEF lifeVars, switch, trading, LifeInv, LifeTypeOK, Shutdown
    <3>2. RequestsAgree' /\ SwitchIsAsAnswered'
      BY <2>2 DEF lifeVars, switch, trading, LifeInv, RequestsAgree, SwitchIsAsAnswered, Up
    <3>3. NoneWatchedAfterWait'
      BY <2>2 DEF lifeVars, switch, trading, LifeInv, NoneWatchedAfterWait, MonitorsAwaited
    <3>4. QED BY <3>1, <3>2, <3>3 DEF LifeInv
  <2>3. QED BY <2>1, <2>2
<1>2. QED BY <1>1, InitLifeInv, PTL DEF LifeSpec

\* The trading switch is what the last success answer said, after any sequence of
\* requests, crashes and restarts (SetTradingEnabled, newTradingController).
THEOREM SwitchAlwaysAsAnswered == LifeSpec => []SwitchIsAsAnswered
<1>1. LifeInv => SwitchIsAsAnswered
  BY DEF LifeInv
<1>2. QED BY <1>1, AlwaysLifeInv, PTL

\* The database outlives the monitors that the trader waited for (run, Shutdown).
THEOREM DatabaseOutlivesMonitors == LifeSpec => []MonitorsBeforeDatabase
<1>1. LifeInv => MonitorsBeforeDatabase
  BY DEF LifeInv, NoneWatchedAfterWait, MonitorsAwaited, MonitorsBeforeDatabase
<1>2. QED BY <1>1, AlwaysLifeInv, PTL

-----------------------------------------------------------------------------
(* BarAggregation                                                          *)

\* What the strategy is shown of bars.
ShownAll(bars) == [i \in 1 .. Len(bars) |-> Shown(bars[i])]

\* Adding a bar to the n latest shows what adding it first and taking the n latest does.
LEMMA LatestOfMore ==
  ASSUME NEW T, NEW s \in Seq(T), NEW x \in T, NEW n \in Nat \ {0}
  PROVE  LastOf(Append(LastOf(s, n), x), n) = LastOf(Append(s, x), n)
<1> DEFINE t == Append(s, x)
           l == LastOf(s, n)
           u == Append(l, x)
<1>1. /\ t \in Seq(T) /\ Len(t) = Len(s) + 1 /\ t[Len(s) + 1] = x
      /\ \A i \in 1 .. Len(s) : t[i] = s[i]
      /\ Len(s) \in Nat /\ n \in Nat /\ n > 0
  OBVIOUS
<1>2. CASE Len(s) <= n
  BY <1>1, <1>2 DEF LastOf
<1>3. CASE Len(s) > n
  <2>1. l = SubSeq(s, Len(s) - n + 1, Len(s))
    BY <1>3 DEF LastOf
  <2>2. /\ l \in Seq(T) /\ Len(l) = n
        /\ \A i \in 1 .. n : l[i] = s[Len(s) - n + i]
    <3> DEFINE a == Len(s) - n + 1
    <3>1. a \in 1 .. Len(s)
      BY <1>1, <1>3
    <3>2. /\ SubSeq(s, a, Len(s)) \in Seq(T)
          /\ Len(SubSeq(s, a, Len(s))) = Len(s) - a + 1
          /\ \A i \in 1 .. Len(s) - a + 1 : SubSeq(s, a, Len(s))[i] = s[a + i - 1]
      BY <1>1, <3>1
    <3>3. QED BY <1>1, <1>3, <2>1, <3>2
  <2> HIDE DEF l
  <2>3. /\ u \in Seq(T) /\ Len(u) = n + 1 /\ u[n + 1] = x
        /\ \A i \in 1 .. n : u[i] = l[i]
    BY <1>1, <2>2
  <2> HIDE DEF t, u
  <2>4. LastOf(u, n) = SubSeq(u, 2, n + 1)
    BY <1>1, <2>3 DEF LastOf
  <2>5. LastOf(t, n) = SubSeq(t, Len(s) - n + 2, Len(s) + 1)
    <3>1. Len(t) > n /\ Len(t) - n + 1 = Len(s) - n + 2
      BY <1>1, <1>3
    <3>2. QED BY <1>1, <3>1 DEF LastOf
  <2>6. SubSeq(u, 2, n + 1) = [i \in 1 .. n |-> u[i + 1]]
    BY <1>1, <2>3
  <2>7. SubSeq(t, Len(s) - n + 2, Len(s) + 1) = [i \in 1 .. n |-> t[Len(s) - n + 1 + i]]
    BY <1>1, <1>3
  <2>8. \A i \in 1 .. n : u[i + 1] = t[Len(s) - n + 1 + i]
    <3> SUFFICES ASSUME NEW i \in 1 .. n PROVE u[i + 1] = t[Len(s) - n + 1 + i]
      OBVIOUS
    <3>1. CASE i = n
      BY <1>1, <2>3, <3>1
    <3>2. CASE i < n
      <4>1. i + 1 \in 1 .. n /\ Len(s) - n + (i + 1) \in 1 .. Len(s)
            /\ Len(s) - n + 1 + i = Len(s) - n + (i + 1)
        BY <1>1, <1>3, <3>2
      <4>2. u[i + 1] = s[Len(s) - n + (i + 1)]
        BY <2>2, <2>3, <4>1
      <4>3. QED BY <1>1, <4>1, <4>2
    <3>3. QED BY <1>1, <3>1, <3>2
  <2>9. QED BY <2>4, <2>5, <2>6, <2>7, <2>8 DEF t, u, l
<1>4. QED BY <1>1, <1>2, <1>3

\* The bars shown after one more.
LEMMA ShownMore ==
  ASSUME NEW T, NEW bars \in Seq(T), NEW bar \in T
  PROVE  ShownAll(Append(bars, bar)) = Append(ShownAll(bars), Shown(bar))
<1> DEFINE s == ShownAll(bars)
           t == ShownAll(Append(bars, bar))
           S == {Shown(b) : b \in T}
<1>1. Len(bars) \in Nat /\ \A i \in 1 .. Len(bars) : bars[i] \in T
  OBVIOUS
<1>2. s \in Seq(S) /\ Len(s) = Len(bars) /\ \A i \in 1 .. Len(bars) : s[i] = Shown(bars[i])
  BY <1>1 DEF ShownAll
<1>3. t \in Seq(S) /\ Len(t) = Len(bars) + 1
      /\ \A i \in 1 .. Len(bars) + 1 : t[i] = IF i <= Len(bars) THEN Shown(bars[i]) ELSE Shown(bar)
  BY <1>1 DEF ShownAll
<1>4. Shown(bar) \in S
  OBVIOUS
<1> HIDE DEF s, t, S
<1>5. /\ Append(s, Shown(bar)) \in Seq(S) /\ Len(Append(s, Shown(bar))) = Len(bars) + 1
      /\ Append(s, Shown(bar))[Len(bars) + 1] = Shown(bar)
      /\ \A i \in 1 .. Len(bars) : Append(s, Shown(bar))[i] = s[i]
  BY <1>2, <1>4, AppendProperties
<1>6. \A i \in 1 .. Len(t) : t[i] = Append(s, Shown(bar))[i]
  <2> SUFFICES ASSUME NEW i \in 1 .. Len(bars) + 1 PROVE t[i] = Append(s, Shown(bar))[i]
    BY <1>3
  <2>1. CASE i <= Len(bars)
    <3>1. i \in 1 .. Len(bars)
      BY <1>1, <2>1
    <3>2. QED BY <1>2, <1>3, <1>5, <2>1, <3>1
  <2>2. CASE ~(i <= Len(bars))
    <3>1. i = Len(bars) + 1
      BY <1>1, <2>2
    <3>2. QED BY <1>3, <1>5, <2>2, <3>1
  <2>3. QED BY <2>1, <2>2
<1>7. t = Append(s, Shown(bar))
  BY <1>3, <1>5, <1>6, SeqEqual
<1>8. QED BY <1>7 DEF t, s

ShownBar == [start : Int, close : Nat, volume : Nat]

\* Over ticks that do not fall behind a bar, both have the same open bar, the one of the
\* latest tick, and the completed ones agree.
BothAlike ==
  /\ resampled.open = live.open
  /\ live.bars = LastOf(ShownAll(resampled.bars), HistoryLimit)
  /\ live.open = NoBar => resampled.bars = <<>> /\ newest = 0
  /\ live.open # NoBar => live.open.start = BucketStart(newest)

BarsInv ==
  /\ live \in [open : Bar, bars : Seq(ShownBar)]
  /\ resampled \in [open : Bar, bars : Seq(Bar)]
  /\ newest \in Nat
  /\ ~late => IF eof THEN BarsAgree ELSE BothAlike

\* Later ticks belong to later bars.
LEMMA BucketOrder ==
  ASSUME NEW a \in Nat, NEW b \in Nat
  PROVE  /\ BucketStart(a) \in Nat
         /\ a <= b => BucketStart(a) <= BucketStart(b)
<1>1. Period \in Nat /\ Period > 0
  BY BarsAssumption
<1>2. \A p \in Nat \ {0} : a \div p \in Nat /\ b \div p \in Nat /\ (a <= b => a \div p <= b \div p)
  OBVIOUS
<1>3. \A p, x, y \in Nat : p * x \in Nat /\ (x <= y => p * x <= p * y)
  <2> SUFFICES ASSUME NEW p \in Nat, NEW x \in Nat, NEW y \in Nat, x <= y
               PROVE  p * x \in Nat /\ p * x <= p * y
    OBVIOUS
  <2>1. p * (y - x) >= 0
    OBVIOUS
  <2>2. QED BY <2>1
<1>4. QED BY <1>1, <1>2, <1>3 DEF BucketStart

\* A tick is one of a bar that starts at some time.
LEMMA TickFits ==
  ASSUME NEW time \in Nat, NEW price \in TickPrices, NEW volume \in TickVolumes, NEW bar \in Bar,
         NEW tick, tick = [time |-> time, price |-> price, volume |-> volume]
  PROVE  /\ NewBar(tick) \in Bar /\ NewBar(tick) # NoBar
         /\ NewBar(tick).start = BucketStart(time)
         /\ FoldIn(bar, tick) \in Bar /\ FoldIn(bar, tick).start = bar.start
         /\ tick.time = time
<1>1. price \in Nat /\ volume \in Nat /\ BucketStart(time) \in Nat
  BY BarsAssumption, BucketOrder
<1>2. NewBar(tick) \in Bar /\ NewBar(tick).start = BucketStart(time) /\ tick.time = time
  BY <1>1 DEF NewBar, Bar
<1>3. NewBar(tick) # NoBar
  BY <1>1, <1>2 DEF NoBar
<1>4. FoldIn(bar, tick) \in Bar /\ FoldIn(bar, tick).start = bar.start
  <2>1. tick.price \in Nat /\ tick.volume \in Nat
    BY <1>1
  <2>2. bar.high \in Nat /\ bar.low \in Nat /\ bar.volume \in Nat /\ bar.start \in Int
    BY DEF Bar
  <2> DEFINE high == IF tick.price > bar.high THEN tick.price ELSE bar.high
             low == IF tick.price < bar.low THEN tick.price ELSE bar.low
             volumes == bar.volume + tick.volume
  <2>3. high \in Nat /\ low \in Nat /\ volumes \in Nat
    BY <2>1, <2>2
  <2>4. FoldIn(bar, tick) = [bar EXCEPT !.high = high, !.low = low, !.close = tick.price,
                                        !.volume = volumes]
    BY DEF FoldIn
  <2> HIDE DEF high, low, volumes
  <2>5. QED BY <2>1, <2>3, <2>4 DEF Bar
<1>5. QED BY <1>2, <1>3, <1>4

\* What is shown of bars.
LEMMA ShownFits ==
  ASSUME NEW bars \in Seq(Bar)
  PROVE  /\ ShownAll(bars) \in Seq(ShownBar) /\ Len(ShownAll(bars)) = Len(bars)
         /\ \A b \in Bar : Shown(b) \in ShownBar
<1>1. \A b \in Bar : Shown(b) \in ShownBar
  BY DEF Shown, ShownBar, Bar
<1>2. Len(bars) \in Nat /\ \A i \in 1 .. Len(bars) : bars[i] \in Bar
  OBVIOUS
<1>3. \A i \in 1 .. Len(bars) : Shown(bars[i]) \in ShownBar
  BY <1>1, <1>2
<1>4. QED BY <1>1, <1>2, <1>3 DEF ShownAll

\* What the strategy is shown of all bars but the last.
ShownButLast(all) == [i \in 1 .. Len(all) - 1 |-> Shown(all[i])]

\* With their last bar taken as complete, the bars of the backtest end with the live ones.
LEMMA AllAgree ==
  ASSUME NEW bars \in Seq(Bar), NEW open \in Bar,
         NEW all, all = Append(bars, open)
  PROVE  /\ all # <<>> /\ Last(all) = open
         /\ ShownButLast(all) = ShownAll(bars)
<1>1. /\ Len(all) = Len(bars) + 1 /\ Len(bars) \in Nat /\ all # <<>>
      /\ all[Len(bars) + 1] = open /\ \A i \in 1 .. Len(bars) : all[i] = bars[i]
  BY AppendProperties
<1>2. Last(all) = open
  BY <1>1 DEF Last
<1>3. Len(all) - 1 = Len(bars)
  BY <1>1
<1>4. QED BY <1>1, <1>2, <1>3 DEF ShownAll, ShownButLast

\* The worker's history after a bar is complete.
LEMMA HistoryMoves ==
  ASSUME NEW bars \in Seq(Bar), NEW open \in Bar
  PROVE  /\ LastOf(Append(LastOf(ShownAll(bars), HistoryLimit), Shown(open)), HistoryLimit)
              = LastOf(ShownAll(Append(bars, open)), HistoryLimit)
<1>1. ShownAll(Append(bars, open)) = Append(ShownAll(bars), Shown(open))
  BY ShownMore
<1>2. ShownAll(bars) \in Seq(ShownBar) /\ Shown(open) \in ShownBar
  BY ShownFits
<1>3. QED BY <1>1, <1>2, LatestOfMore, BarsAssumption

\* The n latest of a sequence are a sequence of the same things.
LEMMA LatestFits ==
  ASSUME NEW T, NEW s \in Seq(T), NEW n \in Nat \ {0}
  PROVE  LastOf(s, n) \in Seq(T)
<1>1. CASE Len(s) > n
  <2>1. \A i \in Len(s) - n + 1 .. Len(s) : s[i] \in T
    BY <1>1
  <2>2. SubSeq(s, Len(s) - n + 1, Len(s)) \in Seq(T)
    BY <2>1, SubSeqProperties
  <2>3. QED BY <1>1, <2>2 DEF LastOf
<1>2. CASE ~(Len(s) > n)
  BY <1>2 DEF LastOf
<1>3. QED BY <1>1, <1>2


\* Both histories start empty.
LEMMA BarsStart == BarsInit => BarsInv
<1> SUFFICES ASSUME BarsInit PROVE BarsInv
  OBVIOUS
<1>1. /\ newest = 0 /\ ~eof /\ ~late
      /\ live = [open |-> NoBar, bars |-> <<>>] /\ resampled = [open |-> NoBar, bars |-> <<>>]
  BY DEF BarsInit
<1>2. NoBar \in Bar /\ <<>> \in Seq(ShownBar) /\ <<>> \in Seq(Bar)
  BY DEF NoBar, Bar
<1>3. ShownAll(<<>>) = <<>>
  BY DEF ShownAll
<1>4. LastOf(<<>>, HistoryLimit) = <<>>
  BY BarsAssumption DEF LastOf
<1>5. BothAlike
  BY <1>1, <1>3, <1>4 DEF BothAlike
<1>6. live \in [open : Bar, bars : Seq(ShownBar)] /\ resampled \in [open : Bar, bars : Seq(Bar)]
  BY <1>1, <1>2
<1>7. newest \in Nat
  BY <1>1
<1>8. QED BY <1>1, <1>5, <1>6, <1>7 DEF BarsInv

\* A tick that does not fall behind the open bar opens the first bar, is folded in, or
\* completes the bar, for both alike.
LEMMA TickInv == ASSUME BarsInv, Tick PROVE BarsInv'
<1>0. /\ live \in [open : Bar, bars : Seq(ShownBar)] /\ resampled \in [open : Bar, bars : Seq(Bar)]
      /\ newest \in Nat /\ ~eof /\ ~eof'
      /\ ~late => BothAlike
  BY DEF BarsInv, Tick
<1>1. PICK time \in 0 .. LastTick, price \in TickPrices, volume \in TickVolumes :
        /\ live' = ProcessTickBarMode(live, [time |-> time, price |-> price, volume |-> volume])
        /\ resampled' = ReadTick(resampled, [time |-> time, price |-> price, volume |-> volume])
        /\ newest' = IF time > newest THEN time ELSE newest
        /\ late' = (late \/ BucketStart(time) < BucketStart(newest))
  BY DEF Tick
<1> DEFINE tick == [time |-> time, price |-> price, volume |-> volume]
<1>2. time \in Nat /\ newest' \in Nat
  BY <1>0, <1>1, BarsAssumption
<1>3. \A bar \in Bar : /\ NewBar(tick) \in Bar /\ NewBar(tick) # NoBar
                       /\ NewBar(tick).start = BucketStart(time)
                       /\ FoldIn(bar, tick) \in Bar /\ FoldIn(bar, tick).start = bar.start
                       /\ tick.time = time
  BY <1>1, <1>2, TickFits
<1>4. live' = ProcessTickBarMode(live, tick) /\ resampled' = ReadTick(resampled, tick)
  BY <1>1
<1> HIDE DEF tick
<1>5. live.open \in Bar /\ resampled.open \in Bar
      /\ live.bars \in Seq(ShownBar) /\ resampled.bars \in Seq(Bar)
  BY <1>0
<1>6. Append(resampled.bars, resampled.open) \in Seq(Bar)
  BY <1>5
<1>7. LastOf(Append(live.bars, Shown(live.open)), HistoryLimit) \in Seq(ShownBar)
  BY <1>5, ShownFits, LatestFits, AppendProperties, BarsAssumption
<1>8. live' \in [open : Bar, bars : Seq(ShownBar)]
  BY <1>0, <1>3, <1>4, <1>5, <1>7 DEF ProcessTickBarMode
<1>9. resampled' \in [open : Bar, bars : Seq(Bar)]
  BY <1>0, <1>3, <1>4, <1>5, <1>6 DEF ReadTick
<1>10. ASSUME ~late' PROVE BothAlike'
  <2>1. /\ BothAlike /\ ~(BucketStart(time) < BucketStart(newest))
        /\ BucketStart(time) \in Nat /\ BucketStart(newest) \in Nat
        /\ time <= newest => BucketStart(time) <= BucketStart(newest)
        /\ newest <= time => BucketStart(newest) <= BucketStart(time)
    BY <1>0, <1>1, <1>2, <1>10, BucketOrder
  <2>2. BucketStart(newest') = BucketStart(time)
    BY <1>0, <1>1, <1>2, <2>1
  <2>3. CASE live.open = NoBar
    <3>1. live' = [live EXCEPT !.open = NewBar(tick)]
          /\ resampled' = [resampled EXCEPT !.open = NewBar(tick)]
      BY <1>4, <2>1, <2>3 DEF ProcessTickBarMode, ReadTick, BothAlike
    <3>2. /\ live'.open = NewBar(tick) /\ live'.bars = live.bars
          /\ resampled'.open = NewBar(tick) /\ resampled'.bars = resampled.bars
      BY <1>0, <3>1
    <3>3. QED BY <1>3, <1>5, <2>1, <2>2, <3>2 DEF BothAlike
  <2>4. CASE live.open # NoBar /\ BucketStart(time) = live.open.start
    <3>1. live' = [live EXCEPT !.open = FoldIn(@, tick)]
          /\ resampled' = [resampled EXCEPT !.open = FoldIn(@, tick)]
      BY <1>3, <1>4, <1>5, <2>1, <2>4 DEF ProcessTickBarMode, ReadTick, BothAlike
    <3>2. /\ live'.open = FoldIn(live.open, tick) /\ live'.bars = live.bars
          /\ resampled'.open = FoldIn(live.open, tick) /\ resampled'.bars = resampled.bars
      BY <1>0, <2>1, <3>1 DEF BothAlike
    <3>3. FoldIn(live.open, tick).start = BucketStart(time) /\ BucketStart(time) # NoBar.start
      BY <1>3, <1>5, <2>1, <2>4 DEF NoBar
    <3>4. QED BY <2>1, <2>2, <3>2, <3>3 DEF BothAlike
  <2>5. CASE live.open # NoBar /\ BucketStart(time) # live.open.start
    <3>1. BucketStart(time) > live.open.start
      BY <2>1, <2>5 DEF BothAlike
    <3>2. /\ live' = [open |-> NewBar(tick),
                      bars |-> LastOf(Append(live.bars, Shown(live.open)), HistoryLimit)]
          /\ resampled' = [open |-> NewBar(tick), bars |-> Append(resampled.bars, resampled.open)]
      BY <1>3, <1>4, <1>5, <2>1, <2>5, <3>1 DEF ProcessTickBarMode, ReadTick, BothAlike
    <3>3. /\ live'.open = NewBar(tick) /\ resampled'.open = NewBar(tick)
          /\ live'.bars = LastOf(Append(live.bars, Shown(live.open)), HistoryLimit)
          /\ resampled'.bars = Append(resampled.bars, resampled.open)
      BY <3>2
    <3>4. live'.bars = LastOf(ShownAll(resampled'.bars), HistoryLimit)
      BY <1>5, <2>1, <3>3, HistoryMoves DEF BothAlike
    <3>5. QED BY <1>3, <1>5, <2>2, <3>3, <3>4 DEF BothAlike
  <2>6. QED BY <2>3, <2>4, <2>5
<1>11. QED BY <1>0, <1>2, <1>8, <1>9, <1>10 DEF BarsInv

\* Two that are alike agree, with the bar that is open taken as complete.
LEMMA AlikeAgree ==
  ASSUME BarsInv, ~late, ~eof
  PROVE  BarsAgree
<1>1. BothAlike /\ resampled.open \in Bar /\ resampled.bars \in Seq(Bar)
  BY DEF BarsInv
<1>2. CASE live.open = NoBar
  BY <1>1, <1>2 DEF BothAlike, BarsAgree
<1>3. CASE live.open # NoBar
  <2> DEFINE all == Append(resampled.bars, resampled.open)
  <2>0. all = Append(resampled.bars, resampled.open)
    OBVIOUS
  <2>1. /\ all # <<>> /\ Last(all) = live.open
        /\ ShownButLast(all) = ShownAll(resampled.bars)
    <3> HIDE DEF all
    <3>1. /\ all # <<>> /\ Last(all) = resampled.open
          /\ ShownButLast(all) = ShownAll(resampled.bars)
      BY <1>1, <2>0, AllAgree
    <3>2. QED BY <1>1, <3>1 DEF BothAlike
  <2>2. resampled.open # NoBar /\ live.bars = LastOf(ShownAll(resampled.bars), HistoryLimit)
    BY <1>1, <1>3 DEF BothAlike
  <2> HIDE DEF all
  <2>3. live.bars = LastOf(ShownButLast(all), HistoryLimit)
    BY <2>1, <2>2
  <2>4. QED BY <1>3, <2>1, <2>2, <2>3 DEF BarsAgree, ShownButLast, all
<1>4. QED BY <1>2, <1>3

\* The end of the input takes the open bar as complete.
LEMMA EndInv == ASSUME BarsInv, EndOfInput PROVE BarsInv'
<1>1. /\ ~eof /\ eof' /\ UNCHANGED <<ticks, newest, live, late>>
      /\ resampled' = IF resampled.open = NoBar THEN resampled
                      ELSE [open |-> NoBar, bars |-> Append(resampled.bars, resampled.open)]
  BY DEF EndOfInput
<1>2. NoBar \in Bar /\ resampled.open \in Bar /\ resampled.bars \in Seq(Bar)
  BY DEF BarsInv, NoBar, Bar
<1>3. Append(resampled.bars, resampled.open) \in Seq(Bar)
  BY <1>2
<1>4. resampled' \in [open : Bar, bars : Seq(Bar)]
  BY <1>1, <1>2, <1>3 DEF BarsInv
<1>5. ASSUME ~late' PROVE BarsAgree'
  <2>1. BarsAgree
    BY <1>1, <1>5, AlikeAgree
  <2>2. CASE resampled.open = NoBar
    BY <1>1, <2>1, <2>2 DEF BarsAgree
  <2>3. CASE resampled.open # NoBar
    <3>1. resampled'.open = NoBar /\ resampled'.bars = Append(resampled.bars, resampled.open)
      BY <1>1, <2>3
    <3>2. QED BY <1>1, <1>5, <2>1, <2>3, <3>1 DEF BarsAgree
  <2>4. QED BY <2>2, <2>3
<1>6. QED BY <1>1, <1>4, <1>5 DEF BarsInv

\* Whatever the ticks, the bar period and the limit of the history: the live strategy is
\* shown the end of what the backtest replays, over ticks that do not fall behind a bar.
THEOREM BarsAlwaysAgree == BarsSpec => []BarsAgree
<1>1. BarsInv /\ [BarsNext]_barVars => BarsInv'
  <2> SUFFICES ASSUME BarsInv, [BarsNext]_barVars PROVE BarsInv'
    OBVIOUS
  <2>1. CASE UNCHANGED barVars
    BY <2>1 DEF barVars, BarsInv, BothAlike, BarsAgree
  <2>2. QED BY <2>1, TickInv, EndInv DEF BarsNext
<1>2. BarsInv => BarsAgree
  <2> SUFFICES ASSUME BarsInv PROVE BarsAgree
    OBVIOUS
  <2>1. CASE late
    BY <2>1 DEF BarsAgree
  <2>2. CASE ~late /\ eof
    BY <2>2 DEF BarsInv
  <2>3. QED BY <2>1, <2>2, AlikeAgree
<1>3. QED BY <1>1, <1>2, BarsStart, PTL DEF BarsSpec

-----------------------------------------------------------------------------
(* Backtest                                                                *)

USE BacktestAssumption

Reasons == {"none", "tp", "sl", "signal", "end"}
PricedBar == [time : Nat, open : Nat, high : Nat, low : Nat, close : Nat]
Position == [entryTime : Nat, entryPrice : Nat, signalTime : Nat]
Trade == [signalTime : Nat, entryTime : Nat, exitTime : Nat, exitSeen : Nat, reason : Reasons]
Portfolio == [cash : Int, position : Position, netPnl : Int, lastTrade : Trade]

\* CashAccounted of a record of the portfolio's state.
Accounted(p) ==
  /\ p.position = Flat => p.cash = InitialBalance + p.netPnl
  /\ p.position # Flat =>
       p.cash = InitialBalance + p.netPnl - (p.position.entryPrice + Fee + Slip)

\* FillsUnseen of such a record.
Unseen(p) ==
  /\ p.position # Flat => p.position.signalTime < p.position.entryTime
  /\ p.lastTrade.reason # "none" => p.lastTrade.signalTime < p.lastTrade.entryTime
  /\ p.lastTrade.reason = "signal" => p.lastTrade.exitSeen < p.lastTrade.exitTime

Sound(p) == p \in Portfolio /\ Accounted(p) /\ Unseen(p)

\* The strategy lags behind the bars: the newest one it will be shown next is older than
\* the newest one that was read.
Lagging ==
  /\ barCount \in Nat /\ seen \in Nat /\ nxt \in PricedBar /\ curr \in PricedBar
  /\ nxt.time = barCount /\ curr.time <= barCount
  /\ barCount > 0 => curr.time < barCount

BacktestInv == Lagging /\ Sound(Now) /\ (finished => position = Flat)

\* Balances, fees and thresholds are numbers.
LEMMA Rates ==
  InitialBalance \in Int /\ Fee \in Nat /\ Slip \in Nat /\ TakeProfit \in Nat /\ StopLoss \in Nat
OBVIOUS

-----------------------------------------------------------------------------
(* Backtest: the portfolio                                                 *)

\* A fill that opens the position costs what the account of the position says.
LEMMA OpenSound ==
  ASSUME NEW p, Sound(p), p.position = Flat, seen' \in Nat,
         NEW time \in Nat, NEW price \in Nat \ {0}, seen' < time
  PROVE  Sound(OpenLong(p, time, price))
<1> DEFINE at == [entryTime |-> time, entryPrice |-> price, signalTime |-> seen']
           q == OpenLong(p, time, price)
<1>1. q = [p EXCEPT !.cash = @ - (price + Fee + Slip), !.position = at]
  BY DEF OpenLong
<1>2. p \in Portfolio /\ at \in Position
  BY DEF Sound, Position
<1>3. at # Flat
  BY DEF Flat
<1> HIDE DEF at, q
<1>4. /\ q.cash = p.cash - (price + Fee + Slip) /\ q.position = at
      /\ q.netPnl = p.netPnl /\ q.lastTrade = p.lastTrade
  BY <1>1, <1>2 DEF Portfolio
<1>5. q \in Portfolio
  <2>1. p.cash - (price + Fee + Slip) \in Int
    BY <1>2, Rates DEF Portfolio
  <2>2. QED BY <1>1, <1>2, <2>1 DEF Portfolio
<1>6. Accounted(q)
  BY <1>2, <1>3, <1>4, Rates DEF Sound, Accounted, Portfolio, at
<1>7. Unseen(q)
  BY <1>4 DEF Sound, Unseen, at
<1>8. QED BY <1>5, <1>6, <1>7 DEF Sound, q

\* A fill that closes it pays the cash that its trade states.
LEMMA CloseSound ==
  ASSUME NEW p, Sound(p), p.position # Flat, seen' \in Nat,
         NEW time \in Nat, NEW price \in Int, NEW slip \in Nat, NEW reason \in Reasons \ {"none"},
         reason = "signal" => seen' < time
  PROVE  /\ Sound(CloseLong(p, time, price, slip, reason))
         /\ CloseLong(p, time, price, slip, reason).position = Flat
<1> DEFINE trade == [signalTime |-> p.position.signalTime, entryTime |-> p.position.entryTime,
                     exitTime |-> time, exitSeen |-> seen', reason |-> reason]
           q == CloseLong(p, time, price, slip, reason)
<1>1. /\ q.cash = p.cash + price - Fee - slip
      /\ q.netPnl = p.netPnl + (price - p.position.entryPrice) - (Fee + Fee) - (Slip + slip)
      /\ q.position = Flat /\ q.lastTrade = trade
      /\ q = [cash |-> q.cash, netPnl |-> q.netPnl, position |-> q.position,
              lastTrade |-> q.lastTrade]
  BY DEF CloseLong
<1>2. p \in Portfolio /\ p.position \in Position
  BY DEF Sound, Portfolio
<1>3. trade \in Trade
  BY <1>2 DEF Trade, Position
<1>4. Flat \in Position
  BY DEF Flat, Position
<1> HIDE DEF q
<1>5. q.cash \in Int /\ q.netPnl \in Int
  BY <1>1, <1>2, Rates DEF Portfolio, Position
<1>6. q \in Portfolio
  BY <1>1, <1>3, <1>4, <1>5 DEF Portfolio
<1>7. Accounted(q)
  <2>1. p.cash = InitialBalance + p.netPnl - (p.position.entryPrice + Fee + Slip)
    BY DEF Sound, Accounted
  <2>2. q.cash = InitialBalance + q.netPnl
    BY <1>1, <1>2, <2>1, Rates DEF Portfolio, Position
  <2>3. QED BY <1>1, <2>2 DEF Accounted
<1>8. Unseen(q)
  BY <1>1 DEF Sound, Unseen
<1>9. QED BY <1>1, <1>6, <1>7, <1>8 DEF Sound, q

\* Take-profit and stop-loss look at no signal.
LEMMA ExitSound ==
  ASSUME NEW p, Sound(p), seen' \in Nat, NEW bar \in PricedBar
  PROVE  Sound(HandleExit(p, bar))
<1> DEFINE tp == p.position.entryPrice + TakeProfit
           sl == p.position.entryPrice - StopLoss
<1>1. bar.time \in Nat /\ tp \in Int /\ sl \in Int
  BY Rates DEF PricedBar, Sound, Portfolio, Position
<1>2. CASE p.position = Flat
  BY <1>2 DEF HandleExit
<1>3. CASE p.position # Flat
  <2>1. Sound(CloseLong(p, bar.time, tp, Slip, "tp"))
    BY <1>1, <1>3, CloseSound, Rates DEF Reasons
  <2>2. Sound(CloseLong(p, bar.time, sl, Slip, "sl"))
    BY <1>1, <1>3, CloseSound, Rates DEF Reasons
  <2>3. \/ HandleExit(p, bar) = CloseLong(p, bar.time, tp, Slip, "tp")
        \/ HandleExit(p, bar) = CloseLong(p, bar.time, sl, Slip, "sl")
        \/ HandleExit(p, bar) = p
    BY <1>3, Zenon DEF HandleExit
  <2>4. QED BY <2>1, <2>2, <2>3
<1>4. QED BY <1>2, <1>3

\* An order on the next bar, which the strategy has not seen.
LEMMA FillSound ==
  ASSUME NEW p, Sound(p), seen' \in Nat, NEW processed, NEW bar \in PricedBar, seen' < bar.time,
         NEW action \in {"BUY", "SELL"}, bar.open # 0,
         IF action = "BUY" THEN CanBuy(p, bar) ELSE CanSell(p)
  PROVE  Sound(Fill(p, action, processed, bar))
<1>1. bar.time \in Nat /\ bar.open \in Nat
  BY DEF PricedBar
<1>2. CASE action = "BUY"
  <2>1. bar.open + Slip \in Nat \ {0} /\ p.position = Flat
    BY <1>1, <1>2, Rates DEF CanBuy
  <2>2. QED BY <1>1, <1>2, <2>1, OpenSound DEF Fill
<1>3. CASE action # "BUY"
  <2>1. bar.open - Slip \in Int /\ p.position # Flat
    BY <1>1, <1>3, Rates DEF CanSell
  <2>2. Sound(CloseLong(p, bar.time, bar.open - Slip, Slip, "signal"))
    BY <1>1, <2>1, CloseSound, Rates DEF Reasons
  <2>3. QED BY <1>3, <2>2 DEF Fill
<1>4. QED BY <1>2, <1>3

-----------------------------------------------------------------------------
(* Backtest: the loop                                                      *)

LEMMA InitBacktestInv ==
  ASSUME BacktestInit
  PROVE  BacktestInv
<1>1. /\ barCount = 0 /\ curr = ZeroBar /\ nxt = ZeroBar /\ finished = FALSE
      /\ Now = [cash |-> InitialBalance, position |-> Flat, netPnl |-> 0, lastTrade |-> NoTrade]
  BY DEF BacktestInit, Now
<1>2. ZeroBar \in PricedBar /\ ZeroBar.time = 0
  BY DEF ZeroBar, PricedBar
<1>3. Now \in Portfolio
  <2>1. Flat \in Position /\ NoTrade \in Trade
    BY DEF Flat, Position, NoTrade, Trade, Reasons
  <2>2. QED BY <1>1, <2>1, Rates DEF Portfolio
<1>4. Accounted(Now)
  BY <1>1, Rates DEF Accounted
<1>5. Unseen(Now)
  BY <1>1 DEF Unseen, NoTrade
<1>6. seen \in Nat
  BY DEF BacktestInit
<1>7. QED BY <1>1, <1>2, <1>3, <1>4, <1>5, <1>6 DEF BacktestInv, Lagging, Sound

\* What Become writes is what Now reads.
LEMMA NowIs ==
  ASSUME NEW p, p \in Portfolio, Become(p)
  PROVE  Now' = p
BY DEF Become, Now, Portfolio

\* Every bar of the data has its time and a price.
LEMMA BarsHavePrices ==
  ASSUME NEW t \in Nat, NEW bar \in BarsAt(t)
  PROVE  bar \in PricedBar /\ bar.time = t /\ bar.open # 0
BY DEF BarsAt, PricedBar

LEMMA NextBarStep ==
  ASSUME BacktestInv, NextBar
  PROVE  BacktestInv'
<1>1. /\ barCount \in Nat /\ barCount' = barCount + 1 /\ barCount > 0
      /\ seen' = curr.time /\ finished' = finished /\ ~finished
  BY DEF NextBar, BacktestInv, Lagging
<1>2. /\ nxt \in PricedBar /\ curr \in PricedBar /\ nxt.time = barCount /\ curr.time < barCount
      /\ Sound(Now)
  BY <1>1 DEF BacktestInv, Lagging
<1>3. curr.time \in Nat
  BY <1>2 DEF PricedBar
<1> DEFINE p == HandleExit(Now, curr)
<1>4. PICK bar \in BarsAt(barCount') :
        /\ curr' = nxt /\ nxt' = bar
        /\ \/ Become(p)
           \/ \E action \in {"BUY", "SELL"} :
                /\ IF action = "BUY" THEN CanBuy(p, bar) ELSE CanSell(p)
                /\ Become(Fill(p, action, curr, bar))
  BY DEF NextBar
<1>5. barCount' \in Nat /\ bar \in PricedBar /\ bar.time = barCount' /\ bar.open # 0
  BY <1>1, BarsHavePrices
<1>6. Sound(p)
  BY <1>1, <1>2, <1>3, ExitSound
<1>7. Sound(Now')
  <2>1. CASE Become(p)
    BY <1>6, <2>1, NowIs DEF Sound
  <2>2. ASSUME NEW action \in {"BUY", "SELL"},
               IF action = "BUY" THEN CanBuy(p, bar) ELSE CanSell(p),
               Become(Fill(p, action, curr, bar))
        PROVE  Sound(Now')
    <3> HIDE DEF p
    <3>1. Sound(Fill(p, action, curr, bar))
      BY <1>1, <1>2, <1>3, <1>5, <1>6, <2>2, FillSound
    <3>2. QED BY <2>2, <3>1, NowIs DEF Sound
  <2>3. QED BY <1>4, <2>1, <2>2
<1>8. Lagging'
  BY <1>1, <1>2, <1>3, <1>4, <1>5 DEF Lagging
<1>9. QED BY <1>1, <1>7, <1>8 DEF BacktestInv, Sound, Accounted, Unseen, Now, Portfolio

LEMMA DrainStep ==
  ASSUME BacktestInv, Drain
  PROVE  BacktestInv'
<1> DEFINE p == HandleExit(Now, nxt)
           q == IF p.position = Flat THEN p ELSE CloseLong(p, nxt.time, nxt.close, 0, "end")
<1>1. Sound(Now) /\ seen' \in Nat /\ nxt \in PricedBar
  BY DEF BacktestInv, Lagging, Drain
<1>2. Sound(p)
  BY <1>1, ExitSound
<1>3. Sound(q) /\ q.position = Flat
  <2>1. CASE p.position = Flat
    BY <1>2, <2>1
  <2>2. CASE p.position # Flat
    <3>1. nxt.time \in Nat /\ nxt.close \in Int /\ "end" \in Reasons \ {"none"} /\ "end" # "signal"
      BY <1>1 DEF PricedBar, Reasons
    <3> HIDE DEF p
    <3>2. /\ Sound(CloseLong(p, nxt.time, nxt.close, 0, "end"))
          /\ CloseLong(p, nxt.time, nxt.close, 0, "end").position = Flat
      BY <1>1, <1>2, <2>2, <3>1, CloseSound
    <3>3. QED BY <2>2, <3>2
  <2>3. QED BY <2>1, <2>2
<1>4. Become(q)
  BY DEF Drain
<1> HIDE DEF q
<1>5. Now' = q
  BY <1>3, <1>4, NowIs DEF Sound
<1>6. position' = Flat
  BY <1>3, <1>4 DEF Become
<1>7. Lagging'
  BY DEF Drain, BacktestInv, Lagging
<1>8. QED BY <1>3, <1>5, <1>6, <1>7 DEF BacktestInv

-----------------------------------------------------------------------------
(* Backtest: the theorems                                                  *)

\* The invariant that the theorems on the backtest rest on.
THEOREM AlwaysBacktestInv == BacktestSpec => []BacktestInv
<1>1. BacktestInv /\ [BacktestNext]_backtestVars => BacktestInv'
  <2> SUFFICES ASSUME BacktestInv, [BacktestNext]_backtestVars
               PROVE  BacktestInv'
    OBVIOUS
  <2>1. CASE FirstBar
    <3>1. barCount = 0 /\ barCount' = 1 /\ nxt' \in BarsAt(1) /\ nxt' \in PricedBar /\ nxt'.time = 1
      BY <2>1, BarsHavePrices DEF FirstBar
    <3>2. /\ UNCHANGED <<curr, seen, finished, position>> /\ Now' = Now
      BY <2>1 DEF FirstBar, portfolio, Now
    <3>3. curr.time = 0 /\ Sound(Now) /\ (finished => position = Flat) /\ curr \in PricedBar /\ seen \in Nat
      BY <3>1 DEF BacktestInv, Lagging, PricedBar
    <3>4. Lagging'
      BY <3>1, <3>2, <3>3 DEF Lagging
    <3>5. Sound(Now)'
      BY <3>2, <3>3 DEF Sound, Accounted, Unseen, Now, Portfolio
    <3>6. QED BY <3>2, <3>3, <3>4, <3>5 DEF BacktestInv
  <2>2. CASE NextBar
    BY <2>2, NextBarStep
  <2>3. CASE Drain
    BY <2>3, DrainStep
  <2>4. CASE UNCHANGED backtestVars
    BY <2>4 DEF backtestVars, portfolio, BacktestInv, Lagging, Sound, Accounted, Unseen, Now
  <2>5. QED BY <2>1, <2>2, <2>3, <2>4 DEF BacktestNext
<1>2. QED BY <1>1, InitBacktestInv, PTL DEF BacktestSpec

\* No fill uses a price that its signal could know (Simulator.HandleSignal, Engine.Run).
THEOREM NoLookAhead == BacktestSpec => []FillsUnseen
<1>1. BacktestInv => FillsUnseen
  BY DEF BacktestInv, Sound, Unseen, Now, FillsUnseen
<1>2. QED BY <1>1, AlwaysBacktestInv, PTL

\* The equity curve and the trades tell the same story (Portfolio.OpenLong, CloseLong).
THEOREM CashAlwaysAccounted == BacktestSpec => []CashAccounted
<1>1. ASSUME BacktestInv PROVE CashAccounted
  <2>1. CASE position = Flat
    BY <1>1, <2>1, Rates DEF BacktestInv, Sound, Accounted, Now, CashAccounted, Portfolio
  <2>2. CASE position # Flat
    BY <1>1, <2>2 DEF BacktestInv, Sound, Accounted, Now, CashAccounted
  <2>3. QED BY <2>1, <2>2
<1>2. QED BY <1>1, AlwaysBacktestInv, PTL

-----------------------------------------------------------------------------
(* WalkForward                                                             *)

HIDE BacktestAssumption
USE WalkAssumption

\* The windows of a walk-forward run have a length.
LEMMA Lengths ==
  /\ Slots \in Nat /\ Slots > 0 /\ TrainDays \in Nat /\ TrainDays > 0
  /\ TestDays \in Nat /\ TestDays > 0 /\ StepDays \in Nat /\ StepDays > 0
  /\ LastBar \in Nat
OBVIOUS

\* Midnights are in the order of their days.
LEMMA MidnightsInOrder ==
  ASSUME NEW a \in Nat, NEW b \in Nat, a <= b
  PROVE  a * Slots <= b * Slots
<1>1. PICK k \in Nat : b = a + k
  <2>1. b - a \in Nat /\ b = a + (b - a)
    OBVIOUS
  <2>2. QED BY <2>1
<1>2. k * Slots \in Nat
  BY Lengths
<1>3. b * Slots = a * Slots + k * Slots
  BY <1>1, Lengths
<1>4. a * Slots \in Nat
  BY Lengths
<1>5. QED BY <1>2, <1>3, <1>4

\* A day has its bars between two midnights.
LEMMA DayOfBar ==
  ASSUME NEW bar \in Nat
  PROVE  /\ DayOf(bar) \in Nat
         /\ DayOf(bar) * Slots <= bar
         /\ bar < (DayOf(bar) + 1) * Slots
BY Lengths, Z3 DEF DayOf

\* An earlier bar is not of a later day.
LEMMA DaysInOrder ==
  ASSUME NEW a \in Nat, NEW b \in Nat, a <= b
  PROVE  DayOf(a) <= DayOf(b)
<1>1. SUFFICES ASSUME DayOf(b) + 1 <= DayOf(a) PROVE FALSE
  BY DayOfBar
<1>2. (DayOf(b) + 1) * Slots <= DayOf(a) * Slots
  BY <1>1, DayOfBar, MidnightsInOrder
<1>3. b < (DayOf(b) + 1) * Slots /\ DayOf(a) * Slots <= a
  BY DayOfBar
<1>4. (DayOf(b) + 1) * Slots \in Nat /\ DayOf(a) * Slots \in Nat
  BY DayOfBar, Lengths
<1>5. QED BY <1>2, <1>3, <1>4

-----------------------------------------------------------------------------
(* WalkForward: runs                                                       *)

\* A run is a set of bar times.
LEMMA RunHasBars ==
  ASSUME NEW from, NEW to
  PROVE  Run(from, to) \subseteq Nat
BY Lengths DEF Run

\* A run that ends on the day another begins shares with it what its datasource says.
LEMMA RunsApart ==
  ASSUME NEW from \in Nat, NEW to \in Nat, NEW from2 \in Nat, NEW to2 \in Nat, to <= from2,
         NEW bar \in Run(from, to), NEW bar2 \in Run(from2, to2)
  PROVE  bar < bar2 \/ (bar = bar2 /\ bar \in SharedBars(from2))
<1>1. bar \in Nat /\ bar2 \in Nat /\ Unset \notin {from, to, from2, to2}
  BY RunHasBars DEF Unset
<1>2. CASE dataSource = "csv"
  <2>1. bar <= to * Slots /\ from2 * Slots <= bar2
    BY <1>1, <1>2 DEF Run, CsvYields
  <2>2. to * Slots <= from2 * Slots
    BY MidnightsInOrder
  <2>3. to * Slots \in Nat /\ from2 * Slots \in Nat
    BY Lengths
  <2>4. bar < bar2 \/ (bar = bar2 /\ bar = from2 * Slots)
    BY <1>1, <2>1, <2>2, <2>3
  <2>5. QED BY <1>2, <2>4 DEF SharedBars
<1>3. CASE dataSource # "csv"
  <2>1. DayOf(bar) <= to /\ DayOf(bar2) > from2
    BY <1>1, <1>3 DEF Run, SqliteYields
  <2>2. DayOf(bar) \in Nat /\ DayOf(bar2) \in Nat
    BY <1>1, DayOfBar
  <2>3. ~(bar2 <= bar)
    BY <1>1, <2>1, <2>2, DaysInOrder
  <2>4. QED BY <1>1, <2>3
<1>4. QED BY <1>2, <1>3

-----------------------------------------------------------------------------
(* WalkForward: windows                                                    *)

\* A window was laid at or before the cursor's last place.
WindowLaid(w) ==
  /\ w.testFrom \in Nat
  /\ w.testFrom + StepDays <= cursor + TrainDays
  /\ \E first \in Nat : w.testFrom = first + TrainDays /\ w.train = Run(first, w.testFrom)
  /\ w.test = Run(w.testFrom, w.testFrom + TestDays)

WindowsInv ==
  /\ walkPc = "resolve" => windows = {}
  /\ walkPc # "resolve" /\ windows # {} => cursor \in Nat
  /\ walkPc = "slice" => cursor \in Nat
  /\ \A w \in windows : WindowLaid(w)
  /\ \A v, w \in windows : w.testFrom < v.testFrom => w.testFrom + StepDays <= v.testFrom

\* The first day of the range is a day.
LEMMA RangeBegins ==
  ASSUME WindowsInv, ResolveRange
  PROVE  WindowsInv'
<1>1. windows = {} /\ windows' = {} /\ walkPc' # "resolve"
  BY DEF ResolveRange, WindowsInv, StartAt
<1>2. ASSUME walkPc' = "slice"
      PROVE  cursor' \in Nat
  <2>1. PICK flag \in [from : RangeDays \cup {Unset}, to : RangeDays \cup {Unset}],
             conf \in [from : RangeDays \cup {Unset}, to : RangeDays \cup {Unset}] :
          LET from == Given(flag.from, conf.from)
              to == Given(flag.to, conf.to)
              probe == Run(conf.from, conf.to)
              probedFrom == IF from = Unset THEN DayOf(Earliest(probe)) ELSE from
              probedTo == IF to = Unset THEN DayOf(Latest(probe)) ELSE to
          IN IF Unset \notin {from, to} THEN StartAt(from, to)
             ELSE IF probe # {} /\ probedTo > probedFrom THEN StartAt(probedFrom, probedTo)
             ELSE walkPc' = "failed" /\ UNCHANGED <<wfFrom, wfTo, cursor>>
    BY DEF ResolveRange
  <2> DEFINE from == Given(flag.from, conf.from)
             probe == Run(conf.from, conf.to)
  <2>2. \/ cursor' = from /\ from # Unset
        \/ cursor' = DayOf(Earliest(probe)) /\ probe # {}
    BY <1>2, <2>1 DEF StartAt
  <2>3. from \in RangeDays \cup {Unset}
    BY DEF Given
  <2>4. CASE probe # {}
    <3>1. probe \subseteq Nat
      BY RunHasBars
    <3>2. \E b \in probe : \A c \in probe : b <= c
      <4> HIDE DEF probe
      <4>1. PICK b \in probe : \A c \in probe : <<c, b>> \notin OpToRel(<, Nat)
        BY <2>4, <3>1, NatLessThanWellFounded, WFMin
      <4>2. \A c \in probe : b <= c
        <5> SUFFICES ASSUME NEW c \in probe, ~(b <= c)
                     PROVE  <<c, b>> \in {ss \in Nat \X Nat : ss[1] < ss[2]}
          BY <4>1 DEF OpToRel
        <5>1. b \in Nat /\ c \in Nat
          BY <3>1
        <5>2. QED BY <5>1
      <4>3. QED BY <4>2
    <3> HIDE DEF probe
    <3>3. Earliest(probe) \in Nat
      BY <3>1, <3>2 DEF Earliest
    <3>4. QED BY <2>2, <2>3, <3>3, DayOfBar
  <2>5. QED BY <2>2, <2>3, <2>4
<1>3. QED BY <1>1, <1>2 DEF WindowsInv

\* The next window begins StepDays after the last one.
LEMMA WindowStep ==
  ASSUME WindowsInv, NextWindow
  PROVE  WindowsInv'
<1> PICK new : new = [testFrom |-> TrainTo,
                      train |-> Run(cursor, TrainTo), test |-> Run(TrainTo, TestTo)]
  OBVIOUS
<1>1. /\ walkPc = "slice" /\ walkPc' = "slice" /\ cursor' = cursor + StepDays /\ cursor \in Nat
      /\ dataSource' = dataSource /\ windows' \subseteq windows \cup {new}
  BY DEF NextWindow, WindowsInv
<1>2. TrainTo = cursor + TrainDays /\ TrainTo \in Nat /\ TestTo = TrainTo + TestDays
  BY <1>1, Lengths DEF TrainTo, TestTo
<1>3. \A from, to : Run(from, to)' = Run(from, to)
  BY <1>1 DEF Run
<1>4. ASSUME NEW w \in windows
      PROVE  WindowLaid(w)' /\ w.testFrom + StepDays <= TrainTo /\ w.testFrom \in Nat
  <2>1. WindowLaid(w)
    BY DEF WindowsInv
  <2>2. QED BY <1>1, <1>2, <1>3, <2>1, Lengths DEF WindowLaid
<1>5. /\ new.testFrom = TrainTo /\ new.train = Run(cursor, TrainTo)
      /\ new.test = Run(TrainTo, TrainTo + TestDays)
  BY <1>2
<1>6. WindowLaid(new)'
  <2>1. new.testFrom \in Nat /\ new.testFrom + StepDays <= cursor' + TrainDays
    BY <1>1, <1>2, <1>5, Lengths
  <2>2. PICK first \in Nat : first = cursor
    BY <1>1
  <2>3. new.testFrom = first + TrainDays /\ new.train = Run(first, new.testFrom)'
    BY <1>2, <1>3, <1>5, <2>2
  <2>4. new.test = Run(new.testFrom, new.testFrom + TestDays)'
    BY <1>3, <1>5
  <2>5. QED BY <1>1, <2>1, <2>3, <2>4 DEF WindowLaid
<1>7. \A w \in windows' : WindowLaid(w)'
  BY <1>1, <1>4, <1>6
<1>8. ASSUME NEW v \in windows', NEW w \in windows', w.testFrom < v.testFrom
      PROVE  w.testFrom + StepDays <= v.testFrom
  <2>1. CASE v \in windows /\ w \in windows
    BY <1>8, <2>1 DEF WindowsInv
  <2>2. CASE v = new /\ w \in windows
    BY <1>4, <1>5, <2>2
  <2>3. CASE w = new
    <3>1. v.testFrom <= TrainTo
      BY <1>1, <1>2, <1>4, <1>5, Lengths
    <3>2. v.testFrom \in Nat
      BY <1>1, <1>2, <1>4, <1>5
    <3>3. QED BY <1>2, <1>5, <1>8, <2>3, <3>1, <3>2
  <2>4. QED BY <1>1, <2>1, <2>2, <2>3
<1>9. cursor' \in Nat
  BY <1>1, Lengths
<1>10. QED BY <1>1, <1>7, <1>8, <1>9 DEF WindowsInv

-----------------------------------------------------------------------------
(* WalkForward: the theorem                                                *)

\* The windows that the invariant describes test out of sample.
LEMMA WindowsOutOfSample ==
  ASSUME WindowsInv
  PROVE  OutOfSample
<1>1. ASSUME NEW w \in windows, NEW trained \in w.train, NEW tested \in w.test
      PROVE  trained < tested \/ (trained = tested /\ tested \in SharedBars(w.testFrom))
  <2>1. PICK first \in Nat : w.testFrom = first + TrainDays /\ w.train = Run(first, w.testFrom)
    BY DEF WindowsInv, WindowLaid
  <2>2. w.testFrom \in Nat /\ w.test = Run(w.testFrom, w.testFrom + TestDays)
    BY DEF WindowsInv, WindowLaid
  <2>3. w.testFrom + TestDays \in Nat /\ w.testFrom <= w.testFrom
    BY <2>2, Lengths
  <2>4. QED BY <1>1, <2>1, <2>2, <2>3, RunsApart
<1>2. ASSUME NEW v \in windows, NEW w \in windows, StepDays >= TestDays,
             w.testFrom < v.testFrom, NEW bar \in w.test \cap v.test
      PROVE  bar \in SharedBars(v.testFrom)
  <2>1. /\ w.testFrom \in Nat /\ w.test = Run(w.testFrom, w.testFrom + TestDays)
        /\ v.testFrom \in Nat /\ v.test = Run(v.testFrom, v.testFrom + TestDays)
    BY DEF WindowsInv, WindowLaid
  <2>2. w.testFrom + TestDays <= v.testFrom
    BY <1>2, <2>1, Lengths DEF WindowsInv
  <2>3. w.testFrom + TestDays \in Nat /\ v.testFrom + TestDays \in Nat
    BY <2>1, Lengths
  <2>4. bar \in Nat
    BY <2>1, RunHasBars
  <2>5. bar < bar \/ bar \in SharedBars(v.testFrom)
    BY <2>1, <2>2, <2>3, RunsApart
  <2>6. QED BY <2>4, <2>5
<1>3. QED BY <1>1, <1>2 DEF OutOfSample

\* Tests are out of sample, from a CSV file and from SQLite (WalkForward).
THEOREM AlwaysOutOfSample == WalkSpec => []OutOfSample
<1>1. WalkInit => WindowsInv
  BY DEF WalkInit, WindowsInv
<1>2. WindowsInv /\ [WalkNext]_walkVars => WindowsInv'
  <2> SUFFICES ASSUME WindowsInv, [WalkNext]_walkVars
               PROVE  WindowsInv'
    OBVIOUS
  <2>1. CASE ResolveRange
    BY <2>1, RangeBegins
  <2>2. CASE NextWindow
    BY <2>2, WindowStep
  <2>3. CASE EndWindows \/ UNCHANGED walkVars
    <3>1. /\ UNCHANGED <<dataSource, cursor, windows>>
          /\ walkPc' = walkPc \/ (walkPc = "slice" /\ walkPc' = "done")
      BY <2>3 DEF EndWindows, walkVars
    <3>2. \A w : WindowLaid(w)' <=> WindowLaid(w)
      BY <3>1 DEF WindowLaid, Run
    <3>3. QED BY <3>1, <3>2 DEF WindowsInv
  <2>4. QED BY <2>1, <2>2, <2>3 DEF WalkNext
<1>3. QED BY <1>1, <1>2, WindowsOutOfSample, PTL DEF WalkSpec
=============================================================================
