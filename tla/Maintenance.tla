-------------------------------- MODULE Maintenance --------------------------------
(***************************************************************************)
(* The daily clean-up: adapter/worker/maintenance.go and                   *)
(* infra/persistence/maintenance_repo.go.  Time passes in minutes of a day *)
(* that has MinutesPerDay of them; the window after midnight is as long as *)
(* the ticker's period.  The process may end and start at any time.        *)
(***************************************************************************)
EXTENDS Integers

CONSTANTS
  MinutesPerDay,
  Window,         \* the window after midnight and checkInterval: 10 minutes
  Delay,          \* the startup delay: 1 minute
  RetentionDays,
  LastDay         \* bound on the days looked at

ASSUME MaintenanceAssumption ==
  /\ Window \in Nat /\ Delay \in 1 .. Window - 1
  /\ MinutesPerDay \in Nat /\ Window + Delay < MinutesPerDay
  /\ RetentionDays \in Nat \ {0} /\ LastDay \in Nat

NoDate == -1

VARIABLES
  now,          \* minutes since the midnight before the first day
  cleaner,      \* MaintenanceWorker.Run: not started, in its startup delay, looping
  due,          \* when its timer or ticker fires next
  last,         \* lastCleanupDate
  lastSaved,    \* its copy in app_state
  rows,         \* days with rows that the clean-up may delete
  broken,       \* history: a clean-up of this day failed
  inWindow      \* history: day in whose window the startup delay ended

maintVars == <<now, cleaner, due, last, lastSaved, rows, broken, inWindow>>

Today == now \div MinutesPerDay
InWindow == now % MinutesPerDay < Window

MaintInit ==
  /\ now = 0 /\ cleaner = "down" /\ due = 0
  /\ last = NoDate /\ lastSaved = NoDate
  /\ rows = {0} /\ broken = NoDate /\ inWindow = NoDate

-----------------------------------------------------------------------------

\* CleanupOldData: one transaction for all tables, cut off at a midnight, or nothing.
\* Open positions are not among the rows.
CleanupOldData ==
  \/ /\ rows' = {d \in rows : d >= Today - (RetentionDays - 1)} /\ UNCHANGED broken
  \/ /\ broken' = Today /\ UNCHANGED rows

\* Both places that clean up note the date, whether the clean-up worked or not.
RunDailyCleanup ==
  /\ last' = Today /\ lastSaved' \in {Today, lastSaved}
  /\ CleanupOldData

\* The worker starts; the date it reads matters only within the window of that date.
StartWorker ==
  /\ cleaner = "down"
  /\ cleaner' = "delay" /\ due' = now + Delay
  /\ last' \in {lastSaved, NoDate}
  /\ UNCHANGED <<now, lastSaved, rows, broken, inWindow>>

\* Slip: the startup clean-up is left to the ticker.
LeaveToTicker ==
  /\ cleaner = "delay" /\ now = due
  /\ cleaner' = "loop" /\ due' = now + Window
  /\ inWindow' = (IF InWindow THEN Today ELSE inWindow)
  /\ UNCHANGED <<now, last, lastSaved, rows, broken>>

\* After the startup delay: the clean-up, but in the window, which is left to midnight.
EndDelay ==
  /\ cleaner = "delay" /\ now = due
  /\ cleaner' = "loop" /\ due' = now + Window
  /\ IF InWindow
     THEN inWindow' = Today /\ UNCHANGED <<last, lastSaved, rows, broken>>
     ELSE RunDailyCleanup /\ UNCHANGED inWindow
  /\ UNCHANGED now

\* Every checkInterval.
Check10Minutes ==
  /\ cleaner = "loop" /\ now = due
  /\ due' = now + Window
  /\ IF InWindow /\ last # Today
     THEN RunDailyCleanup
     ELSE UNCHANGED <<last, lastSaved, rows, broken>>
  /\ UNCHANGED <<now, cleaner, inWindow>>

\* A clean-up that was under way leaves its transaction undone: the date may be saved.
StopWorker ==
  /\ cleaner # "down"
  /\ cleaner' = "down" /\ last' = NoDate /\ due' = 0
  /\ lastSaved' \in {lastSaved, IF cleaner = "loop" /\ now = due /\ InWindow THEN Today ELSE lastSaved}
  /\ UNCHANGED <<now, rows, broken, inWindow>>

\* Timers fire on time.  Something is written every day, if only to the log.
PassMinute ==
  /\ now < LastDay * MinutesPerDay
  /\ cleaner # "down" => now < due
  /\ now' = now + 1
  /\ rows' = rows \cup {now' \div MinutesPerDay}
  /\ UNCHANGED <<cleaner, due, last, lastSaved, broken, inWindow>>

MaintNext == StartWorker \/ EndDelay \/ Check10Minutes \/ StopWorker \/ PassMinute
MaintSpec == MaintInit /\ [][MaintNext]_maintVars

-----------------------------------------------------------------------------
(* Properties                                                              *)

\* Every variable has its type.
MaintTypeOK ==
  /\ now \in Nat /\ due \in Nat /\ cleaner \in {"down", "delay", "loop"}
  /\ {last, lastSaved, broken, inWindow} \subseteq {NoDate} \cup 0 .. Today
  /\ rows \subseteq 0 .. Today

\* No day is skipped: once the worker loops and the window of the day is over, only
\* rows of the last RetentionDays days are left; unless a clean-up failed that day,
\* or the startup delay ended in the window (maintenance.go:72).
OldRowsGo ==
  cleaner = "loop" /\ ~InWindow /\ broken # Today /\ inWindow # Today =>
    rows \subseteq Today - (RetentionDays - 1) .. Today
=============================================================================
