--------------------------------- MODULE LogStore ---------------------------------
(***************************************************************************)
(* Log entries on their way to the logs table: SetDatabase and             *)
(* saveToDatabase of logger/logger.go.  The logger exists before the       *)
(* database and after it; goroutines log all the time.  Entries of level   *)
(* DEBUG and of the category data go to the file only and are not here.    *)
(***************************************************************************)
EXTENDS Integers, FiniteSets

CONSTANTS
  Entries,
  MaxPending      \* maxPendingLogEntries

ASSUME StoreAssumption == IsFiniteSet(Entries) /\ MaxPending \in Nat

VARIABLES
  entry,      \* where each entry is
  logDb,      \* the database: not there yet, attached, open but detached, closed
  overflow    \* pendingOverflow

storeVars == <<entry, logDb, overflow>>

At(place) == {e \in Entries : entry[e] = place}
MoveTo(e, place) == entry' = [entry EXCEPT ![e] = place]

StoreInit == entry = [e \in Entries |-> "new"] /\ logDb = "none" /\ overflow = FALSE

\* Slip: the check for the database and the append are two steps.
LogUnlocked(e) ==
  /\ \/ entry[e] = "new" /\ MoveTo(e, IF logDb = "attached" THEN "saving" ELSE "lost")
     \/ entry[e] = "new" /\ logDb # "attached" /\ MoveTo(e, "checked")
     \/ entry[e] = "checked" /\ Cardinality(At("pending")) < MaxPending /\ MoveTo(e, "pending")
  /\ UNCHANGED <<logDb, overflow>>

\* saveToDatabase, to the end of the lock: without a database the entry is kept, or
\* dropped if there are too many.
Log(e) ==
  /\ entry[e] = "new"
  /\ \/ logDb = "attached" /\ MoveTo(e, "saving") /\ UNCHANGED overflow
     \/ /\ logDb # "attached" /\ Cardinality(At("pending")) < MaxPending
        /\ MoveTo(e, "pending") /\ UNCHANGED overflow
     \/ /\ logDb # "attached" /\ Cardinality(At("pending")) >= MaxPending
        /\ MoveTo(e, "lost") /\ overflow' = TRUE
  /\ UNCHANGED logDb

\* SaveLog, outside the lock, of an entry or of one that SetDatabase took over.
SaveLog(e) ==
  /\ entry[e] \in {"saving", "flushing"}
  /\ MoveTo(e, IF logDb = "closed" THEN "lost" ELSE "saved")
  /\ UNCHANGED <<logDb, overflow>>

SaveLogFails(e) ==
  /\ entry[e] \in {"saving", "flushing"}
  /\ MoveTo(e, "lost")
  /\ UNCHANGED <<logDb, overflow>>

\* SetDatabase(repo): run of the engine attaches, and goes on when all are flushed.
Attach ==
  /\ logDb = "none" /\ logDb' = "attached"
  /\ entry' = [e \in Entries |-> IF entry[e] = "pending" THEN "flushing" ELSE entry[e]]
  /\ overflow' = FALSE

\* SetDatabase(nil), then db.Close().  What was pending is gone, but nothing was.
Detach ==
  /\ logDb = "attached" /\ At("flushing") = {} /\ logDb' = "detached"
  /\ entry' = [e \in Entries |-> IF entry[e] = "pending" THEN "lost" ELSE entry[e]]
  /\ overflow' = FALSE

CloseDb == logDb = "detached" /\ logDb' = "closed" /\ UNCHANGED <<entry, overflow>>

StoreNext ==
  \/ Attach \/ Detach \/ CloseDb
  \/ \E e \in Entries : Log(e) \/ SaveLog(e) \/ SaveLogFails(e)
StoreSpec == StoreInit /\ [][StoreNext]_storeVars

\* Every variable has its type.
StoreTypeOK ==
  /\ entry \in [Entries -> {"new", "pending", "flushing", "saving", "saved", "lost"}]
  /\ logDb \in {"none", "attached", "detached", "closed"} /\ overflow \in BOOLEAN

\* Startup logs are persisted rather than dropped (logger.go:80-81): once the database
\* is attached no entry waits in the buffer, where nobody would look again, and the
\* buffer has said so if it dropped one.
NoneStranded ==
  /\ logDb = "attached" => At("pending") = {}
  /\ overflow => Cardinality(At("pending")) = MaxPending
=============================================================================
