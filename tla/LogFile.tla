---------------------------------- MODULE LogFile ----------------------------------
(***************************************************************************)
(* The log file and its backups: rotatingWriter of logger/logger.go.       *)
(* Writers take turns; after a rotation a goroutine compresses the backup  *)
(* and removes old ones, outside the lock.  Calls of the file system may   *)
(* fail.                                                                   *)
(***************************************************************************)
EXTENDS Integers, Sequences, SequencesExt

CONSTANTS
  MaxBytes,       \* in log entries
  MaxBackups,
  MaxRotations    \* bound on rotations

ASSUME FileAssumption ==
  MaxBytes \in Nat \ {0} /\ MaxBackups \in Nat \ {0} /\ MaxRotations \in Nat

Rotations == 1 .. MaxRotations

VARIABLES
  handle,     \* rotatingWriter.file: open, nil, or closed with an error
  size,       \* of the file that is written to
  rotated,    \* number of rotations
  backups,    \* backup files, oldest first: rotation and form
  keeper,     \* the goroutine of each rotation: what it does next
  tooOld,     \* backups up to this rotation are older than maxAgeDays
  disturbed   \* history: two keepers at once, or a failure of the file system

fileVars == <<handle, size, rotated, backups, keeper, tooOld, disturbed>>

Backup(k, form) == [rotation |-> k, form |-> form]

\* Those of the files that are kept, in their order.
Those(files, kept) ==
  LET of[n \in 0 .. Len(files)] ==
        IF n = 0 THEN <<>>
        ELSE IF files[n] \in kept THEN Append(of[n - 1], files[n]) ELSE of[n - 1]
  IN of[Len(files)]

Without(b) == Those(backups, ToSet(backups) \ {b})
IsThere(b) == b \in ToSet(backups)
KeepersAtWork == {k \in Rotations : keeper[k] # "idle"}

FileInit ==
  /\ handle = "open" /\ size = 0 /\ rotated = 0 /\ backups = <<>>
  /\ keeper = [k \in Rotations |-> "idle"] /\ tooOld = 0 /\ disturbed = FALSE

-----------------------------------------------------------------------------
(* Write, under the lock                                                   *)

KeepBackups == UNCHANGED <<rotated, backups, keeper, tooOld>>

\* No rotation.  A nil handle is opened first; a closed one fails for good.
WriteEntry ==
  /\ handle = "open" /\ size < MaxBytes
  /\ size' = size + 1
  /\ KeepBackups /\ UNCHANGED <<handle, disturbed>>

OpenOrCreate ==
  /\ handle = "nil"
  /\ handle' = "open"
  /\ KeepBackups /\ UNCHANGED <<size, disturbed>>

\* rotate.
Rotate ==
  /\ handle = "open" /\ size >= MaxBytes /\ rotated < MaxRotations
  /\ rotated' = rotated + 1
  /\ backups' = Append(backups, Backup(rotated', "log"))
  /\ keeper' = [keeper EXCEPT ![rotated'] = "create"]
  /\ size' = 1
  /\ disturbed' = (disturbed \/ KeepersAtWork # {})
  /\ UNCHANGED <<handle, tooOld>>

\* The entry goes to the old file.
RenameFails ==
  /\ handle = "open" /\ size >= MaxBytes
  /\ handle' \in {"open", "nil"}
  /\ disturbed' = TRUE
  /\ KeepBackups /\ UNCHANGED size

\* The entry is lost: no file, and no keeper for the backup.
ReopenFails ==
  /\ handle = "open" /\ size >= MaxBytes /\ rotated < MaxRotations
  /\ rotated' = rotated + 1
  /\ backups' = Append(backups, Backup(rotated', "log"))
  /\ handle' = "nil" /\ size' = 0 /\ disturbed' = TRUE
  /\ UNCHANGED <<keeper, tooOld>>

\* The handle is kept though it cannot be used again: all later entries are lost.
CloseFails ==
  /\ handle = "open" /\ size >= MaxBytes
  /\ handle' = "closed" /\ disturbed' = TRUE
  /\ KeepBackups /\ UNCHANGED size

CloseFile ==
  /\ handle = "open" /\ handle' = "nil"
  /\ KeepBackups /\ UNCHANGED <<size, disturbed>>

-----------------------------------------------------------------------------
(* The keepers                                                             *)

KeeperGoto(k, pc) == keeper' = [keeper EXCEPT ![k] = pc]
KeepFile == UNCHANGED <<handle, size, rotated, tooOld>>

\* compressLogFile: an incomplete .gz, which is a backup for the glob pattern.
CreateGz(k) ==
  /\ keeper[k] = "create" /\ IsThere(Backup(k, "log"))
  /\ backups' = Append(backups, Backup(k, "gz"))
  /\ KeeperGoto(k, "compress")
  /\ KeepFile /\ UNCHANGED disturbed

\* The last write makes it the newest file.
CompressLogFile(k) ==
  /\ keeper[k] = "compress"
  /\ backups' = IF IsThere(Backup(k, "gz"))
                THEN Append(Without(Backup(k, "gz")), Backup(k, "gz")) ELSE backups
  /\ KeeperGoto(k, "remove")
  /\ KeepFile /\ UNCHANGED disturbed

\* The backup is gone, or something fails: it stays as it is.
CompressionFails(k) ==
  /\ keeper[k] \in {"create", "compress"}
  /\ backups' = Without(Backup(k, "gz"))
  /\ KeeperGoto(k, "cleanLog")
  /\ KeepFile /\ disturbed' = TRUE

RemoveLog(k) ==
  /\ keeper[k] = "remove"
  /\ \/ backups' = Without(Backup(k, "log")) /\ UNCHANGED disturbed
     \/ UNCHANGED backups /\ disturbed' = TRUE
  /\ KeeperGoto(k, "cleanGz")
  /\ KeepFile

\* Slip: one fewer than asked for is kept.
KeptTooFew(files) ==
  {files[i] : i \in {j \in DOMAIN files : j > Len(files) - MaxBackups + 1}}

\* The newest MaxBackups files, of those that are not too old.
Kept(files) ==
  {files[i] : i \in {j \in DOMAIN files : j > Len(files) - MaxBackups}}

CleanupBackups(k) ==
  /\ keeper[k] \in {"cleanLog", "cleanGz"}
  /\ LET current == Backup(k, IF keeper[k] = "cleanGz" THEN "gz" ELSE "log")
         young == Those(backups, {b \in ToSet(backups) : b.rotation > tooOld})
     IN backups' = Those(young, Kept(young) \cup {current})
  /\ KeeperGoto(k, "idle")
  /\ KeepFile /\ UNCHANGED disturbed

\* A backup passes maxAgeDays.
GrowOld ==
  /\ tooOld < rotated
  /\ tooOld' = tooOld + 1
  /\ UNCHANGED <<handle, size, rotated, backups, keeper, disturbed>>

FileNext ==
  \/ WriteEntry \/ OpenOrCreate \/ Rotate \/ RenameFails \/ ReopenFails \/ CloseFails
  \/ CloseFile \/ GrowOld
  \/ \E k \in Rotations : \/ CreateGz(k) \/ CompressLogFile(k) \/ CompressionFails(k)
                          \/ RemoveLog(k) \/ CleanupBackups(k)
FileSpec == FileInit /\ [][FileNext]_fileVars

-----------------------------------------------------------------------------
(* Properties                                                              *)

\* Every variable has its type.
FileTypeOK ==
  /\ handle \in {"open", "nil", "closed"} /\ size \in 0 .. MaxBytes
  /\ rotated \in 0 .. MaxRotations /\ tooOld \in 0 .. rotated /\ disturbed \in BOOLEAN
  /\ ToSet(backups) \subseteq {Backup(k, f) : k \in 1 .. rotated, f \in {"log", "gz"}}
  /\ keeper \in [Rotations -> {"idle", "create", "compress", "remove", "cleanLog", "cleanGz"}]

\* The newest backups are kept, MaxBackups of them, unless too old: while each keeper
\* ends before the next rotation and nothing fails (logger.go:360-365).
NewestBackupsKept ==
  ~disturbed =>
    \A k \in rotated - MaxBackups + 1 .. rotated :
      k > tooOld => \E f \in {"log", "gz"} : IsThere(Backup(k, f))
=============================================================================
