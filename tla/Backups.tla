------------------------------ MODULE Backups --------------------------------
(***************************************************************************)
(* Archives and their records: createFullDatabaseBackup,                   *)
(* createOperatorExport, deleteBackup and pruneOldBackups of               *)
(* modules/backup/backend/service.ts under the timers and the routes of    *)
(* scheduler.ts and routes.ts.                                             *)
(*                                                                         *)
(* The main thread runs one callback at a time: `turn` is what it is in    *)
(* the middle of, and only a crash can come between two steps of a turn.   *)
(* Computing a checksum and vacuuming (a worker thread) go on while other  *)
(* callbacks run.                                                          *)
(***************************************************************************)
EXTENDS Naturals, Sequences

CONSTANTS
    Companies,          \* the operators that share the server
    System,             \* the oldest one, for which the scheduler works
    Retention,          \* BACKUP_RETENTION_DAYS
    MaxRecords,         \* bound on the number of records
    MaxDays             \* bound on the clock

VARIABLES
    records,            \* the table backups: [operator, status, live, made]; ids are positions
    files,              \* the backups whose archive is on disk
    hashing,            \* the backups whose checksum is being computed
    turn,               \* what the main thread is in the middle of
    maintenance,        \* maintenanceInProgress
    scheduled,          \* the backup that activeBackupPromise waits for
    vacuuming,          \* the worker runs
    clock,              \* days
    interrupted,        \* history: a crash or an error of the disk came between
    pruned              \* history: the backups that retention took

bkVars == <<records, files, hashing, turn, maintenance, scheduled, vacuuming, clock,
            interrupted, pruned>>
NoBackup == 0
NoTurn == [step |-> "idle", row |-> NoBackup, rest |-> {}, pruning |-> FALSE]

BackupsAssumption ==
    /\ System \in Companies
    /\ Retention \in Nat \ {0} /\ MaxRecords \in Nat /\ MaxDays \in Nat

AtRest == turn = NoTurn
Writing(b) == [step |-> "writing", row |-> b, rest |-> {}, pruning |-> FALSE]
Deleting(b, rest, pruning) == [step |-> "unlink", row |-> b, rest |-> rest, pruning |-> pruning]
WithStatus(b, status) ==
    IF records[b].live THEN [records EXCEPT ![b].status = status] ELSE records

(***************************************************************************)
(* A backup: the record, the archive, the checksum, the record again.      *)
(***************************************************************************)

Begin(operator) ==
    /\ Len(records) < MaxRecords
    /\ records' = Append(records, [operator |-> operator, status |-> "pending",
                                   live |-> TRUE, made |-> clock])
    /\ turn' = Writing(Len(records) + 1)
    /\ UNCHANGED <<files, hashing, vacuuming, clock, interrupted, pruned>>

CreateBackup(operator) ==
    /\ AtRest
    /\ Begin(operator)
    /\ UNCHANGED <<maintenance, scheduled>>

WriteArchive ==
    /\ turn.step = "writing"
    /\ files' = files \cup {turn.row}
    /\ hashing' = hashing \cup {turn.row}
    /\ turn' = NoTurn
    /\ UNCHANGED <<records, maintenance, scheduled, vacuuming, clock, interrupted, pruned>>

\* The rows of System that are older than the retention; the SELECT names no
\* order.
OldBackups == {b \in DOMAIN records : /\ records[b].live
                                     /\ records[b].operator = System
                                     /\ records[b].made + Retention < clock}

\* The finally of executeScheduledBackup, or the rest of the request.
Released(b) ==
    /\ maintenance' = IF b = scheduled THEN "none" ELSE maintenance
    /\ scheduled' = IF b = scheduled THEN NoBackup ELSE scheduled

\* A scheduled backup prunes in the same turn.
PruneAfter(b) ==
    \/ /\ b # scheduled \/ OldBackups = {}
       /\ turn' = NoTurn
       /\ Released(b)
    \/ /\ b = scheduled
       /\ \E old \in OldBackups : turn' = Deleting(old, OldBackups \ {old}, TRUE)
       /\ UNCHANGED <<maintenance, scheduled>>

\* Wrong: an error leaves the flag of the scheduler set.
FailAndKeepFlag(b) ==
    /\ records' = WithStatus(b, "failed")
    /\ files' = files \ {b}
    /\ hashing' = hashing \ {b}
    /\ turn' = NoTurn
    /\ UNCHANGED <<maintenance, scheduled, vacuuming, clock, interrupted, pruned>>

\* Wrong: retention is enforced after a backup that failed, too.
FailAndPrune(b) ==
    /\ records' = WithStatus(b, "failed")
    /\ files' = files \ {b}
    /\ hashing' = hashing \ {b}
    /\ PruneAfter(b)
    /\ UNCHANGED <<vacuuming, clock, interrupted, pruned>>

\* The catch clause, whatever threw: what there is of the archive goes, or stays
\* with the error of unlink, which is ignored.
Fail(b) ==
    /\ records' = WithStatus(b, "failed")
    /\ \/ files' = files \ {b} /\ UNCHANGED interrupted
       \/ files' = files \cup {b} /\ interrupted' = interrupted \cup {b}
    /\ hashing' = hashing \ {b}
    /\ turn' = NoTurn
    /\ Released(b)
    /\ UNCHANGED <<vacuuming, clock, pruned>>

WriteFails == turn.step = "writing" /\ Fail(turn.row)
HashFails(b) == AtRest /\ b \in hashing /\ Fail(b)

HashDone(b) ==
    /\ AtRest
    /\ b \in hashing
    /\ records' = WithStatus(b, "completed")
    /\ hashing' = hashing \ {b}
    /\ PruneAfter(b)
    /\ UNCHANGED <<files, vacuuming, clock, interrupted, pruned>>

(***************************************************************************)
(* Deleting unlinks first and marks second; an error of the disk is        *)
(* ignored.                                                                *)
(***************************************************************************)
DeleteBackup(b) ==
    /\ AtRest
    /\ records[b].live
    /\ turn' = Deleting(b, {}, FALSE)
    /\ UNCHANGED <<records, files, hashing, maintenance, scheduled, vacuuming, clock,
                   interrupted, pruned>>

Unlink ==
    /\ turn.step = "unlink"
    /\ LET b == turn.row
       IN  \/ files' = files \ {b} /\ UNCHANGED interrupted
           \/ /\ b \in files /\ UNCHANGED files
              /\ interrupted' = interrupted \cup {b}
    /\ turn' = [turn EXCEPT !.step = "mark"]
    /\ UNCHANGED <<records, hashing, maintenance, scheduled, vacuuming, clock, pruned>>

Mark ==
    /\ turn.step = "mark"
    /\ LET b == turn.row
       IN  /\ records' = [records EXCEPT ![b].live = FALSE]
           /\ pruned' = IF turn.pruning THEN pruned \cup {b} ELSE pruned
    /\ \/ turn.rest = {} /\ turn' = NoTurn
       \/ \E b \in turn.rest : turn' = Deleting(b, turn.rest \ {b}, turn.pruning)
    /\ IF turn.pruning /\ turn.rest = {} THEN Released(scheduled)
       ELSE UNCHANGED <<maintenance, scheduled>>
    /\ UNCHANGED <<files, hashing, vacuuming, clock, interrupted>>

(***************************************************************************)
(* The scheduler: timers and the route that triggers it.                   *)
(***************************************************************************)
ScheduledBackup ==
    /\ AtRest
    /\ maintenance = "none"
    /\ Begin(System)
    /\ maintenance' = "backup"
    /\ scheduled' = Len(records) + 1

ScheduledVacuum ==
    /\ AtRest
    /\ maintenance = "none"
    /\ maintenance' = "vacuum"
    /\ vacuuming' = TRUE
    /\ UNCHANGED <<records, files, hashing, turn, scheduled, clock, interrupted, pruned>>

\* The message of the worker, its error, or its exit.
VacuumEnds ==
    /\ AtRest
    /\ vacuuming
    /\ vacuuming' = FALSE
    /\ maintenance' = "none"
    /\ UNCHANGED <<records, files, hashing, turn, scheduled, clock, interrupted, pruned>>

\* The process dies; nothing looks after pending records when it is back.
ProcessDies ==
    /\ turn' = NoTurn
    /\ hashing' = {} /\ scheduled' = NoBackup /\ vacuuming' = FALSE /\ maintenance' = "none"
    /\ interrupted' = interrupted \cup hashing
                      \cup (IF turn.step \in {"writing", "mark"} THEN {turn.row} ELSE {})
    /\ ~(AtRest /\ hashing = {} /\ ~vacuuming)
    /\ UNCHANGED <<records, files, clock, pruned>>

\* No checksum takes until the second day.
NextDay ==
    /\ AtRest
    /\ clock < MaxDays
    /\ \A b \in hashing : records[b].made = clock
    /\ clock' = clock + 1
    /\ UNCHANGED <<records, files, hashing, turn, maintenance, scheduled, vacuuming,
                   interrupted, pruned>>

(***************************************************************************)
(* The specification.                                                      *)
(***************************************************************************)
BackupsInit ==
    /\ records = <<>> /\ files = {} /\ hashing = {} /\ turn = NoTurn
    /\ maintenance = "none" /\ scheduled = NoBackup /\ vacuuming = FALSE
    /\ clock = 0 /\ interrupted = {} /\ pruned = {}

TurnStep == WriteArchive \/ WriteFails \/ Unlink \/ Mark
HashStep == \E b \in hashing : HashDone(b) \/ HashFails(b)
Requested ==
    \/ \E operator \in Companies : CreateBackup(operator)
    \/ \E b \in DOMAIN records : DeleteBackup(b)
    \/ ScheduledBackup \/ ScheduledVacuum

BackupsNext == Requested \/ TurnStep \/ HashStep \/ VacuumEnds \/ ProcessDies \/ NextDay
BackupsSpec == BackupsInit /\ [][BackupsNext]_bkVars

\* A turn goes on, and streams and workers report in the end.
FairBackupsSpec ==
    /\ BackupsSpec
    /\ WF_bkVars(TurnStep)
    /\ \A b \in 1 .. MaxRecords :
          SF_bkVars(b \in hashing /\ (HashDone(b) \/ HashFails(b)))
    /\ SF_bkVars(VacuumEnds)

(***************************************************************************)
(* Properties.                                                             *)
(***************************************************************************)
BackupStatuses == {"pending", "completed", "failed"}

\* Records, disk and jobs have their form, and only what is recorded is
\* hashed, scheduled or on disk.
BackupsTypeOK ==
    /\ records \in Seq([operator : Companies, status : BackupStatuses, live : BOOLEAN, made : Nat])
    /\ files \cup hashing \cup interrupted \cup pruned \subseteq DOMAIN records
    /\ scheduled \in {NoBackup} \cup DOMAIN records
    /\ maintenance \in {"none", "backup", "vacuum"}
    /\ \A b \in hashing : records[b].status = "pending"

\* The records tell what is on disk: a completed backup has its archive, a
\* deleted or failed one has none, unless the process died or the disk failed
\* in the middle (the archive is unlinked before the record is marked).
ArchivesMatchRecords ==
    AtRest => \A b \in DOMAIN records \ interrupted :
        b \in files <=> records[b].live /\ records[b].status # "failed"

\* Scheduled maintenance excludes itself: the flag tells which of the two
\* runs, across awaits, failures and manual triggers.
OneMaintenance ==
    /\ maintenance = "vacuum" <=> vacuuming
    /\ maintenance = "backup" <=> scheduled # NoBackup

\* Retention takes a backup only when a younger one of the operator has been
\* completed (or was deleted by a user before it was): a scheduler that fails
\* for longer than the retention does not leave the operator without backups.
LastGoodBackupKept ==
    \A b \in pruned :
        \E c \in DOMAIN records :
            /\ records[c].operator = records[b].operator
            /\ records[c].status = "completed" \/ ~records[c].live
            /\ records[c].made > records[b].made

\* What the runs check of a state, together.
BackupsAgree ==
    BackupsTypeOK /\ ArchivesMatchRecords /\ OneMaintenance /\ LastGoodBackupKept

\* Scheduled maintenance ends, however it ends.
MaintenanceEnds == maintenance # "none" ~> maintenance = "none"
=============================================================================
