----------------------------- MODULE Attachments -------------------------------
(***************************************************************************)
(* Files that are attached to records (modules/attachments) and what whole *)
(* backups do with them: service.ts of the attachments, the archive of     *)
(* createFullDatabaseBackup, scripts/restore.js and restoreFullDatabase.   *)
(*                                                                         *)
(* An upload, a deletion and a restore change the disk and the database in *)
(* turn.  Nothing of the program runs in between, but a crash or an error  *)
(* may cut them off: `task` is what is under way.                          *)
(*                                                                         *)
(* The database is a file and its WAL: a commit is in the WAL until a      *)
(* checkpoint brings it into the file.  A file half written counts as no   *)
(* file.                                                                   *)
(***************************************************************************)
EXTENDS Naturals, Sequences, FiniteSets, FiniteSetsExt, Functions

CONSTANTS
    MaxUploads,         \* bound on the number of uploads; ids count them
    Sizes,              \* sizes of uploads
    Quotas,             \* what storage_quota_bytes is set to
    MaxBackups          \* bound on the number of backups

VARIABLES
    database,           \* the database: [rows, quota], rows: id -> [size, live]
    main,               \* what its file holds, without the WAL
    torn,               \* the file of the database is not whole
    disk,               \* the files: id -> size
    uploads,            \* uploads so far
    backups,            \* the archives: [database, files]
    task,               \* what is under way
    aside,              \* of a restore that may leave the file torn: the database that
                        \* it found, the copy that it made, and that the WAL had commits
    excused             \* history: attachments that something cut off left without file

fileVars == <<torn, aside, backups>>
atVars == <<database, main, disk, uploads, task, excused, fileVars>>

AttachmentsAssumption ==
    /\ MaxUploads \in Nat /\ MaxBackups \in Nat
    /\ Sizes \subseteq Nat \ {0} /\ Quotas \subseteq Nat \ {0}

Idle == [kind |-> "idle"]
Free == task = Idle /\ ~torn

NoCopy == <<>>
NothingAside == [found |-> NoCopy, copy |-> NoCopy, unclean |-> FALSE]

LiveRows(d) == {i \in DOMAIN d.rows : d.rows[i].live}
GetTotalStorageUsed(d) == MapThenSumSet(LAMBDA i : d.rows[i].size, LiveRows(d))
With(f, i, v) == [j \in DOMAIN f \cup {i} |-> IF j = i THEN v ELSE f[j]]
Without(f, i) == Restrict(f, DOMAIN f \ {i})

(***************************************************************************)
(* Uploads.  Sanitizing a file may make it smaller.                        *)
(***************************************************************************)
UploadAttachment(size, sanitized) ==
    /\ Free
    /\ uploads < MaxUploads
    /\ sanitized <= size
    /\ GetTotalStorageUsed(database) + size <= database.quota
    /\ uploads' = uploads + 1
    /\ disk' = With(disk, uploads + 1, sanitized)
    /\ task' = [kind |-> "upload", id |-> uploads + 1, size |-> sanitized]
    /\ UNCHANGED <<database, main, excused, fileVars>>

\* Wrong: the upload is recorded with the size that was sent.
CreateAsSent ==
    /\ task.kind = "upload"
    /\ \E size \in Sizes : size >= task.size
          /\ database' = [database EXCEPT !.rows = With(@, task.id, [size |-> size, live |-> TRUE])]
    /\ task' = Idle
    /\ UNCHANGED <<main, disk, uploads, excused, fileVars>>

Create ==
    /\ task.kind = "upload"
    /\ database' = [database EXCEPT !.rows = With(@, task.id, [size |-> task.size, live |-> TRUE])]
    /\ task' = Idle
    /\ UNCHANGED <<main, disk, uploads, excused, fileVars>>

(***************************************************************************)
(* Deletions.  Errors of the disk are ignored.                             *)
(***************************************************************************)
DeleteAttachment(i, unlinked) ==
    /\ Free
    /\ i \in LiveRows(database)
    /\ disk' = IF unlinked THEN Without(disk, i) ELSE disk
    /\ task' = [kind |-> "delete", id |-> i]
    /\ UNCHANGED <<database, main, uploads, excused, fileVars>>

SoftDelete ==
    /\ task.kind = "delete"
    /\ database' = [database EXCEPT !.rows[task.id].live = FALSE]
    /\ task' = Idle
    /\ UNCHANGED <<main, disk, uploads, excused, fileVars>>

SetQuota(q) ==
    /\ Free
    /\ database' = [database EXCEPT !.quota = q]
    /\ UNCHANGED <<main, disk, uploads, task, excused, fileVars>>

\* SQLite does this by itself after some commits, and when the database is closed.
Checkpoint ==
    /\ Free
    /\ main' = database
    /\ UNCHANGED <<database, disk, uploads, task, excused, fileVars>>

(***************************************************************************)
(* Backups of everything, and restores.                                    *)
(***************************************************************************)
\* The snapshot of the database and the files are read in one turn.
CreateFullDatabaseBackup ==
    /\ Free
    /\ Cardinality(backups) < MaxBackups
    /\ backups' = backups \cup {[database |-> database, files |-> disk]}
    /\ UNCHANGED <<database, main, torn, aside, disk, uploads, task, excused>>

Restoring(step) == task.kind = "restore" /\ task.step = step
Going(step) == task' = [task EXCEPT !.step = step]
RestoreTask(who, b, first) ==
    [kind |-> "restore", by |-> who, backup |-> b, step |-> first,
     left |-> DOMAIN b.files, writing |-> {}]

\* restore.js: the files of the archive are staged; WAL and index are removed,
\* and with them what no checkpoint has brought into the file.  A process that
\* died midway through a checkpoint leaves a file that is not whole without them.
RestoreByScript(b, midway) ==
    /\ task = Idle
    /\ midway => ~torn /\ database # main
    /\ task' = RestoreTask("script", b, "copy")
    /\ IF torn THEN UNCHANGED <<database, torn, aside, excused>>
       ELSE /\ aside' = [found |-> database, copy |-> NoCopy, unclean |-> database # main]
            /\ database' = main /\ torn' = midway
            /\ excused' = excused \cup (LiveRows(main) \ DOMAIN disk)
    /\ UNCHANGED <<main, disk, uploads, backups>>

\* A system that has no users is restored by its first request.  Its database
\* is closed first.
RestoreFullDatabase(b) ==
    /\ Free
    /\ database.rows = <<>>
    /\ task' = RestoreTask("request", b, "files")
    /\ main' = database
    /\ aside' = [found |-> database, copy |-> NoCopy, unclean |-> FALSE]
    /\ UNCHANGED <<database, torn, disk, uploads, backups, excused>>

CopyAside ==
    /\ Restoring("copy")
    /\ aside' = IF torn THEN aside ELSE [aside EXCEPT !.copy = database]
    /\ Going("install")
    /\ UNCHANGED <<database, main, torn, disk, uploads, backups, excused>>

Overwrite ==
    /\ Restoring("install")
    /\ torn' = TRUE
    /\ Going("installing")
    /\ UNCHANGED <<database, main, aside, disk, uploads, backups, excused>>

\* Once the file is whole nobody needs what was put aside.
Installed ==
    /\ Restoring("installing")
    /\ torn' = FALSE
    /\ database' = task.backup.database /\ main' = task.backup.database
    /\ aside' = NothingAside
    /\ excused' = excused \cup (LiveRows(task.backup.database) \ DOMAIN disk)
    /\ Going(IF task.by = "script" THEN "files" ELSE "done")
    /\ UNCHANGED <<disk, uploads, backups>>

\* Every file of the archive is written, over the one that is there.
OpenFile(i) ==
    /\ Restoring("files")
    /\ task.writing = {} /\ i \in task.left
    /\ disk' = Without(disk, i)
    /\ task' = [task EXCEPT !.writing = {i}]
    /\ UNCHANGED <<database, main, uploads, excused, fileVars>>

WriteFile(i) ==
    /\ Restoring("files")
    /\ task.writing = {i}
    /\ disk' = With(disk, i, task.backup.files[i])
    /\ task' = [task EXCEPT !.left = @ \ {i}, !.writing = {}]
    /\ UNCHANGED <<database, main, uploads, excused, fileVars>>

\* Wrong: a file that cannot be written is passed over.
FilesPassedOver ==
    /\ Restoring("files")
    /\ task.writing = {}
    /\ Going(IF task.by = "script" THEN "done" ELSE "install")
    /\ UNCHANGED <<database, main, disk, uploads, excused, fileVars>>

FilesWritten ==
    /\ Restoring("files")
    /\ task.left = {}
    /\ Going(IF task.by = "script" THEN "done" ELSE "install")
    /\ UNCHANGED <<database, main, disk, uploads, excused, fileVars>>

\* Migrations catch up, which is left out here.
RestoreDone ==
    /\ Restoring("done")
    /\ task' = Idle
    /\ excused' = excused \ DOMAIN disk
    /\ UNCHANGED <<database, main, disk, uploads, fileVars>>

\* The process dies, or an error ends what was under way.
CutOff ==
    /\ task # Idle
    /\ task' = Idle
    /\ aside' = IF torn THEN aside ELSE NothingAside
    /\ excused' = excused \cup (CASE task.kind = "delete" -> {task.id}
                                 [] task.kind = "restore" -> task.writing
                                 [] OTHER -> {})
    /\ UNCHANGED <<database, main, torn, disk, uploads, backups>>

(***************************************************************************)
(* The specification.                                                      *)
(***************************************************************************)
AtInit ==
    /\ \E q \in Quotas : database = [rows |-> <<>>, quota |-> q]
    /\ main = database /\ torn = FALSE /\ aside = NothingAside
    /\ disk = <<>> /\ uploads = 0 /\ backups = {}
    /\ task = Idle /\ excused = {}

AtNext ==
    \/ \E size, sanitized \in Sizes : UploadAttachment(size, sanitized)
    \/ Create
    \/ \E i \in 1 .. uploads, unlinked \in BOOLEAN : DeleteAttachment(i, unlinked)
    \/ SoftDelete
    \/ \E q \in Quotas : SetQuota(q)
    \/ Checkpoint
    \/ CreateFullDatabaseBackup
    \/ \E b \in backups, midway \in BOOLEAN : RestoreByScript(b, midway)
    \/ \E b \in backups : RestoreFullDatabase(b)
    \/ CopyAside \/ Overwrite \/ Installed \/ FilesWritten \/ RestoreDone
    \/ \E i \in 1 .. uploads : OpenFile(i) \/ WriteFile(i)
    \/ CutOff
AtSpec == AtInit /\ [][AtNext]_atVars

(***************************************************************************)
(* Properties.                                                             *)
(***************************************************************************)
\* An attachment that is listed can be downloaded: its file is there and has
\* the size of the record, unless a deletion, or a restore, was cut off.
RecordsHaveFiles ==
    task = Idle /\ ~torn =>
        \A i \in LiveRows(database) \ excused :
            i \in DOMAIN disk /\ disk[i] = database.rows[i].size

\* While the file of the database is not whole, what the restore found is whole
\* in the copy, or had nothing in it; unless it found a WAL with commits, left by
\* a process that died, which it removes first.
StillWhole == aside.copy = aside.found \/ aside.found.rows = <<>> \/ aside.unclean
NothingLost == torn => StillWhole

\* The same of a process that died.
\* Refuted: see the README.
CommitsSurvive == torn => aside.copy = aside.found \/ aside.found.rows = <<>>

\* A restore that ends has brought back the records and the files of the
\* backup, whatever was deleted since and whatever earlier restores left.
RestoredWhole ==
    [][RestoreDone => /\ database = task.backup.database
                      /\ \A i \in DOMAIN task.backup.files :
                            i \in DOMAIN disk /\ disk[i] = task.backup.files[i]]_atVars

\* No upload takes an operator above the quota in force.
QuotaEnforced ==
    [][database.quota = database'.quota /\ "restore" \notin {task.kind, task'.kind}
           /\ GetTotalStorageUsed(database') > GetTotalStorageUsed(database)
       => GetTotalStorageUsed(database') <= database'.quota]_atVars

\* service.ts on deleteAttachment: "unlinking its physical file from disk and
\* soft-deleting the corresponding database record to prevent disk exhaustion".
\* Refuted: see the README.
DeletedIsGone ==
    task = Idle => \A i \in DOMAIN database.rows : ~database.rows[i].live => i \notin DOMAIN disk
=============================================================================
