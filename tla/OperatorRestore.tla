--------------------------- MODULE OperatorRestore ---------------------------
(***************************************************************************)
(* restoreOperatorData of modules/backup/backend/service.ts: the rows of   *)
(* an export are put back into the tables, after the tables were emptied   *)
(* ("clean_slate") or beside what is there ("merge").  SQLite checks       *)
(* foreign keys and unique indexes at every statement; a statement that    *)
(* fails rolls the whole restore back.                                     *)
(*                                                                         *)
(* Four tables stand for the others: users, which has a natural key that   *)
(* the restore knows and rows that are only marked as deleted;             *)
(* user_portfolio_access, whose rows name a user, are really deleted and   *)
(* have a unique index that the restore does not know; and properties and  *)
(* units, where the table that is named comes first.                       *)
(***************************************************************************)
EXTENDS Naturals, Sequences, FiniteSets

CONSTANTS
    Mailboxes, PortfolioIds,
    MaxIds,             \* bound on the ids given out
    MaxPlaces,          \* bound on the properties and units
    MaxExports          \* bound on the number of exports

VARIABLES
    data,               \* the rows of the tables
    nextId,             \* ids are never given out twice
    exports,            \* the exports on disk: the rows in the order they are in
    outcome             \* history: the last restore

orVars == <<data, nextId, exports, outcome>>
NoParent == 0
NoOutcome == [mode |-> "none", ok |-> TRUE]

\* The tables in the order of an export, which is that of their names.
PropertiesTable == 1
UnitsTable      == 2
AccessTable     == 3
UsersTable      == 4
Tables == {PropertiesTable, UnitsTable, AccessTable, UsersTable}
NaturalKeys == {UsersTable}
Modes == {"clean_slate", "merge"}

NewRow(table, id, key, parent) ==
    [table |-> table, id |-> id, key |-> key, parent |-> parent, live |-> TRUE]

(***************************************************************************)
(* What the database checks.                                               *)
(***************************************************************************)
ParentTable(table) == IF table = UnitsTable THEN PropertiesTable ELSE UsersTable
Named(r, db) ==
    r.parent = NoParent \/ \E p \in db : p.table = ParentTable(r.table) /\ p.id = r.parent
Clashes(r, s) == r.table = s.table /\ r.id # s.id /\ r.key = s.key /\ r.live /\ s.live
ForeignKeys(db) == \A r \in db : Named(r, db)
UniqueKeys(db) == \A r, s \in db : ~Clashes(r, s)

(***************************************************************************)
(* The operations that write the tables.                                   *)
(***************************************************************************)
AddUser(email) ==
    LET row == NewRow(UsersTable, nextId, email, NoParent)
    IN  /\ nextId <= MaxIds
        /\ UniqueKeys(data \cup {row})
        /\ data' = data \cup {row}
        /\ nextId' = nextId + 1
        /\ UNCHANGED <<exports, outcome>>

RemoveUser(u) ==
    /\ u.table = UsersTable /\ u.live
    /\ data' = (data \ {u}) \cup {[u EXCEPT !.live = FALSE]}
    /\ UNCHANGED <<nextId, exports, outcome>>

\* What was granted before is deleted.
SetUserPortfolioAccess(u, portfolio) ==
    /\ u.table = UsersTable /\ u.live
    /\ nextId <= MaxIds
    /\ data' = {r \in data : ~ (r.table = AccessTable /\ r.parent = u.id)}
               \cup {NewRow(AccessTable, nextId, <<u.id, portfolio>>, u.id)}
    /\ nextId' = nextId + 1
    /\ UNCHANGED <<exports, outcome>>

\* Properties and units have no unique index: each has a key of its own.
AddPlace(table, parent) ==
    /\ nextId <= MaxIds
    /\ Cardinality({r \in data : r.table \in {PropertiesTable, UnitsTable}}) < MaxPlaces
    /\ data' = data \cup {NewRow(table, nextId, <<nextId, nextId>>, parent)}
    /\ nextId' = nextId + 1
    /\ UNCHANGED <<exports, outcome>>

AddProperty == AddPlace(PropertiesTable, NoParent)

AddUnit(p) == p.table = PropertiesTable /\ AddPlace(UnitsTable, p.id)

\* The rows table by table.  In a table they come as SQLite finds them, which
\* is as they were inserted: of two with the same key the older one comes first.
Precedes(r, s) ==
    r.table < s.table \/ (r.table = s.table /\ (r.key = s.key => r.id < s.id))
InOrder(export) == \A i, j \in DOMAIN export : i < j => Precedes(export[i], export[j])
RowsOf(export) == {export[i] : i \in DOMAIN export}

\* There are no more rows than ids were given out.
CreateOperatorExport ==
    /\ Len(exports) < MaxExports
    /\ \E n \in 0 .. nextId - 1 : \E export \in [1 .. n -> data] :
          /\ InOrder(export) /\ RowsOf(export) = data
          /\ exports' = Append(exports, export)
    /\ UNCHANGED <<data, nextId, outcome>>

(***************************************************************************)
(* The restore, statement by statement: the rows that there are, and       *)
(* whether the statements up to here succeeded.                            *)
(***************************************************************************)
Done(db) == [db |-> db, ok |-> TRUE]
Failed == [db |-> {}, ok |-> FALSE]

\* Table by table in the order of the export; a table whose rows are still
\* named cannot be emptied.
Emptied(table, state) ==
    LET left == {r \in state.db : r.table # table}
    IN  IF state.ok /\ ForeignKeys(left) THEN Done(left) ELSE Failed

AllEmptied(db) ==
    Emptied(UsersTable, Emptied(AccessTable, Emptied(UnitsTable, Emptied(PropertiesTable, Done(db)))))

\* Another row with the natural key makes room, deleted or not.
Cleared(row, mode, db) ==
    IF mode = "merge" /\ row.table \in NaturalKeys
    THEN {r \in db : ~(r.table = row.table /\ r.key = row.key /\ r.id # row.id)} ELSE db

\* Wrong: a row that is there stays as it is.
InsertOrIgnore(row, mode, state) ==
    LET room == Cleared(row, mode, state.db)
        db   == IF \E r \in room : r.table = row.table /\ r.id = row.id THEN room
                ELSE room \cup {row}
    IN  IF state.ok /\ ForeignKeys(db) /\ UniqueKeys(db) THEN Done(db) ELSE Failed

\* INSERT ... ON CONFLICT (id) DO UPDATE.
Upsert(row, mode, state) ==
    LET room == Cleared(row, mode, state.db)
        db   == {r \in room : ~(r.table = row.table /\ r.id = row.id)} \cup {row}
    IN  IF state.ok /\ ForeignKeys(room) /\ ForeignKeys(db) /\ UniqueKeys(db)
        THEN Done(db) ELSE Failed

Replayed(export, mode, db) ==
    LET after[k \in 0 .. Len(export)] ==
            IF k = 0 THEN IF mode = "clean_slate" THEN AllEmptied(db) ELSE Done(db)
            ELSE Upsert(export[k], mode, after[k - 1])
    IN  after[Len(export)]

RestoreOperatorData(e, mode) ==
    LET result == Replayed(exports[e], mode, data)
    IN  /\ data' = IF result.ok THEN result.db ELSE data
        /\ outcome' = [mode |-> mode, ok |-> result.ok]
        /\ UNCHANGED <<nextId, exports>>

(***************************************************************************)
(* The specification.                                                      *)
(***************************************************************************)
RestoreInit == data = {} /\ nextId = 1 /\ exports = <<>> /\ outcome = NoOutcome

RestoreNext ==
    \/ \E email \in Mailboxes : AddUser(email)
    \/ AddProperty \/ \E p \in data : AddUnit(p)
    \/ \E u \in data : RemoveUser(u) \/ \E p \in PortfolioIds : SetUserPortfolioAccess(u, p)
    \/ CreateOperatorExport
    \/ \E e \in DOMAIN exports, mode \in Modes : RestoreOperatorData(e, mode)
RestoreSpec == RestoreInit /\ [][RestoreNext]_orVars

(***************************************************************************)
(* Properties.                                                             *)
(***************************************************************************)
\* An id names one row, rows name what exists, and live rows differ in their
\* keys.
RestoreTypeOK ==
    /\ \A r \in data : r.table \in Tables /\ r.id < nextId
    /\ \A r, s \in data : r.id = s.id => r = s
    /\ ForeignKeys(data) /\ UniqueKeys(data)

\* What is on disk and what is in the database are rows of the same things,
\* whatever was restored over whatever: an id stands for one user or one
\* grant, in every export.
IdsKeepMeaning ==
    \A e \in DOMAIN exports : \A r \in RowsOf(exports[e]), s \in data :
        r.id = s.id => r.table = s.table /\ r.key = s.key /\ r.parent = s.parent

\* A live user is newer than the deleted ones with the same address: the
\* restore of an older export cannot bring one back beside a newer one.
NewestIsLive ==
    \A r, s \in data :
        r.table = UsersTable /\ s.table = UsersTable /\ r.key = s.key /\ r.live => s.id <= r.id

\* A restore takes place as a whole or not at all; afterwards every live row
\* of the export is in the database as it was exported.
TakesPlaceAsAWhole ==
    \A e \in DOMAIN exports, mode \in Modes :
        RestoreOperatorData(e, mode) =>
            IF outcome'.ok THEN {r \in RowsOf(exports[e]) : r.live} \subseteq data'
            ELSE data' = data

\* A clean slate that succeeds is the export and nothing else.
CleanSlateIsTheExport ==
    \A e \in DOMAIN exports :
        RestoreOperatorData(e, "clean_slate") /\ outcome'.ok => data' = RowsOf(exports[e])

\* The rows stay in order whatever is restored, and a restore leaves what was
\* exported.
RestoresWhole ==
    /\ [](RestoreTypeOK /\ IdsKeepMeaning /\ NewestIsLive)
    /\ [][TakesPlaceAsAWhole /\ CleanSlateIsTheExport]_orVars

\* docs/modules/backup.md on the clean slate: "Deletes existing operator
\* records in the backed-up tables before inserting snapshot records".  An
\* export of the operator's own can be restored.
CleanSlateSucceeds == outcome.mode = "clean_slate" => outcome.ok

\* The same page on merging: "Updates or inserts matching records from the
\* snapshot by primary key".
\* Refuted: see the README.
MergeSucceeds == outcome.mode = "merge" => outcome.ok

\* And: "Preserves newly created records added since the backup was taken".
\* Refuted: see the README.
MergePreservesNew ==
    [][\A e \in DOMAIN exports :
          RestoreOperatorData(e, "merge") /\ outcome'.ok =>
              {r \in data : r.live /\ \A s \in RowsOf(exports[e]) : s.id # r.id} \subseteq data']_orVars
=============================================================================
