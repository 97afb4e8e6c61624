------------------------- MODULE NestedTransactions ---------------------------
(***************************************************************************)
(* withTransaction of database/client.ts over the transactions and         *)
(* savepoints of SQLite: one counter for the whole process decides whether *)
(* a call begins a transaction or sets a savepoint.                        *)
(***************************************************************************)
EXTENDS Naturals, Sequences, SequencesExt

CONSTANTS
    Values,             \* what statements insert
    MaxDepth,           \* bound on the nesting of calls
    CallersCatch        \* TRUE: a caller may catch the error of a call inside its own;
                        \* FALSE: an error may also be one that ends the transaction

VARIABLES
    db,                 \* SQLite: [open, stored, content, saves]
    transactionDepth,
    frames,             \* the calls in progress: [savepoint, wrote (history)]
    unwinding           \* an error is on its way through the calls

ntVars == <<db, transactionDepth, frames, unwinding>>

NestedAssumption == MaxDepth \in Nat \ {0} /\ CallersCatch \in BOOLEAN

(***************************************************************************)
(* SQLite.  A savepoint remembers the content; statements outside of a     *)
(* transaction store what they write at once.                              *)
(***************************************************************************)
SetSavepoint(d, name) ==
    [d EXCEPT !.saves = Append(@, [name |-> name, content |-> d.content])]
Newest(d, name) == CHOOSE i \in DOMAIN d.saves :
    d.saves[i].name = name /\ \A j \in DOMAIN d.saves : d.saves[j].name = name => j <= i
HasSavepoint(d, name) == \E i \in DOMAIN d.saves : d.saves[i].name = name

Release(d, name) == [d EXCEPT !.saves = SubSeq(@, 1, Newest(d, name) - 1)]
RollbackTo(d, name) ==
    [d EXCEPT !.content = d.saves[Newest(d, name)].content,
              !.saves = SubSeq(@, 1, Newest(d, name))]
Commit(d) == [d EXCEPT !.open = FALSE, !.stored = d.content, !.saves = <<>>]
Rollback(d) == [d EXCEPT !.open = FALSE, !.content = d.stored, !.saves = <<>>]
Insert(d, v) ==
    IF d.open THEN [d EXCEPT !.content = @ \cup {v}]
    ELSE [d EXCEPT !.content = @ \cup {v}, !.stored = @ \cup {v}]

(***************************************************************************)
(* withTransaction.                                                        *)
(***************************************************************************)
\* isTopLevel and savepointName are taken from the depth at the entry.
IsTopLevel(frame) == frame.savepoint = 0

Enter ==
    /\ ~unwinding
    /\ Len(frames) < MaxDepth
    /\ db' = IF transactionDepth = 0 THEN [db EXCEPT !.open = TRUE]
             ELSE SetSavepoint(db, transactionDepth)
    /\ frames' = Append(frames, [savepoint |-> transactionDepth, wrote |-> {}])
    /\ transactionDepth' = transactionDepth + 1
    /\ UNCHANGED unwinding

Statement(v) ==
    /\ ~unwinding
    /\ frames # <<>>
    /\ v \notin db.content
    /\ \A i \in DOMAIN frames : v \notin frames[i].wrote
    /\ db' = Insert(db, v)
    /\ frames' = [frames EXCEPT ![Len(frames)].wrote = @ \cup {v}]
    /\ UNCHANGED <<transactionDepth, unwinding>>

\* A constraint, or an error of the code between the statements.
Error == ~unwinding /\ frames # <<>> /\ unwinding' = TRUE
         /\ UNCHANGED <<db, transactionDepth, frames>>

\* A full disk or a failed read: SQLite has rolled everything back itself.
DiskError ==
    /\ ~CallersCatch
    /\ ~unwinding /\ frames # <<>> /\ db.open
    /\ db' = Rollback(db)
    /\ unwinding' = TRUE
    /\ UNCHANGED <<transactionDepth, frames>>

\* The finally clause.
Left == transactionDepth' = IF transactionDepth = 0 THEN 0 ELSE transactionDepth - 1

Popped(wrote) ==
    IF Len(frames) = 1 THEN <<>>
    ELSE [Front(frames) EXCEPT ![Len(frames) - 1].wrote = @ \cup wrote]

Leave ==
    /\ ~unwinding
    /\ frames # <<>>
    /\ LET frame == Last(frames)
       IN  /\ db' = IF IsTopLevel(frame) THEN Commit(db) ELSE Release(db, frame.savepoint)
           /\ frames' = Popped(frame.wrote)
    /\ Left
    /\ UNCHANGED unwinding

\* Wrong: a savepoint is only released after an error.
UndoneByRelease(frame) ==
    IF IsTopLevel(frame) THEN Rollback(db)
    ELSE IF HasSavepoint(db, frame.savepoint) THEN Release(db, frame.savepoint) ELSE db

\* The catch clause, whose own errors are ignored.
Undone(frame) ==
    IF IsTopLevel(frame) THEN Rollback(db)
    ELSE IF HasSavepoint(db, frame.savepoint)
         THEN Release(RollbackTo(db, frame.savepoint), frame.savepoint) ELSE db

\* The outermost error ends in the handler of the request; another one is
\* caught by the caller or not.
Unwind ==
    /\ unwinding
    /\ frames # <<>>
    /\ db' = Undone(Last(frames))
    /\ frames' = Popped({})
    /\ Left
    /\ unwinding' \in (IF Len(frames) = 1 \/ CallersCatch THEN {FALSE} ELSE {})
                      \cup (IF Len(frames) > 1 THEN {TRUE} ELSE {})

\* COMMIT itself fails: the error goes to the catch clause of the same call.
CommitFails ==
    /\ ~unwinding
    /\ Len(frames) = 1
    /\ unwinding' = TRUE
    /\ UNCHANGED <<db, transactionDepth, frames>>

\* closeDatabase of a restore, between requests; or the process dies.
Close ==
    /\ frames = <<>>
    /\ transactionDepth' = 0
    /\ UNCHANGED <<db, frames, unwinding>>
Crash ==
    /\ db' = Rollback(db)
    /\ transactionDepth' = 0 /\ frames' = <<>> /\ unwinding' = FALSE

(***************************************************************************)
(* The specification.                                                      *)
(***************************************************************************)
NTInit ==
    /\ db = [open |-> FALSE, stored |-> {}, content |-> {}, saves |-> <<>>]
    /\ transactionDepth = 0 /\ frames = <<>> /\ unwinding = FALSE
NTNext ==
    \/ Enter \/ (\E v \in Values : Statement(v)) \/ Error \/ DiskError
    \/ Leave \/ Unwind \/ CommitFails \/ Close \/ Crash
NTSpec == NTInit /\ [][NTNext]_ntVars

(***************************************************************************)
(* Properties.                                                             *)
(***************************************************************************)
\* The counter counts the calls in progress, whatever they end with.
NTTypeOK ==
    /\ transactionDepth = Len(frames)
    /\ \A i \in DOMAIN frames : frames[i].savepoint = i - 1

\* A transaction is open as long as there are calls, with a savepoint for every
\* inner one, unless SQLite has ended it; between requests there is none.
SavepointsInStep ==
    /\ frames = <<>> => ~db.open /\ db.content = db.stored /\ db.saves = <<>> /\ ~unwinding
    /\ db.open /\ ~unwinding => Len(db.saves) = Len(frames) - 1

Calls == INSTANCE AtomicCalls WITH
    stored <- db.stored, calls <- [i \in DOMAIN frames |-> frames[i].wrote]

\* Calls are atomic: however they are nested, fail and are caught, the
\* database ends up with what returned from the inside out, and the counter
\* and the savepoints keep step with the calls.
CallsAreAtomic ==
    /\ Calls!CallsSpec
    /\ [](NTTypeOK /\ SavepointsInStep)
=============================================================================
