---------------------------- MODULE BulkIngestion ----------------------------
(***************************************************************************)
(* A batch of items created by one request (api/bulk.ts).  All items are   *)
(* checked before anything is written; then each is created by its own     *)
(* repository call inside one transaction of the batch.  The process may   *)
(* die between any two writes, and a client that got no answer may send    *)
(* its batch again.                                                        *)
(***************************************************************************)
EXTENDS Naturals, Sequences, FiniteSets

CONSTANTS
    Batches,            \* what clients send: sequences of items
    UniqueNames,        \* the resource has an index of names (amenities)
    MaxItems,           \* MAX_BULK_ITEMS
    MaxTries            \* bound on the number of requests

\* An item has a name, is well formed or not, and comes with parts (the
\* contacts of a lease), of which one may be refused by the database.
BulkAssumption ==
    /\ MaxItems \in Nat /\ MaxTries \in Nat /\ UniqueNames \in BOOLEAN
    /\ \A b \in Batches :
          /\ Len(b) \in Nat /\ DOMAIN b = 1 .. Len(b)
          /\ \A i \in DOMAIN b : /\ b[i].fits \in BOOLEAN /\ b[i].parts \in Nat
                                /\ b[i].refused \in 0 .. b[i].parts

VARIABLES
    stored,             \* rows that are committed
    calls,              \* rows of the open transaction and of the item in it
    batch,              \* what each request asked for
    at,                 \* item and part the request has come to
    pc, answer

bulkVars == <<stored, calls, batch, at, pc, answer>>

Try == Len(batch)
Asked == batch[Try]
Item == Asked[at.item]
ItemRow(n, i, p) == [try |-> n, item |-> i, part |-> p]
AllRows(n) == UNION {{ItemRow(n, i, p) : p \in 0 .. batch[n][i].parts} : i \in DOMAIN batch[n]}
StoredOf(n) == {r \in stored : r.try = n}

NoAnswer == [kind |-> "none", items |-> {}]

BulkInit ==
    /\ stored = {} /\ calls = <<>> /\ batch = <<>>
    /\ at = [item |-> 0, part |-> 0] /\ pc = "idle" /\ answer = NoAnswer

\* validateResourceItem looks at every item and reports all that are wrong.
Invalid(b) == {i \in DOMAIN b : ~b[i].fits}

\* handleBulkIngestion: sizes and forms are refused before the transaction.
Submit(b) ==
    /\ pc \in {"idle", "answered"} /\ Try < MaxTries
    /\ batch' = Append(batch, b)
    /\ LET refuse(items) == /\ pc' = "answered" /\ UNCHANGED calls
                            /\ answer' = [kind |-> "error", items |-> items]
       IN  IF Len(b) = 0 \/ Len(b) > MaxItems THEN refuse({1})
           ELSE IF Invalid(b) # {} THEN refuse(Invalid(b))
           ELSE pc' = "item" /\ calls' = <<{}>> /\ answer' = NoAnswer
    /\ at' = [item |-> 1, part |-> 0]
    /\ UNCHANGED stored

\* The repository call of the item opens its own level of the transaction.
OpenItem ==
    /\ pc = "item" /\ at.item <= Len(Asked)
    /\ calls' = Append(calls, {}) /\ pc' = "row"
    /\ UNCHANGED <<stored, batch, at, answer>>

NameOf(r) == batch[r.try][r.item].name
Taken(name) == UniqueNames /\ \E r \in stored \cup calls[1] : r.part = 0 /\ NameOf(r) = name

Write(p) ==
    /\ calls' = [calls EXCEPT ![2] = @ \cup {ItemRow(Try, at.item, p)}]
    /\ at' = [at EXCEPT !.part = p + 1] /\ pc' = "parts"
    /\ UNCHANGED <<stored, batch, answer>>

\* The item's own level is rolled back, and the error gets its index.
Fail ==
    /\ calls' = <<calls[1]>> /\ pc' = "failed"
    /\ answer' = [kind |-> "error", items |-> {at.item}]
    /\ UNCHANGED <<stored, batch, at>>

WriteRow == pc = "row" /\ IF Taken(Item.name) THEN Fail ELSE Write(0)

WritePart ==
    /\ pc = "parts" /\ at.part <= Item.parts
    /\ IF at.part = Item.refused THEN Fail ELSE Write(at.part)

CloseItem ==
    /\ pc = "parts" /\ at.part > Item.parts
    /\ calls' = <<calls[1] \cup calls[2]>>
    /\ at' = [item |-> at.item + 1, part |-> 0] /\ pc' = "item"
    /\ UNCHANGED <<stored, batch, answer>>

Commit ==
    /\ pc = "item" /\ at.item > Len(Asked)
    /\ stored' = stored \cup calls[1] /\ calls' = <<>> /\ pc' = "committed"
    /\ UNCHANGED <<batch, at, answer>>

\* Wrong: an error ends the request and the transaction is committed.
KeepWhatFits ==
    /\ pc = "failed" /\ stored' = stored \cup calls[1] /\ calls' = <<>> /\ pc' = "answered"
    /\ UNCHANGED <<batch, at, answer>>

\* The error leaves the transaction of the batch, which is rolled back.
Rollback ==
    /\ pc = "failed" /\ calls' = <<>> /\ pc' = "answered"
    /\ UNCHANGED <<stored, batch, at, answer>>

Reply ==
    /\ pc = "committed" /\ pc' = "answered"
    /\ answer' = [kind |-> "created", items |-> DOMAIN Asked]
    /\ UNCHANGED <<stored, calls, batch, at>>

\* The process dies; nobody is answered and the transaction is gone.
Die ==
    /\ pc \notin {"idle", "answered"}
    /\ calls' = <<>> /\ pc' = "idle" /\ answer' = NoAnswer
    /\ UNCHANGED <<stored, batch, at>>

Handling == OpenItem \/ WriteRow \/ WritePart \/ CloseItem \/ Commit \/ Rollback \/ Reply
BulkNext == (\E b \in Batches : Submit(b)) \/ Handling \/ Die

\* The handler is synchronous code: while the process lives it runs on.
BulkSpec == BulkInit /\ [][BulkNext]_bulkVars /\ WF_bulkVars(Handling)

(***************************************************************************)
(* Properties.                                                             *)
(***************************************************************************)
\* A batch is written inside one transaction with at most one item in it, and
\* rows belong to items that were asked for.
BulkTypeOK ==
    /\ batch \in Seq(Batches) /\ Len(calls) <= 2
    /\ pc \in {"idle", "item", "row", "parts", "failed", "committed", "answered"}
    /\ \A r \in stored : r.try \in DOMAIN batch /\ r \in AllRows(r.try)
    /\ pc \in {"item", "row", "parts", "failed"} <=> calls # <<>>
    /\ \A i \in DOMAIN calls : \A r \in calls[i] : r.try = Try /\ r \in AllRows(Try)

\* Of every batch ever sent, all rows with all their parts are stored or none,
\* also after the process died in the middle of it.
WholeBatches == \A n \in DOMAIN batch : StoredOf(n) \in {{}, AllRows(n)}

\* A client that is told of an error can send its batch again: none of it was
\* stored.  One that is told of success finds all of it.
AnswersAreTrue ==
    pc = "answered" =>
       StoredOf(Try) = IF answer.kind = "created" THEN AllRows(Try) ELSE {}

\* The items an error names are those to mend: without the first one named
\* the batch would have come further.
ErrorsNameTheItem ==
    pc = "failed" =>
       \A i \in answer.items :
          /\ i \in DOMAIN Asked
          /\ \/ Asked[i].refused > 0
             \/ UniqueNames /\ \/ \E r \in stored : r.part = 0 /\ NameOf(r) = Asked[i].name
                               \/ \E j \in 1 .. i - 1 : Asked[j].name = Asked[i].name
          /\ \A j \in 1 .. i - 1 : Asked[j].refused = 0

\* A request is answered unless the process dies.
RequestsEnd == pc = "item" ~> pc \in {"answered", "idle"}

\* The writes of a batch keep the promise of withTransaction.
Rows == {ItemRow(n, i, p) : n \in 1 .. MaxTries, i \in 1 .. MaxItems,
                        p \in UNION {UNION {0 .. b[k].parts : k \in DOMAIN b} : b \in Batches}}
Calls == INSTANCE AtomicCalls WITH Values <- Rows
KeepsTransactions == Calls!CallsSpec

\* Both: a batch is stored as a whole or not at all, and the answer says which.
BatchesAreWhole ==
    /\ [](BulkTypeOK /\ WholeBatches /\ AnswersAreTrue /\ ErrorsNameTheItem)
    /\ KeepsTransactions
=============================================================================
