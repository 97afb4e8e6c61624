------------------------------ MODULE Backfill -------------------------------
(***************************************************************************)
(* Transactions that are older than the journal:                           *)
(* JournalService.backfillLegacyTransactions of                            *)
(* modules/accounting/backend/journal.ts, which gives them the entries     *)
(* that they lack, and the 1099 report, which reads what vendors were paid *)
(* from both books.  New transactions are posted, old and new ones are     *)
(* deleted, before and after a backfill; it may be asked for at any time   *)
(* and as often as users like.                                             *)
(***************************************************************************)
EXTENDS Transactions

CONSTANTS
    LegacyTables,       \* the tables that the migration to the journal finds
    Payees,             \* contacts; an expense names its payee where others
                        \* name their lease
    ReportMinimum       \* what a vendor is paid before a 1099 is due

\* The columns of the old table, in which amounts are not checked.
LegacyRows == [type : Types, category : STRING, amount : Nat, lease : Refs \cup {NoRef},
               reference : {NoReference}, entry : {0}, live : BOOLEAN]

BackfillAssumption ==
    /\ TransactionsAssumption
    /\ Payees \subseteq Refs \ Leases
    /\ ReportMinimum \in Nat \ {0}
    /\ LegacyTables \subseteq Seq(LegacyRows)

(***************************************************************************)
(* Operations.                                                             *)
(***************************************************************************)
\* The rows that a backfill posts; it skips the others.
Due ==
    {t \in DOMAIN transactions :
        transactions[t].live /\ ~Posted(t) /\ transactions[t].amount > 0}

LegacyLines(row) ==
    Transfer(DebitAccount(row.type, row.category),
             CreditAccount(row.type, row.category, NoAccount), row.amount, row.lease)

\* The place of a row among those that are due, in the order of their dates.
Place(t) == Cardinality({s \in Due : s <= t})

BackfilledEntry(k) ==
    LET t == CHOOSE row \in Due : Place(row) = k
    IN  [NewEntry(transactions[t].type, t, LegacyLines(transactions[t]))
           EXCEPT !.number = NextNumber + k - 1]

\* All rows are posted in one transaction: one that does not pass stops all.
BackfillRows ==
    /\ Due # {}
    /\ Len(entries) + Cardinality(Due) <= MaxEntries
    /\ \A t \in Due : MayPost(LegacyLines(transactions[t]), TRUE)
    /\ entries' = entries \o [k \in 1 .. Cardinality(Due) |-> BackfilledEntry(k)]
    /\ transactions' =
         [t \in DOMAIN transactions |->
            IF t \in Due
            THEN [transactions[t] EXCEPT !.entry = Len(entries) + Place(t)]
            ELSE transactions[t]]
    /\ UNCHANGED liveRefs

(***************************************************************************)
(* The 1099 report.                                                        *)
(***************************************************************************)
JournalPaid(v) == Total([i \in DOMAIN entries |-> NetOf(entries[i].lines, Expense, v)])

ExpensesTo(v) ==
    {t \in DOMAIN transactions :
        /\ transactions[t].live /\ transactions[t].type = "expense"
        /\ transactions[t].lease = v}

\* Rows that have an entry are in the journal's total already.
RowsPaid(v) == TotalOf({t \in ExpensesTo(v) : ~Posted(t)})

VendorTotal(v) == JournalPaid(v) + RowsPaid(v)
Qualifying == {v \in Payees \cap liveRefs : VendorTotal(v) >= ReportMinimum}

(***************************************************************************)
(* The specification.                                                      *)
(***************************************************************************)
BFInit ==
    /\ Init
    /\ transactions \in LegacyTables

BFNext == BackfillRows \/ TxNextThroughTransactions
BFSpec == BFInit /\ [][BFNext]_TxVars

(***************************************************************************)
(* Properties.                                                             *)
(***************************************************************************)
\* A row names an entry of the ledger or none.
BFTypeOK ==
    /\ TypeOK
    /\ \A t \in DOMAIN transactions :
          /\ transactions[t].type \in Types
          /\ transactions[t].amount \in Nat
          /\ transactions[t].entry \in {0} \cup DOMAIN entries

\* Whether or not its row has been backfilled, and whatever has been deleted
\* since, a payment to a vendor is in the report once.
PaymentsReportedOnce ==
    /\ \A v \in Payees : VendorTotal(v) = TotalOf(ExpensesTo(v))
    /\ Qualifying = {v \in Payees \cap liveRefs : TotalOf(ExpensesTo(v)) >= ReportMinimum}

\* The receivable of a tenant, once the journal decides it, counts every charge
\* and payment: CHANGELOG.md says that the migration to the journal backfilled
\* the rows that there were.  Refuted: see the README.
LegacyCounted ==
    \A l \in Leases :
        OnReceivable(l) # {} =>
            \A t \in LeaseTransactions(l) :
                transactions[t].type \in {"charge", "payment"} => Posted(t)
=============================================================================
