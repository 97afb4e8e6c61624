---------------------------- MODULE Transactions -----------------------------
(***************************************************************************)
(* The single-entry transactions and their mirror in the general ledger:   *)
(* AccountingRepository.createTransaction and deleteTransaction of         *)
(* modules/accounting/backend/repository.ts, the balances that are read    *)
(* from either book, and the Schedule E report.  Users also reach the      *)
(* journal directly, and soft-delete what its lines name.                  *)
(***************************************************************************)
EXTENDS Journal

CONSTANTS
    NoAccount,          \* a charge whose account the caller left open
    Mapped,             \* category_mapping -> the active account that has it
    Income, Expense,    \* accounts by account_type (Expense includes COGS)
    Leases,             \* the leases of the operator
    Inputs,             \* what users post: [type, category, amount, lease]
    MaxTransactions     \* bound on the number of transactions

VARIABLE transactions   \* the table; a row's position is its id

Types == {"charge", "payment", "expense", "refund", "deposit_inflow",
          "deposit_return", "deposit_deduction"}
Required == {"accounts_receivable", "operating_bank", "trust_bank",
             "security_deposit", "rent", "repairs"}
NoReference == [kind |-> "none", key |-> 0, month |-> 0]

TransactionsAssumption ==
    /\ Required \subseteq DOMAIN Mapped
    /\ \A c \in DOMAIN Mapped : Mapped[c] \in Accounts
    /\ Income \subseteq Accounts /\ Expense \subseteq Accounts
    /\ Leases \subseteq Refs
    /\ NoAccount \notin AccountIds
    /\ \A input \in Inputs :
          input.type \in Types /\ input.amount \in Int /\ input.lease \in Refs \cup {NoRef}
    /\ MaxTransactions \in Nat

(***************************************************************************)
(* The entry that a transaction posts.                                     *)
(***************************************************************************)
AR == Mapped["accounts_receivable"]
MappedOr(category, fallback) ==
    Mapped[IF category \in DOMAIN Mapped THEN category ELSE fallback]

DebitAccount(type, category) ==
    CASE type \in {"charge", "refund"} -> AR
      [] type = "payment" -> Mapped["operating_bank"]
      [] type = "expense" -> MappedOr(category, "repairs")
      [] type = "deposit_inflow" -> Mapped["trust_bank"]
      [] type \in {"deposit_return", "deposit_deduction"} -> Mapped["security_deposit"]

\* gl is the account that the caller chose for a charge, or NoAccount.
CreditAccount(type, category, gl) ==
    CASE type = "charge" /\ gl # NoAccount -> gl
      [] type = "charge" /\ gl = NoAccount -> MappedOr(category, "rent")
      [] type \in {"payment", "deposit_deduction"} -> AR
      [] type \in {"expense", "refund"} -> Mapped["operating_bank"]
      [] type = "deposit_inflow" -> Mapped["security_deposit"]
      [] type = "deposit_return" -> Mapped["trust_bank"]

Transfer(debit, credit, amount, lease) ==
    << [account |-> debit, debit |-> amount, credit |-> 0, ref |-> lease],
       [account |-> credit, debit |-> 0, credit |-> amount, ref |-> lease] >>

(***************************************************************************)
(* Operations.                                                             *)
(***************************************************************************)
Row(type, category, amount, lease, reference) ==
    [type |-> type, category |-> category, amount |-> amount, lease |-> lease,
     reference |-> reference, entry |-> Len(entries) + 1, live |-> TRUE]

\* Post an entry and insert the row that mirrors it, in one transaction.
PostWithRow(source, lines, row) ==
    /\ Len(transactions) < MaxTransactions
    /\ PostEntry(source, Len(transactions) + 1, lines)
    /\ transactions' = Append(transactions, row)

Magnitude(amount) == IF amount < 0 THEN -amount ELSE amount

CreateTransaction(type, category, amount, lease, reference, gl) ==
    /\ Magnitude(amount) > 0
    /\ PostWithRow(type,
                   Transfer(DebitAccount(type, category),
                            CreditAccount(type, category, gl), Magnitude(amount), lease),
                   Row(type, category, Magnitude(amount), lease, reference))

\* Rows that are older than the journal have no entry until they are backfilled.
Posted(t) == transactions[t].entry # 0

\* Wrong: the entry of the row is left in force.
DeleteRowAlone(t) ==
    /\ t \in DOMAIN transactions
    /\ transactions[t].live
    /\ UNCHANGED entries
    /\ transactions' = [transactions EXCEPT ![t].live = FALSE]

DeleteTransaction(t) ==
    /\ t \in DOMAIN transactions
    /\ transactions[t].live
    /\ IF Posted(t) /\ entries[transactions[t].entry].reversedBy = 0
       THEN ReverseEntry(transactions[t].entry)
       ELSE UNCHANGED entries
    /\ transactions' = [transactions EXCEPT ![t].live = FALSE]

(***************************************************************************)
(* Reports.                                                                *)
(***************************************************************************)
LeaseTransactions(l) ==
    {t \in DOMAIN transactions : transactions[t].live /\ transactions[t].lease = l}

TotalOf(rows) ==
    Total([t \in DOMAIN transactions |->
             IF t \in rows THEN transactions[t].amount ELSE 0])
OfTypes(rows, types) == {t \in rows : transactions[t].type \in types}

\* ledger.ts: the running balance of a tenant over single entries.
TenantBalance(l) ==
    LET rows == LeaseTransactions(l)
    IN  TotalOf(OfTypes(rows, {"charge", "deposit_return", "deposit_deduction"}))
          - TotalOf(OfTypes(rows, {"payment", "refund"}))

OnReceivable(l) ==
    {i \in DOMAIN entries :
        \E k \in DOMAIN entries[i].lines :
            entries[i].lines[k].account = AR /\ entries[i].lines[k].ref = l}

\* What the lines that name l put on the accounts S.
NetOf(lines, S, l) ==
    Total([k \in DOMAIN lines |->
             IF lines[k].account \in S /\ lines[k].ref = l
             THEN lines[k].debit - lines[k].credit ELSE 0])
NetReceivable(l) == Total([i \in DOMAIN entries |-> NetOf(entries[i].lines, {AR}, l)])

\* The journal decides as soon as it has a line; the single entries are the
\* fallback for data that was never backfilled.
LeaseBalance(l) ==
    IF OnReceivable(l) # {} THEN NetReceivable(l) ELSE TenantBalance(l)

\* Cash-basis income when the accrual income adds up to nothing.
IncomeLines == {i \in DOMAIN entries : Touches(entries[i].lines, Income)}
AccruedIncome == -Total([i \in DOMAIN entries |-> NetDebit(entries[i].lines, Income)])
Payments == {t \in DOMAIN transactions :
                transactions[t].live /\ transactions[t].type = "payment"}
ReportedIncome ==
    IF AccruedIncome = 0 THEN TotalOf(Payments) ELSE AccruedIncome

(***************************************************************************)
(* The specification.                                                      *)
(***************************************************************************)
CreateFromRequest(input) ==
    /\ CreateTransaction(input.type, input.category, input.amount, input.lease,
                         NoReference, NoAccount)
    /\ UNCHANGED liveRefs
DeleteFromRequest(t) == DeleteTransaction(t) /\ UNCHANGED liveRefs
UseJournal ==
    /\ \/ \E source \in ManualSources, lines \in ManualLines : PostManual(source, lines)
       \/ \E i \in DOMAIN entries : ReverseManual(i)
    /\ UNCHANGED transactions
DeleteReference == (\E r \in Refs : SoftDelete(r)) /\ UNCHANGED transactions

TxInit == Init /\ transactions = <<>>
TxNext ==
    \/ \E input \in Inputs : CreateFromRequest(input)
    \/ \E t \in DOMAIN transactions : DeleteFromRequest(t)
    \/ UseJournal
    \/ DeleteReference
TxVars == <<entries, liveRefs, transactions>>
TxSpec == TxInit /\ [][TxNext]_TxVars

\* Users leave the entries of transactions to the transactions.
TxNextThroughTransactions ==
    \/ \E input \in Inputs : CreateFromRequest(input)
    \/ \E t \in DOMAIN transactions : DeleteFromRequest(t)
    \/ DeleteReference
TxSpecThroughTransactions == TxInit /\ [][TxNextThroughTransactions]_TxVars

(***************************************************************************)
(* Properties.                                                             *)
(***************************************************************************)
\* Rows hold positive cents and name an entry of the ledger.
TxTypeOK ==
    /\ TypeOK
    /\ \A t \in DOMAIN transactions :
          /\ transactions[t].type \in Types
          /\ transactions[t].amount \in Nat \ {0}
          /\ transactions[t].entry \in DOMAIN entries

\* A row and an entry with a source_id are each other's mirror: the entry
\* moves the row's amount, no entry belongs to two rows, and the entry of a
\* deleted row is reversed, whoever reversed it first.
RowsMirrorEntries ==
    /\ \A t \in {row \in DOMAIN transactions : Posted(row)} :
          LET entry == entries[transactions[t].entry]
          IN  /\ entry.doc = t /\ ~IsReversal(transactions[t].entry)
              /\ Debits(entry.lines) = transactions[t].amount
              /\ ~transactions[t].live => entry.reversedBy # 0
    /\ \A i \in DOMAIN entries :
          entries[i].doc # 0 /\ ~IsReversal(i) => transactions[entries[i].doc].entry = i

\* As long as entries are reversed through their transactions only, what the
\* ledger says a tenant owes is what the rows that it has and that are left say:
\* charges and refunds less payments and deductions from the deposit.
LedgerFollowsRows ==
    \A l \in Leases :
        LET rows == {t \in LeaseTransactions(l) : Posted(t)}
        IN  NetReceivable(l) = TotalOf(OfTypes(rows, {"charge", "refund"}))
                                 - TotalOf(OfTypes(rows, {"payment", "deposit_deduction"}))

\* The balance that is shown and the formula over single entries, which the
\* documentation gives side by side and the exported statement uses, agree.
\* Refuted: see the README.
BalanceFormulasAgree ==
    \A l \in Leases : LeaseBalance(l) = TenantBalance(l)

\* What the comment on deleteTransaction says: it reverses a transaction and
\* its journal entry, so once it is done the entry is not in force.
\* Refuted: see the README.
DeletionUndoes ==
    [][\A t \in DOMAIN transactions :
          transactions[t].live /\ ~transactions'[t].live
            => ~Stands'[transactions[t].entry]]_TxVars

\* Schedule E turns to cash-basis payments only where no income was accrued.
\* Refuted: see the README.
CashBasisWithoutIncome ==
    IncomeLines # {} => ReportedIncome = AccruedIncome
=============================================================================
