------------------------------ MODULE MCLedger -------------------------------
(***************************************************************************)
(* The books of one operator on small instances: a behaviour keeps to one  *)
(* part of the books, which writes entries in the journal they all share,  *)
(* so that what Journal promises is checked of every writer.               *)
(*                                                                         *)
(*   journal       manual entries that pass or fail each validation        *)
(*   payables      bills of one and of two allocations, on a work order    *)
(*                 and off it, paid in parts by checks and by a credit     *)
(*   voids         one bill, voided documents and entries reversed by hand *)
(*   bank          receipts batched into deposits                          *)
(*   chart         the default accounts and what users make of them        *)
(*   transactions  transactions, with entries reversed by hand             *)
(*   rows          transactions alone                                      *)
(*   legacy        transactions that are older than the journal, backfilled *)
(*   templates     bills that recur by the month and by the week            *)
(***************************************************************************)
EXTENDS RecurringBills

CONSTANTS
    Parts,              \* the parts that the run looks at
    BankReceipts,       \* what is received into undeposited funds
    LegacyTables,       \* the transactions that are older than the journal
    InitialCharts,      \* what the creation of the operator inserts
    operating_cash, trust_cash, deposits_held, payable, expense, undeposited,
    rent, receivable, foreign, prop, other_prop, lease, vendor, other_vendor, work,
    NoAccount

VARIABLES part, deposits, transactions, chart

(***************************************************************************)
(* The accounts and the lines that users submit.                           *)
(***************************************************************************)
MCAccounts == {operating_cash, trust_cash, deposits_held, payable, expense,
               undeposited, rent, receivable}
MCForeign == {foreign}
MCTrustBank == {trust_cash}
MCDepositLiability == {deposits_held}
MCOperating == {operating_cash, expense, rent}
MCRefs == {prop, other_prop, lease, vendor}
MCManualSources == {"manual_journal", "reversal"}

Dr(a, n, r) == [account |-> a, debit |-> n, credit |-> 0, ref |-> r]
Cr(a, n, r) == [account |-> a, debit |-> 0, credit |-> n, ref |-> r]

MCManualLines == {
    \* accepted
    <<Dr(expense, 2, prop), Cr(payable, 1, prop), Cr(operating_cash, 1, lease)>>,
    <<Dr(trust_cash, 2, lease), Cr(deposits_held, 2, lease)>>,
    <<Dr(payable, 1, NoRef), Cr(trust_cash, 1, NoRef)>>,
    \* one line; unbalanced; both sides on a line; an account of another operator
    <<Dr(expense, 1, NoRef)>>,
    <<Dr(expense, 2, NoRef), Cr(payable, 1, NoRef)>>,
    <<[Dr(expense, 1, NoRef) EXCEPT !.credit = 1], [Cr(payable, 1, NoRef) EXCEPT !.debit = 1]>>,
    <<Dr(foreign, 1, NoRef), Cr(payable, 1, NoRef)>>,
    \* commingled: an expense out of trust, with and without the liability
    <<Dr(expense, 1, NoRef), Cr(trust_cash, 1, NoRef)>>,
    <<Dr(deposits_held, 1, NoRef), Cr(trust_cash, 1, NoRef),
      Dr(operating_cash, 1, NoRef), Cr(expense, 1, NoRef)>> }

\* A tenant's deposit is received into the operating account.
MCDepositLines == MCManualLines \cup
    {<<Dr(operating_cash, 1, lease), Cr(deposits_held, 1, lease)>>}

Receipt(amount, ref) == <<Dr(undeposited, amount, ref), Cr(rent, amount, ref)>>
\* One payment split between two properties, and a correction as a negative
\* line, which is rejected.
SplitReceipt == <<Dr(undeposited, 1, prop), Dr(undeposited, 1, other_prop), Cr(rent, 2, NoRef)>>
NegativeReceipt == <<Dr(undeposited, 2, NoRef), Dr(undeposited, -1, NoRef), Cr(rent, 1, NoRef)>>
MCReceipts == {Receipt(2, prop), Receipt(1, NoRef), NegativeReceipt}
MCSplitReceipts == MCReceipts \cup {SplitReceipt}

(***************************************************************************)
(* The instances of the parts.                                             *)
(***************************************************************************)
BillLine(amount, ref) == [account |-> expense, amount |-> amount, ref |-> ref]
BillOnWork(ref) ==
    [vendor |-> vendor, wo |-> work, status |-> "draft",
     lines |-> <<BillLine(1, ref), BillLine(1, NoRef)>>]
BillOffWork ==
    [vendor |-> other_vendor, wo |-> NoWorkOrder, status |-> "pending_approval",
     lines |-> <<BillLine(1, NoRef)>>]
VendorCredit == [vendor |-> vendor, account |-> expense, total |-> 2]

MCVendors == {vendor, other_vendor}
MCBanks == {operating_cash, trust_cash}
MCWorkOrders == {work}
MCBillInputs == {BillOnWork(NoRef), BillOffWork}
MCEdits == {Columns}
MCCreditInputs == {VendorCredit}

Payables == INSTANCE AccountsPayable WITH
    Refs <- {}, ManualLines <- {}, ManualSources <- {}, MaxEntries <- 4

Voids == INSTANCE AccountsPayable WITH
    Refs <- {prop}, ManualLines <- {}, ManualSources <- {}, MaxEntries <- 5,
    BillInputs <- {BillOnWork(prop), BillOffWork}, Edits <- {{"lines"}, {"vendor", "wo"}},
    MaxBills <- 1

Template(bill, due, unit, end, remaining) ==
    [bill |-> bill, due |-> due, end |-> end, unit |-> unit, count |-> 1,
     remaining |-> remaining]
Upkeep(ref) == [vendor |-> vendor, wo |-> NoWorkOrder, status |-> "draft",
                lines |-> <<BillLine(1, ref)>>]
MCTemplateInputs ==
    {Template(Upkeep(NoRef), Date(0, 31), "month", Date(6, 1), 3),
     Template(Upkeep(prop), Date(0, 25), "week", Date(1, 3), 0)}
MCRunDates == {Date(0, 31), Date(2, 1), Date(11, 1)}

Templates == INSTANCE RecurringBills WITH
    Refs <- {prop}, ManualLines <- {}, ManualSources <- {}, MaxEntries <- 2,
    BillInputs <- {Upkeep(prop), Upkeep(NoRef)}, MaxBills <- 5

Bank == INSTANCE BankDeposits WITH
    Refs <- {prop, other_prop}, ManualLines <- BankReceipts,
    ManualSources <- {"manual_journal"}, MaxEntries <- 5,
    UndepositedFunds <- undeposited, MaxDeposits <- 2

Mapped ==
    [accounts_receivable |-> receivable, operating_bank |-> operating_cash,
     trust_bank |-> trust_cash, security_deposit |-> deposits_held,
     rent |-> rent, repairs |-> expense]
Input(type, category, amount) ==
    [type |-> type, category |-> category, amount |-> amount, lease |-> lease]

\* Rejected: no amount, and trust money as the cost of a repair.
Rows == INSTANCE Transactions WITH
    Refs <- {lease}, ManualLines <- {}, ManualSources <- {}, MaxEntries <- 5,
    Income <- {rent}, Expense <- {expense}, Leases <- {lease}, MaxTransactions <- 3,
    Inputs <- {Input("charge", "rent", 2), Input("charge", "unknown", 1),
               Input("payment", "rent", -2), Input("expense", "other", 1),
               Input("refund", "rent", 1), Input("deposit_inflow", "security_deposit", 2),
               Input("deposit_return", "security_deposit", 1),
               Input("deposit_deduction", "repairs", 1),
               Input("charge", "rent", 0), Input("expense", "trust_bank", 1)}

RowsAndJournal == INSTANCE Transactions WITH
    Refs <- {lease}, ManualLines <- {<<Dr(receivable, 1, lease), Cr(rent, 1, lease)>>},
    ManualSources <- {"charge"}, MaxEntries <- 5,
    Income <- {rent}, Expense <- {expense}, Leases <- {lease}, MaxTransactions <- 3,
    Inputs <- {Input("charge", "rent", 2), Input("payment", "rent", -1),
               Input("deposit_deduction", "repairs", 1)}

\* Rows of the table before the journal came: nothing is posted of a row that
\* was deleted or has no amount.
Old(type, category, amount, ref, live) ==
    [type |-> type, category |-> category, amount |-> amount, lease |-> ref,
     reference |-> Rows!NoReference, entry |-> 0, live |-> live]
OldRows ==
    {<<Old("charge", "rent", 2, lease, TRUE), Old("expense", "repairs", 1, vendor, TRUE),
       Old("payment", "rent", 1, lease, TRUE)>>,
     <<Old("expense", "other", 2, vendor, FALSE), Old("expense", "other", 1, vendor, TRUE),
       Old("payment", "rent", 0, lease, TRUE)>>}
OldCharge == {<<Old("charge", "rent", 2, lease, TRUE)>>}

OldBooks == INSTANCE Backfill WITH
    Refs <- {lease, vendor}, ManualLines <- {}, ManualSources <- {}, MaxEntries <- 6,
    Income <- {rent}, Expense <- {expense}, Leases <- {lease}, MaxTransactions <- 4,
    Payees <- {vendor}, ReportMinimum <- 2,
    Inputs <- {Input("charge", "rent", 2), Input("payment", "rent", 1),
               [Input("expense", "repairs", 1) EXCEPT !.lease = vendor]}

\* Three of the thirty default accounts.  First-launch setup inserts none; the
\* route that provisions an operator inserts a list of its own.
Def(number, role, kind) == [number |-> number, role |-> role, kind |-> kind]
Numbers == {"2010", "2100", "4010", "2011", "6010"}
Roles == {"accounts_payable", "security_deposit", "rent",
          "security_deposits_liability", "rental_income"}
Kinds == {"AccountsPayable", "OtherCurrentLiability", "Income", "Expense"}

Chart == INSTANCE ChartOfAccounts WITH
    None <- NoAccount,
    Defaults <- <<Def("2010", "accounts_payable", "AccountsPayable"),
                  Def("2100", "security_deposit", "OtherCurrentLiability"),
                  Def("4010", "rent", "Income")>>,
    UserAccounts <- {Def("6010", NoAccount, "Expense"), Def(NoAccount, "rent", "Income")},
    Edits <- {[active |-> FALSE], [active |-> TRUE], [role |-> NoAccount],
              [number |-> "2011", role |-> "accounts_payable"]},
    MaxAccounts <- 5

Inserted(number, role, kind) ==
    [number |-> number, role |-> role, kind |-> kind, active |-> TRUE, system |-> TRUE]
SetUp == {<<>>}
Provisioned ==
    {<<Inserted("2010", "security_deposits_liability", "OtherCurrentLiability"),
       Inserted("4010", "rental_income", "Income")>>}

(***************************************************************************)
(* Behaviours.                                                             *)
(***************************************************************************)
DocumentVars == <<bills, checks, credits, actualCost>>
RecurringVars == <<templates, pass, generated>>
PayablesVars == <<DocumentVars, RecurringVars>>

ASSUME /\ PayablesAssumption /\ Payables!PayablesAssumption /\ Voids!PayablesAssumption
       /\ Bank!DepositsAssumption /\ Chart!ChartAssumption
       /\ Rows!TransactionsAssumption /\ RowsAndJournal!TransactionsAssumption
       /\ OldBooks!BackfillAssumption
       /\ Templates!PayablesAssumption /\ Templates!RecurringBillsAssumption

MCInit ==
    /\ part \in Parts
    /\ transactions \in IF part = "legacy" THEN LegacyTables ELSE {<<>>}
    /\ CASE part = "payables" -> Payables!Init
         [] part = "voids" -> Voids!Init
         [] part = "templates" -> Templates!Init
         [] part = "bank" -> Bank!Init
         [] part \in {"rows", "transactions"} -> Rows!Init
         [] part = "legacy" -> OldBooks!BFInit
         [] OTHER -> Init
    /\ bills = <<>> /\ checks = <<>> /\ credits = <<>> /\ actualCost = [w \in {work} |-> 0]
    /\ deposits = <<>> /\ templates = <<>> /\ pass = {} /\ generated = <<>>
    /\ Chart!Init

MCNext ==
    \/ /\ part = "journal" /\ Next
       /\ UNCHANGED <<part, PayablesVars, deposits, transactions, chart>>
    \/ /\ part = "payables" /\ Payables!APNext
       /\ UNCHANGED <<part, RecurringVars, deposits, transactions, chart>>
    \/ /\ part = "voids" /\ Voids!APNext
       /\ UNCHANGED <<part, RecurringVars, deposits, transactions, chart>>
    \/ /\ part = "templates" /\ Templates!RBNext
       /\ UNCHANGED <<part, deposits, transactions, chart>>
    \/ /\ part = "bank" /\ Bank!BDNext
       /\ UNCHANGED <<part, PayablesVars, transactions, chart>>
    \/ /\ part = "rows" /\ Rows!TxNextThroughTransactions
       /\ UNCHANGED <<part, PayablesVars, deposits, chart>>
    \/ /\ part = "transactions" /\ RowsAndJournal!TxNext
       /\ UNCHANGED <<part, PayablesVars, deposits, chart>>
    \/ /\ part = "legacy" /\ OldBooks!BFNext
       /\ UNCHANGED <<part, PayablesVars, deposits, chart>>
    \/ /\ part = "chart" /\ Chart!Next
       /\ UNCHANGED <<part, vars, PayablesVars, deposits, transactions>>

MCSpec == MCInit /\ [][MCNext]_<<part, vars, PayablesVars, deposits, transactions, chart>>

(***************************************************************************)
(* Properties: those of the parts, put together.                           *)
(***************************************************************************)
\* However receipts are batched, batches voided and batched again: a receipt is
\* in one deposit in force, every deposit has its entry, and what 1030 holds is
\* the list of receipts that await deposit.
DepositsAgree ==
    part = "bank" =>
        /\ Bank!BDTypeOK /\ Bank!DepositedOnce
        /\ Bank!PostingsMatchDeposits /\ Bank!UndepositedAgrees

\* Rows of transactions and entries of the journal mirror each other whoever
\* reverses an entry first; and while entries are reversed through their
\* transactions alone, what a tenant owes is what the rows left say, and what a
\* vendor was paid is reported once, before and after a backfill.
RowsAgree ==
    /\ part = "transactions" => RowsAndJournal!TxTypeOK /\ RowsAndJournal!RowsMirrorEntries
    /\ part = "rows" => Rows!TxTypeOK /\ Rows!RowsMirrorEntries /\ Rows!LedgerFollowsRows
    /\ part = "legacy" =>
         /\ OldBooks!BFTypeOK /\ OldBooks!RowsMirrorEntries /\ OldBooks!LedgerFollowsRows
         /\ OldBooks!PaymentsReportedOnce

\* The subledgers tie out: what awaits deposit and what tenants owe, as the
\* journal has it, is what the documents say.  However often lookups seed the
\* chart that they post to, no default number is in it twice.
SubledgersAgree ==
    /\ part = "payables" => Payables!APTypeOK
    /\ DepositsAgree /\ RowsAgree
    /\ Chart!TypeOK /\ Chart!DefaultsSeededOnce

\* No entry that takes deposits of tenants, and so owes them more, puts them in
\* operating cash: docs/modules/accounting.md says that postEntry rejects it.
DepositsStayInTrust ==
    \A i \in DOMAIN entries :
        NetDebit(entries[i].lines, DepositLiability) < 0 =>
            NetDebit(entries[i].lines, {operating_cash}) <= 0

\* Once a lookup has seeded the chart, vendor bills, checks and credits post
\* the payable to an account of type AccountsPayable, as 2010 is said to be.
PayablesControlAccount ==
    Chart!Missing = <<>> =>
        \A i \in Chart!ControlAccounts("2010", "accounts_payable") :
            chart[i].kind = "AccountsPayable"

\* The balance of 1030 is the list of receipts that await deposit.
UndepositedAgrees == part = "bank" => Bank!UndepositedAgrees
=============================================================================
