-------------------------- MODULE AccountsPayable ---------------------------
(***************************************************************************)
(* The payables subledger of one operator and the general ledger it posts  *)
(* to: vendor bills (modules/accounting/backend/ap.ts), vendor checks      *)
(* (checks.ts), vendor credits (vendor_credits.ts), the actual cost that   *)
(* bills roll up to on a work order, and the route that reverses any       *)
(* journal entry, those of these documents included.                       *)
(*                                                                         *)
(* A document's id is its position in its table, and the doc of its        *)
(* journal entries.  A vector over the bills stands for the allocation     *)
(* rows of a check or a credit: the cents it puts on each bill.            *)
(***************************************************************************)
EXTENDS Journal

CONSTANTS
    Vendors,
    PayableAccount,     \* the account 2010
    BankAccounts,       \* active accounts of type Bank
    WorkOrders,
    NoWorkOrder,
    BillInputs,         \* the bills that users enter
    Edits,              \* the sets of columns that their updates give
    CreditInputs,       \* the vendor credits that users enter
    CompletionCosts,    \* the final costs users give when completing work
    MaxBills, MaxChecks, MaxCredits,    \* bounds on the tables
    MaxAmount           \* bound on the cents a check puts on one bill

VARIABLES
    bills,              \* bills joined with their bill_allocations
    checks,             \* vendor_checks joined with vendor_check_allocations
    credits,            \* vendor_credits joined with vendor_credit_allocations
    actualCost          \* work_orders.actual_cost_cents

apVars == <<entries, liveRefs, bills, checks, credits, actualCost>>

Allocations == [account : Accounts, amount : Nat \ {0}, ref : Refs \cup {NoRef}]
Columns == {"vendor", "wo", "lines"}
Entered == {"draft", "pending_approval"}
Payable == {"approved", "partially_paid"}
Posted == Payable \cup {"paid"}

PayablesAssumption ==
    /\ PayableAccount \in Accounts \ TrustBank
    /\ BankAccounts \subseteq Accounts
    /\ NoWorkOrder \notin WorkOrders
    /\ BillInputs \subseteq
         [vendor : Vendors, wo : WorkOrders \cup {NoWorkOrder},
          lines : Seq(Allocations) \ {<<>>}, status : Entered]
    /\ Edits \subseteq SUBSET Columns
    /\ CreditInputs \subseteq [vendor : Vendors, account : Accounts, total : Nat \ {0}]
    /\ CompletionCosts \subseteq Nat
    /\ {MaxBills, MaxChecks, MaxCredits, MaxAmount} \subseteq Nat

(***************************************************************************)
(* Amounts.                                                                *)
(***************************************************************************)
BillIds == 1 .. MaxBills
Nothing == [b \in BillIds |-> 0]

LinesTotal(lines) == Total([k \in DOMAIN lines |-> lines[k].amount])
BillTotal(b) == LinesTotal(bills[b].lines)
Owed(b) == BillTotal(b) - bills[b].paid

\* Distribute amt over lines that hold at most room, from the first line on.
Pour(amt, room) ==
    [k \in DOMAIN room |->
       Min({room[k], Max({0, amt - Total(SubSeq(room, 1, k - 1))})})]

\* A bill after amt more of it has been paid: by a check or by a credit.
Pay(bill, amt) ==
    LET poured == Pour(amt, [k \in DOMAIN bill.lines |->
                               bill.lines[k].amount - bill.settled[k]])
        total == LinesTotal(bill.lines)
    IN  [bill EXCEPT
           !.paid = @ + amt,
           !.status = IF bill.paid + amt = total THEN "paid" ELSE "partially_paid",
           !.settled = [k \in DOMAIN @ |-> @[k] + poured[k]]]

\* Wrong: a bill whose check is voided becomes approved whatever else was paid.
UnpayToApproved(bill, amt) ==
    LET poured == Pour(amt, bill.settled)
    IN  [bill EXCEPT
           !.paid = Max({0, @ - amt}),
           !.status = "approved",
           !.settled = [k \in DOMAIN @ |-> @[k] - poured[k]]]

\* A bill after a check that put amt on it has been voided.
Unpay(bill, amt) ==
    LET poured == Pour(amt, bill.settled)
        paid == Max({0, bill.paid - amt})
    IN  [bill EXCEPT
           !.paid = paid,
           !.status = IF paid = 0 THEN "approved" ELSE "partially_paid",
           !.settled = [k \in DOMAIN @ |-> @[k] - poured[k]]]

\* The expenses of a work order: its bills that are not voided.
WorkOrderTotal(table, w) ==
    Total([b \in DOMAIN table |->
             IF table[b].wo = w /\ table[b].status # "voided"
             THEN LinesTotal(table[b].lines) ELSE 0])

\* recalcWorkOrderActualCost for the work orders of W, after bills changed.
RecalcCosts(W) ==
    actualCost' = [w \in WorkOrders |->
                     IF w \in W THEN WorkOrderTotal(bills', w) ELSE actualCost[w]]

(***************************************************************************)
(* The journal entries of documents.                                       *)
(***************************************************************************)
Debit(account, amount, ref) ==
    [account |-> account, debit |-> amount, credit |-> 0, ref |-> ref]
Credit(account, amount, ref) ==
    [account |-> account, debit |-> 0, credit |-> amount, ref |-> ref]

\* Dr the allocations' accounts, Cr 2010 once per allocation.
AccrualLines(lines) ==
    [k \in DOMAIN lines |-> Debit(lines[k].account, lines[k].amount, lines[k].ref)]
    \o [k \in DOMAIN lines |-> Credit(PayableAccount, lines[k].amount, lines[k].ref)]

\* Dr 2010, Cr a bank account or the account a vendor credit reduces.
SettlementLines(account, amount) ==
    <<Debit(PayableAccount, amount, NoRef), Credit(account, amount, NoRef)>>

PostingsOf(source, doc) ==
    {i \in DOMAIN entries : entries[i].source = source /\ entries[i].doc = doc}

OpenPostings(source, doc) ==
    {i \in PostingsOf(source, doc) : entries[i].reversedBy = 0}

\* A void reverses the document's entry if one is not reversed yet.
ReversePosting(source, doc) ==
    \/ /\ OpenPostings(source, doc) = {}
       /\ UNCHANGED entries
    \/ \E i \in OpenPostings(source, doc) : ReverseEntry(i)

(***************************************************************************)
(* Bills.                                                                  *)
(***************************************************************************)
RefsLive(lines) == \A k \in DOMAIN lines : lines[k].ref \in liveRefs \cup {NoRef}

CreateBill(input) ==
    /\ Len(bills) < MaxBills
    /\ RefsLive(input.lines)
    /\ bills' = Append(bills,
                  [vendor |-> input.vendor, wo |-> input.wo, lines |-> input.lines,
                   settled |-> [k \in DOMAIN input.lines |-> 0],
                   paid |-> 0, status |-> input.status])
    /\ RecalcCosts({input.wo})
    /\ UNCHANGED <<entries, liveRefs, checks, credits>>

\* The columns that the request gives replace those of the bill.
Edited(b, input, given) ==
    [c \in Columns |-> IF c \in given THEN input[c] ELSE bills[b][c]]

\* Allocations are validated, and their rows replaced, only when they are given.
UpdateBill(b, input, given) ==
    LET new == Edited(b, input, given)
    IN  /\ bills[b].status \in Entered
        /\ "lines" \in given => RefsLive(input.lines)
        /\ bills' = [bills EXCEPT
                       ![b].vendor = new.vendor,
                       ![b].wo = new.wo,
                       ![b].lines = new.lines,
                       ![b].settled = [k \in DOMAIN new.lines |-> 0]]
        /\ RecalcCosts({bills[b].wo, new.wo})
        /\ UNCHANGED <<entries, liveRefs, checks, credits>>

ApproveBill(b) ==
    /\ bills[b].status \in Entered
    /\ PostEntry("bill", b, AccrualLines(bills[b].lines))
    /\ bills' = [bills EXCEPT ![b].status = "approved"]
    /\ UNCHANGED <<liveRefs, checks, credits, actualCost>>

\* Wrong: the work order keeps the cost of a voided bill.
VoidBillKeepsCost(b) ==
    /\ bills[b].status \notin {"voided", "paid", "partially_paid"}
    /\ bills[b].paid = 0
    /\ IF bills[b].status = "approved" THEN ReversePosting("bill", b)
                                       ELSE UNCHANGED entries
    /\ bills' = [bills EXCEPT ![b].status = "voided"]
    /\ UNCHANGED <<liveRefs, checks, credits, actualCost>>

VoidBill(b) ==
    /\ bills[b].status \notin {"voided", "paid", "partially_paid"}
    /\ bills[b].paid = 0
    /\ IF bills[b].status = "approved" THEN ReversePosting("bill", b)
                                       ELSE UNCHANGED entries
    /\ bills' = [bills EXCEPT ![b].status = "voided"]
    /\ RecalcCosts({bills[b].wo})
    /\ UNCHANGED <<liveRefs, checks, credits>>

(***************************************************************************)
(* Vendor checks.                                                          *)
(***************************************************************************)
IssueCheck(vendor, bank, allocs) ==
    /\ Len(checks) < MaxChecks
    /\ bank \in BankAccounts \ TrustBank
    /\ Total(allocs) > 0
    /\ \A b \in BillIds : allocs[b] > 0 =>
         /\ b \in DOMAIN bills
         /\ bills[b].status \in Payable
         /\ bills[b].vendor = vendor
         /\ allocs[b] <= Owed(b)
    /\ checks' = Append(checks, [vendor |-> vendor, bank |-> bank, allocs |-> allocs,
                                 status |-> "printed"])
    /\ bills' = [b \in DOMAIN bills |->
                   IF allocs[b] > 0 THEN Pay(bills[b], allocs[b]) ELSE bills[b]]
    /\ PostEntry("vendor_check", Len(checks) + 1, SettlementLines(bank, Total(allocs)))
    /\ UNCHANGED <<liveRefs, credits, actualCost>>

VoidCheck(c) ==
    /\ checks[c].status # "voided"
    /\ ReversePosting("vendor_check", c)
    /\ bills' = [b \in DOMAIN bills |->
                   IF checks[c].allocs[b] > 0
                   THEN Unpay(bills[b], checks[c].allocs[b]) ELSE bills[b]]
    /\ checks' = [checks EXCEPT ![c].status = "voided"]
    /\ UNCHANGED <<liveRefs, credits, actualCost>>

(***************************************************************************)
(* Vendor credits.                                                         *)
(***************************************************************************)
CreateCredit(input) ==
    /\ Len(credits) < MaxCredits
    /\ credits' = Append(credits,
                    [vendor |-> input.vendor, total |-> input.total,
                     remaining |-> input.total, applied |-> Nothing,
                     status |-> "open"])
    /\ PostEntry("vendor_credit", Len(credits) + 1,
                 SettlementLines(input.account, input.total))
    /\ UNCHANGED <<liveRefs, bills, checks, actualCost>>

ApplyCredit(c, b, amt) ==
    /\ credits[c].status \in {"open", "partially_applied"}
    /\ amt <= credits[c].remaining
    /\ bills[b].status \in Payable
    /\ bills[b].vendor = credits[c].vendor
    /\ amt <= Owed(b)
    /\ credits' = [credits EXCEPT
                     ![c].remaining = @ - amt,
                     ![c].applied[b] = @ + amt,
                     ![c].status = IF credits[c].remaining = amt THEN "fully_applied"
                                   ELSE "partially_applied"]
    /\ bills' = [bills EXCEPT ![b] = Pay(@, amt)]
    /\ UNCHANGED <<entries, liveRefs, checks, actualCost>>

VoidCredit(c) ==
    /\ credits[c].status # "voided"
    /\ credits[c].remaining >= credits[c].total
    /\ credits[c].applied = Nothing
    /\ ReversePosting("vendor_credit", c)
    /\ credits' = [credits EXCEPT ![c].status = "voided"]
    /\ UNCHANGED <<liveRefs, bills, checks, actualCost>>

(***************************************************************************)
(* What happens next to the payables: an accountant reverses any journal   *)
(* entry by its route, work is completed, a property is soft-deleted.      *)
(***************************************************************************)
ReverseAny(i) ==
    /\ ReverseEntry(i)
    /\ UNCHANGED <<liveRefs, bills, checks, credits, actualCost>>

\* With a final cost, which replaces the sum of the bills; without one the
\* cost stays, and only columns that are not modelled change.
CompleteWorkOrder(w, cost) ==
    /\ actualCost' = [actualCost EXCEPT ![w] = cost]
    /\ UNCHANGED <<entries, liveRefs, bills, checks, credits>>

DeleteRef(r) ==
    /\ SoftDelete(r)
    /\ UNCHANGED <<bills, checks, credits, actualCost>>

APInit ==
    /\ Init
    /\ bills = <<>> /\ checks = <<>> /\ credits = <<>>
    /\ actualCost = [w \in WorkOrders |-> 0]

\* Requests for bills, for vendor credits and for checks.
BillRequests ==
    \/ \E input \in BillInputs : CreateBill(input)
    \/ \E b \in DOMAIN bills, input \in BillInputs,
         given \in Edits : UpdateBill(b, input, given)
    \/ \E b \in DOMAIN bills : ApproveBill(b) \/ VoidBill(b)

CreditRequests ==
    \/ \E input \in CreditInputs : CreateCredit(input)
    \/ \E c \in DOMAIN credits, b \in DOMAIN bills, amt \in 1 .. MaxAmount :
          ApplyCredit(c, b, amt)
    \/ \E c \in DOMAIN credits : VoidCredit(c)

CheckRequests ==
    \E v \in Vendors, bank \in BankAccounts, allocs \in [BillIds -> 0 .. MaxAmount] :
        IssueCheck(v, bank, allocs)

APNext ==
    \/ BillRequests \/ CreditRequests \/ CheckRequests
    \/ \E c \in DOMAIN checks : VoidCheck(c)
    \/ \E i \in DOMAIN entries : ReverseAny(i)
    \/ \E w \in WorkOrders, cost \in CompletionCosts : CompleteWorkOrder(w, cost)
    \/ \E r \in Refs : DeleteRef(r)

APSpec == APInit /\ [][APNext]_apVars

(***************************************************************************)
(* Properties.                                                             *)
(***************************************************************************)
Bills == [vendor : Vendors, wo : WorkOrders \cup {NoWorkOrder},
          lines : Seq(Allocations), settled : Seq(Nat), paid : Nat,
          status : Entered \cup Posted \cup {"voided"}]
Checks == [vendor : Vendors, bank : BankAccounts, allocs : [BillIds -> Nat],
           status : {"printed", "voided"}]
Credits_ == [vendor : Vendors, total : Nat, remaining : Nat, applied : [BillIds -> Nat],
             status : {"open", "partially_applied", "fully_applied", "voided"}]

APTypeOK ==
    /\ TypeOK
    /\ bills \in Seq(Bills) /\ Len(bills) <= MaxBills
    /\ checks \in Seq(Checks) /\ Len(checks) <= MaxChecks
    /\ credits \in Seq(Credits_) /\ Len(credits) <= MaxCredits
    /\ actualCost \in [WorkOrders -> Nat]

\* What a bill says has been paid is what the checks that are not voided and
\* the credits put on it, line by line and in all; never more than it is for;
\* and its status says so.  Checks and credits pay the same bill in any order
\* and checks are voided in any order.
PaidBy(b) ==
    Total([c \in DOMAIN checks |->
             IF checks[c].status = "printed" THEN checks[c].allocs[b] ELSE 0])
    + Total([c \in DOMAIN credits |-> credits[c].applied[b]])

BillPaymentsAgree ==
    \A b \in DOMAIN bills :
        LET bill == bills[b]
        IN  /\ bill.paid = PaidBy(b)
            /\ bill.paid = Total(bill.settled)
            /\ \A k \in DOMAIN bill.lines : bill.settled[k] \in 0 .. bill.lines[k].amount
            /\ bill.status \in Entered \cup {"approved", "voided"} <=> bill.paid = 0
            /\ bill.status = "paid" <=> bill.paid = BillTotal(b)

\* A credit is spent once: what remains and what was applied is its total.
CreditsConserved ==
    \A c \in DOMAIN credits :
        LET credit == credits[c]
        IN  /\ credit.remaining + Total(credit.applied) = credit.total
            /\ credit.status \in {"open", "voided"} <=> credit.remaining = credit.total
            /\ credit.status = "fully_applied" <=> credit.remaining = 0

\* The general ledger has one entry for every document in force, none for a
\* bill that is not approved, and none left open for a voided one; whatever
\* has been reversed by hand in between.
PostingsMatch(source, doc, posted, voided) ==
    /\ posted => \E i \in PostingsOf(source, doc) : PostingsOf(source, doc) = {i}
    /\ ~ posted /\ ~ voided => PostingsOf(source, doc) = {}
    /\ voided => OpenPostings(source, doc) = {}

PostingsMatchDocuments ==
    /\ \A b \in DOMAIN bills :
          PostingsMatch("bill", b, bills[b].status \in Posted, bills[b].status = "voided")
    /\ \A c \in DOMAIN checks :
          PostingsMatch("vendor_check", c, checks[c].status = "printed",
                        checks[c].status = "voided")
    /\ \A c \in DOMAIN credits :
          PostingsMatch("vendor_credit", c, credits[c].status # "voided",
                        credits[c].status = "voided")

\* Nobody reversed a document's entry, or a void's reversal, by hand.
DocumentsStand ==
    \A i \in DOMAIN entries :
        /\ entries[i].source = "bill" =>
             (Stands[i] <=> bills[entries[i].doc].status # "voided")
        /\ entries[i].source = "vendor_check" =>
             (Stands[i] <=> checks[entries[i].doc].status # "voided")
        /\ entries[i].source = "vendor_credit" =>
             (Stands[i] <=> credits[entries[i].doc].status # "voided")

\* Nothing but documents has posted to 2010, each to one side of it: none was
\* entered whose other side is 2010 as well.
OnPayable(i) ==
    {k \in DOMAIN entries[i].lines : entries[i].lines[k].account = PayableAccount}

OnlyDocumentsOwe ==
    \A i \in DOMAIN entries : OnPayable(i) # {} =>
        /\ entries[i].source \in {"bill", "vendor_check", "vendor_credit"} \/ IsReversal(i)
        /\ \/ \A k \in OnPayable(i) : entries[i].lines[k].debit = 0
           \/ \A k \in OnPayable(i) : entries[i].lines[k].credit = 0

\* Then the balance of 2010 in the general ledger is the subledger's: what is
\* owed on the posted bills less what remains of the credits.
ControlAccountAgrees ==
    DocumentsStand /\ OnlyDocumentsOwe =>
        -Balance(PayableAccount) =
            Total([b \in DOMAIN bills |->
                     IF bills[b].status \in Posted THEN Owed(b) ELSE 0])
            - Total([c \in DOMAIN credits |->
                     IF credits[c].status # "voided" THEN credits[c].remaining ELSE 0])

\* A posted bill keeps its vendor, work order and allocations, which its entry
\* was posted from, and a voided document stays voided.
PostedDocumentsFrozen ==
    [][/\ \A b \in DOMAIN bills : bills[b].status \notin Entered =>
            /\ bills'[b].vendor = bills[b].vendor
            /\ bills'[b].wo = bills[b].wo
            /\ bills'[b].lines = bills[b].lines
            /\ bills'[b].status \notin Entered
            /\ bills[b].status = "voided" => bills'[b] = bills[b]
       /\ \A c \in DOMAIN checks : checks[c].status = "voided" => checks'[c] = checks[c]
       /\ \A c \in DOMAIN credits : credits[c].status = "voided" => credits'[c] = credits[c]
      ]_apVars

\* When the bills of a work order come to another sum, its actual cost is that
\* sum in the same step, whatever was entered when the work was completed.
CostFollowsBills ==
    [][\A w \in WorkOrders :
         WorkOrderTotal(bills', w) # WorkOrderTotal(bills, w)
             => actualCost'[w] = WorkOrderTotal(bills', w)]_apVars

\* Bills, checks and credits agree with each other and with the journal, in
\* whatever order bills are approved, paid in parts, edited and voided, checks
\* and credits are voided again, and entries are reversed by hand; as long as no
\* entry of theirs is, the control account is what vendors are owed.
PayablesAgree ==
    /\ BillPaymentsAgree /\ CreditsConserved /\ PostingsMatchDocuments
    /\ ControlAccountAgrees

\* A posted document keeps what it was posted from, a voided one stays voided,
\* and the cost of a work order follows its bills.
DocumentsFrozen == PostedDocumentsFrozen /\ CostFollowsBills
=============================================================================
