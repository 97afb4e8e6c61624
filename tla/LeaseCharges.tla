---------------------------- MODULE LeaseCharges -----------------------------
(***************************************************************************)
(* What a tenant is charged: recurring charges, the monthly billing run of *)
(* modules/accounting/backend/billing.ts, late fees and concessions.       *)
(*                                                                         *)
(* The billing run is one synchronous loop in which every charge commits a *)
(* transaction of its own, so the run is a process of several steps; no    *)
(* other request is served while it runs, but the process may die.         *)
(***************************************************************************)
EXTENDS Leases

CONSTANTS
    DaysInMonth,        \* days of every month
    Months,             \* months that are billed, numbers
    AssessmentDays,     \* days of the month on which fees are assessed
    RecurringInputs,    \* recurring charges users attach: [category, gl, amount, frequency]
    PolicyInputs,       \* late fee policies users create
    OwnPolicy,          \* what the columns of a lease say where no policy applies
    CreditAmounts,      \* concessions users grant
    CreditAccounts,     \* accounts they name for them, NoAccount for none
    UnitOf              \* the unit of a lease

VARIABLES
    recurring,          \* recurring_lease_charges; a row's position is its id
    policies,           \* the late fee policies that are not deleted
    closed,             \* the accounts with is_active = 0
    run                 \* the billing run in progress, or Idle

Idle == [month |-> 0, leases |-> {}, items |-> {}, made |-> 0]
ChargeVars == <<entries, liveRefs, transactions, leases, recurring, policies, closed, run>>
Others == <<leases, recurring, policies, closed, liveRefs>>

LeaseChargesAssumption ==
    /\ DaysInMonth \in Nat \ {0}
    /\ Months \subseteq Nat \ {0}
    /\ AssessmentDays \subseteq Nat /\ CreditAmounts \subseteq Int
    /\ \A input \in RecurringInputs : input.amount \in Int
    /\ \A l \in Leases : UnitOf[l] \in Refs \ Leases
    /\ OwnPolicy.kind = "flat_fee" /\ OwnPolicy.cap = 0
    /\ \A p \in PolicyInputs \cup {OwnPolicy} :
          /\ p.scope \in {"property", "portfolio", "default", "lease"}
          /\ p.kind \in {"flat_fee", "percentage_of_delinquency", "daily_accrual"}
          /\ {p.due, p.grace, p.flat, p.bps, p.threshold, p.cap} \subseteq Int

(***************************************************************************)
(* Recurring charges, policies, accounts.                                  *)
(***************************************************************************)
AddRecurringCharge(l, input) ==
    /\ Known(l)
    /\ input.amount > 0
    /\ input.gl \notin closed
    /\ Len(recurring) < Cardinality(RecurringInputs)
    /\ recurring' = Append(recurring, [input |-> input, lease |-> l, live |-> TRUE])
    /\ UNCHANGED <<TxVars, leases, policies, closed, run>>

DeleteRecurringCharge(c) ==
    /\ recurring[c].live
    /\ recurring' = [recurring EXCEPT ![c].live = FALSE]
    /\ UNCHANGED <<TxVars, leases, policies, closed, run>>

CreatePolicy(p) ==
    /\ policies' = policies \cup {p}
    /\ UNCHANGED <<TxVars, leases, recurring, closed, run>>

DeletePolicy(p) ==
    /\ policies' = policies \ {p}
    /\ UNCHANGED <<TxVars, leases, recurring, closed, run>>

CloseAccount(a) ==
    /\ closed' = closed \cup {a}
    /\ UNCHANGED <<TxVars, leases, recurring, policies, run>>

(***************************************************************************)
(* The billing run.                                                        *)
(***************************************************************************)
Billable(l, m) ==
    /\ Known(l)
    /\ UnitOf[l] \in liveRefs
    /\ leases[l].status \in {"active", "renewed", "month_to_month", "expiring"}
    /\ leases[l].first <= m /\ m <= leases[l].last

\* The rent is divided first, as a double: where the exact product is a whole
\* number of cents the floor may be one less.
Prorated(rent, days) ==
    LET exact == (rent * days) \div DaysInMonth
    IN  {exact} \cup (IF (rent * days) % DaysInMonth = 0 THEN {exact - 1} ELSE {})

RentAmounts(l, m) ==
    IF m = leases[l].first /\ leases[l].days < DaysInMonth
    THEN Prorated(leases[l].rent, leases[l].days) ELSE {leases[l].rent}

RentItem(l, m) ==
    [lease |-> l, reference |-> [kind |-> "rent", key |-> l, month |-> m],
     category |-> "rent", gl |-> NoAccount, amounts |-> RentAmounts(l, m)]

RecurringItem(c, m) ==
    [lease |-> recurring[c].lease,
     reference |-> [kind |-> "recurring", key |-> c, month |-> m],
     category |-> recurring[c].input.category, gl |-> recurring[c].input.gl,
     amounts |-> {recurring[c].input.amount}]

\* Only monthly recurring charges are ever billed.
MonthlyCharges(l) ==
    {c \in DOMAIN recurring :
        /\ recurring[c].lease = l /\ recurring[c].live
        /\ recurring[c].input.frequency = "monthly"}

Items(l, m) == {RentItem(l, m)} \cup {RecurringItem(c, m) : c \in MonthlyCharges(l)}

Existing(item) ==
    \E t \in LeaseTransactions(item.lease) : transactions[t].reference = item.reference

\* createTransaction throws for any other item, which ends the run.
Chargeable(item, amount) ==
    /\ amount > 0
    /\ item.gl \notin closed
    /\ Tenant[item.lease] \in liveRefs

\* Bound: a run starts only where the bounds leave room for its charges.
HasRoom(m) ==
    LET missing == {item \in UNION {Items(l, m) : l \in {x \in Leases : Billable(x, m)}} :
                      ~Existing(item)}
    IN  /\ Len(transactions) + Cardinality(missing) <= MaxTransactions
        /\ Len(entries) + Cardinality(missing) <= MaxEntries

StartRun(m) ==
    /\ HasRoom(m)
    /\ run' = [month |-> m, leases |-> {l \in Leases : Billable(l, m)},
               items |-> {}, made |-> 0]
    /\ UNCHANGED <<entries, transactions, Others>>

\* Leases and recurring charges come in no particular order, the rent of a
\* lease before its recurring charges.
NextLease ==
    /\ run.items = {}
    /\ \E l \in run.leases :
          run' = [run EXCEPT !.leases = @ \ {l}, !.items = Items(l, run.month)]
    /\ UNCHANGED <<entries, transactions, Others>>

IsNext(item) ==
    item.reference.kind = "rent" \/ \A other \in run.items : other.reference.kind # "rent"

\* Wrong: a charge that was deleted still counts as existing.
SkipEverBilled(item) ==
    /\ \E t \in DOMAIN transactions : transactions[t].reference = item.reference
    /\ run' = [run EXCEPT !.items = @ \ {item}]
    /\ UNCHANGED <<entries, transactions, Others>>

\* Wrong: the loop does not move on to the next item.
SkipStuck(item) == Existing(item) /\ UNCHANGED ChargeVars

SkipItem(item) ==
    /\ Existing(item)
    /\ run' = [run EXCEPT !.items = @ \ {item}]
    /\ UNCHANGED <<entries, transactions, Others>>

\* Wrong: nothing is looked up before charging.
ChargeUnchecked(item) ==
    /\ \E amount \in item.amounts :
          /\ Chargeable(item, amount)
          /\ CreateTransaction("charge", item.category, amount, item.lease,
                               item.reference, item.gl)
    /\ run' = [run EXCEPT !.items = @ \ {item}, !.made = @ + 1]
    /\ UNCHANGED Others

ChargeItem(item) ==
    /\ ~Existing(item)
    /\ \E amount \in item.amounts :
          /\ Chargeable(item, amount)
          /\ CreateTransaction("charge", item.category, amount, item.lease,
                               item.reference, item.gl)
    /\ run' = [run EXCEPT !.items = @ \ {item}, !.made = @ + 1]
    /\ UNCHANGED Others

AbortRun(item) ==
    /\ ~Existing(item)
    /\ \E amount \in item.amounts : ~Chargeable(item, amount)
    /\ run' = Idle
    /\ UNCHANGED <<entries, transactions, Others>>

EndRun ==
    /\ run.items = {} /\ run.leases = {}
    /\ run' = Idle
    /\ UNCHANGED <<entries, transactions, Others>>

\* The process dies between two charges; what was committed stays.
Crash ==
    /\ run' = Idle
    /\ UNCHANGED <<entries, transactions, Others>>

RunStep ==
    \/ NextLease
    \/ \E item \in run.items :
          IsNext(item) /\ (SkipItem(item) \/ ChargeItem(item) \/ AbortRun(item))
    \/ EndRun

(***************************************************************************)
(* Late fees and concessions.                                              *)
(***************************************************************************)
\* The policy of the property, else of the portfolio, else the default, one of
\* them if there are several; else the flat fee of the lease itself.
ActivePolicies ==
    LET of(scope) == {p \in policies : p.scope = scope}
    IN  CASE of("property") # {} -> of("property")
          [] of("property") = {} /\ of("portfolio") # {} -> of("portfolio")
          [] of("property") \cup of("portfolio") = {} /\ of("default") # {} -> of("default")
          [] OTHER -> {OwnPolicy}

\* What is overdue: the receivable, or the single entries where the journal has
\* no line of the lease.  Deposits do not count, as they do in TenantBalance.
Overdue(l) ==
    IF OnReceivable(l) # {} THEN NetReceivable(l)
    ELSE LET rows == LeaseTransactions(l)
         IN  TotalOf(OfTypes(rows, {"charge"})) - TotalOf(OfTypes(rows, {"payment", "refund"}))

IsLate(p, day) == day > p.due + p.grace

Percentage(balance, bps) == (balance * bps + 5000) \div 10000

Uncapped(p, balance, day) ==
    CASE p.kind = "flat_fee" -> p.flat
      [] p.kind = "percentage_of_delinquency" -> Percentage(balance, p.bps)
      [] p.kind = "daily_accrual" ->
            p.flat + Percentage(balance, p.bps) * (day - p.due - p.grace)

LateFee(p, balance, day) ==
    IF IsLate(p, day) /\ balance >= p.threshold
    THEN IF p.cap > 0 /\ Uncapped(p, balance, day) > p.cap
         THEN p.cap ELSE Uncapped(p, balance, day)
    ELSE 0

Assessed(reference) ==
    \E i \in DOMAIN entries :
        /\ entries[i].source = "late_fee" /\ entries[i].doc # 0
        /\ transactions[entries[i].doc].reference = reference

\* The journal refuses a line that names a deleted contact or unit.
MayCharge(l) == Known(l) /\ {Tenant[l], UnitOf[l]} \subseteq liveRefs

ApplyLateFee(l, m, day) ==
    /\ MayCharge(l)
    /\ \E p \in ActivePolicies :
          LET fee == LateFee(p, Overdue(l), day)
              reference == [kind |-> "late_fee", key |-> l, month |-> m]
          IN  /\ fee > 0
              /\ ~Assessed(reference)
              /\ PostWithRow("late_fee", Transfer(AR, Mapped["late_fee"], fee, l),
                             Row("charge", "late_fee", fee, l, reference))
    /\ UNCHANGED <<Others, run>>

AddCreditConcession(l, amount, gl) ==
    /\ MayCharge(l)
    /\ amount > 0
    /\ PostWithRow("credit_concession",
                   Transfer(IF gl = NoAccount THEN MappedOr("concessions", "rent") ELSE gl,
                            AR, amount, l),
                   Row("refund", "rent", amount, l, NoReference))
    /\ UNCHANGED <<Others, run>>

(***************************************************************************)
(* The specification.                                                      *)
(***************************************************************************)
ChargesInit ==
    /\ LeasesInit
    /\ recurring = <<>> /\ policies = {} /\ closed = {} /\ run = Idle

ServeRequest ==
    \/ (ManageLeases \/ ManageContacts \/ UseTransactions)
         /\ UNCHANGED <<recurring, policies, closed, run>>
    \/ \E l \in Leases, input \in RecurringInputs : AddRecurringCharge(l, input)
    \/ \E c \in DOMAIN recurring : DeleteRecurringCharge(c)
    \/ \E p \in PolicyInputs : CreatePolicy(p) \/ DeletePolicy(p)
    \/ \E input \in RecurringInputs : input.gl # NoAccount /\ CloseAccount(input.gl)
    \/ \E m \in Months : StartRun(m)
    \/ \E l \in Leases, m \in Months, day \in AssessmentDays : ApplyLateFee(l, m, day)
    \/ \E l \in Leases, amount \in CreditAmounts, gl \in CreditAccounts :
          AddCreditConcession(l, amount, gl)

ChargesNext ==
    \/ run = Idle /\ ServeRequest
    \/ run # Idle /\ (RunStep \/ Crash)

ChargesSpec == ChargesInit /\ [][ChargesNext]_ChargeVars
FairChargesSpec == ChargesSpec /\ WF_ChargeVars(run # Idle /\ RunStep)

(***************************************************************************)
(* Properties.                                                             *)
(***************************************************************************)
References == {transactions[t].reference : t \in DOMAIN transactions} \ {NoReference}
RowsFor(reference) == {t \in DOMAIN transactions : transactions[t].reference = reference}

\* Contracts have terms, and a run is over leases and items of one month.
ChargesTypeOK ==
    /\ TxTypeOK
    /\ leases \in [DOMAIN leases -> TermRecords]
    /\ run # Idle => run.month \in Months

\* However often a month is billed, whatever crashes and is retried and
\* whatever is deleted in between, a tenant is charged once for it: at most
\* one charge with a billing reference is not deleted.
BilledOnce ==
    \A reference \in References :
        reference.kind \in {"rent", "recurring"} =>
            Cardinality({t \in RowsFor(reference) : transactions[t].live}) <= 1

\* One late fee per lease and month is ever posted, though fees are assessed
\* on any day, policies change and the row of a fee is deleted.
FeeOncePerMonth ==
    \A reference \in References :
        reference.kind = "late_fee" => Cardinality(RowsFor(reference)) <= 1

\* However often a month is billed, whatever crashes, is retried or deleted in
\* between, a tenant has one charge in force for the rent and each recurring
\* charge of a month, and one late fee of a month.
ChargedOnce == BilledOnce /\ FeeOncePerMonth

\* What is charged once is charged by rows and runs that make sense.
ChargesAgree == ChargesTypeOK /\ ChargedOnce

\* A run that gets to its end leaves no lease of the month without its rent
\* and its monthly charges, after crashes and deletions of earlier runs too.
RunBillsEveryLease ==
    [][run # Idle /\ EndRun =>
         \A l \in Leases : Billable(l, run.month) =>
             \A item \in Items(l, run.month) : Existing(item)]_ChargeVars

\* A run ends: no step of its loop waits.
RunEnds == run # Idle ~> run = Idle

\* The standard of the design document: recurring rent generation executes
\* inside an atomic transaction, so a run that fails has charged nobody.
\* Refuted: see the README.
AllOrNothing ==
    [][(\E item \in run.items : AbortRun(item)) => run.made = 0]_ChargeVars
=============================================================================
