------------------------------- MODULE Leases --------------------------------
(***************************************************************************)
(* Lease contracts: the rows of modules/leases/backend/repository.ts and   *)
(* the routes that create, edit, activate, terminate and soft-delete them. *)
(* The extensions LeaseCharges and LeaseTrust add what is charged to a     *)
(* tenant and what is held for one.                                        *)
(***************************************************************************)
EXTENDS Transactions

CONSTANTS
    Terms,      \* what users enter: [status, first, last, days, rent, held]
    Tenant      \* the contact that is primary_tenant of a lease

VARIABLE leases \* the contracts that were ever created, by lease

LeaseStatuses == {"draft", "active", "expiring", "renewed", "terminated", "month_to_month"}

\* first and last are months; days are those of the first month that the
\* tenancy covers; held is deposit_held_cents.
TermRecords == [status : LeaseStatuses, first : Nat, last : Nat, days : Nat,
                rent : Nat, held : Int]

LeasesAssumption ==
    /\ Terms \subseteq TermRecords
    /\ \A l \in Leases : Tenant[l] \in Refs \ Leases

Known(l) == l \in DOMAIN leases /\ l \in liveRefs

CreateLease(l, terms) ==
    /\ l \notin DOMAIN leases
    /\ leases' = [x \in DOMAIN leases \cup {l} |-> IF x = l THEN terms ELSE leases[x]]
    /\ liveRefs' = liveRefs \cup {l}
    /\ UNCHANGED <<entries, transactions>>

\* A PUT replaces any column, the status and the deposit included.
UpdateLease(l, terms) ==
    /\ Known(l)
    /\ leases' = [leases EXCEPT ![l] = terms]
    /\ UNCHANGED TxVars

UpdateLeaseStatus(l, status) ==
    /\ Known(l)
    /\ leases' = [leases EXCEPT ![l].status = status]
    /\ UNCHANGED TxVars

DeleteLease(l) ==
    /\ Known(l)
    /\ SoftDelete(l)
    /\ UNCHANGED <<transactions, leases>>

\* A contact or a unit is deleted without a look at the leases that name it.
DeleteNamed(c) ==
    /\ SoftDelete(c)
    /\ UNCHANGED <<transactions, leases>>

LeasesInit ==
    /\ entries = <<>> /\ transactions = <<>>
    /\ liveRefs = Refs \ Leases
    /\ leases = [l \in {} |-> <<>>]

ManageLeases ==
    \E l \in Leases :
        \/ \E terms \in Terms : CreateLease(l, terms) \/ UpdateLease(l, terms)
        \/ \E status \in {"active", "terminated"} : UpdateLeaseStatus(l, status)
        \/ DeleteLease(l)
ManageContacts == \E c \in Refs \ Leases : DeleteNamed(c)
UseTransactions ==
    /\ \/ \E input \in Inputs : CreateFromRequest(input)
       \/ \E t \in DOMAIN transactions : DeleteFromRequest(t)
    /\ UNCHANGED leases

LeasesVars == <<entries, liveRefs, transactions, leases>>

\* What the row t adds to the receivable of its lease.  A concession is kept
\* as a refund that lowers it, a refund of an overpayment raises it.
OnBalance(t) ==
    LET row == transactions[t]
    IN  CASE row.type = "charge" -> row.amount
          [] row.type \in {"payment", "deposit_deduction"} -> -row.amount
          [] row.type = "refund" ->
                IF entries[row.entry].source = "credit_concession"
                THEN -row.amount ELSE row.amount
          [] OTHER -> 0

\* What the ledger says a tenant owes is what the rows that are left say, by
\* whichever operation of leases, billing or accounting they were made.
LeaseLedgerFollowsRows ==
    \A l \in Leases :
        NetReceivable(l) =
          Total([t \in DOMAIN transactions |->
                   IF t \in LeaseTransactions(l) THEN OnBalance(t) ELSE 0])
=============================================================================
