----------------------------- MODULE LeaseTrust ------------------------------
(***************************************************************************)
(* The deposits of tenants: issueDepositRefund of                          *)
(* modules/leases/backend/repository.ts, processDepositDisposition and the *)
(* three-way reconciliation of modules/accounting/backend/repository.ts.   *)
(* Three records of the same money change here, each through different     *)
(* operations: deposit_held_cents of the lease, the trust accounts of the  *)
(* ledger, and the single entries.                                         *)
(***************************************************************************)
EXTENDS Leases

CONSTANTS
    RefundAmounts,      \* what users refund
    DeductionLists,     \* sequences of damage amounts that users deduct
    MaxRecorded         \* bound on the deposits entered on a contract

VARIABLE recorded       \* history: the deposits ever entered on a contract

LeaseTrustAssumption ==
    /\ RefundAmounts \subseteq Int
    /\ DeductionLists \subseteq Seq(Int)
    /\ MaxRecorded \in Nat

TrustVars == <<entries, liveRefs, transactions, leases, recorded>>
Held(l) == leases[l].held

(***************************************************************************)
(* Refunds.                                                                *)
(***************************************************************************)
RefundRow(type, category, amount, l) ==
    Row(type, category, amount, l, [kind |-> "deposit_refund", key |-> l, month |-> 0])

\* Wrong: the contract still says that what was refunded is held.
RefundDepositKeepsHeld(l, amount) ==
    /\ Known(l) /\ Tenant[l] \in liveRefs
    /\ amount > 0 /\ amount <= Held(l)
    /\ PostWithRow("deposit_refund",
                   Transfer(Mapped["security_deposit"], Mapped["trust_bank"], amount, l),
                   RefundRow("deposit_return", "security_deposit", amount, l))
    /\ UNCHANGED <<leases, liveRefs, recorded>>

RefundDeposit(l, amount) ==
    /\ Known(l) /\ Tenant[l] \in liveRefs
    /\ amount > 0 /\ amount <= Held(l)
    /\ PostWithRow("deposit_refund",
                   Transfer(Mapped["security_deposit"], Mapped["trust_bank"], amount, l),
                   RefundRow("deposit_return", "security_deposit", amount, l))
    /\ leases' = [leases EXCEPT ![l].held = @ - amount]
    /\ UNCHANGED <<liveRefs, recorded>>

ReturnOverpayment(l, amount) ==
    /\ Known(l) /\ Tenant[l] \in liveRefs
    /\ amount > 0 /\ amount <= -NetReceivable(l)
    /\ PostWithRow("refund", Transfer(AR, Mapped["operating_bank"], amount, l),
                   RefundRow("refund", "rent", amount, l))
    /\ UNCHANGED <<leases, liveRefs, recorded>>

(***************************************************************************)
(* The disposition of a deposit when a tenant leaves.                      *)
(***************************************************************************)
Deducted(deductions) == Total([k \in DOMAIN deductions |-> Magnitude(deductions[k])])
Unpaid(l) == Max({0, LeaseBalance(l)})
FinalRefund(l, deductions) == Max({0, Held(l) - Unpaid(l) - Deducted(deductions)})

\* One transaction for every deduction and one for what is left.
DispositionInputs(l, deductions) ==
    [k \in DOMAIN deductions |->
        [type |-> "deposit_deduction", category |-> "repairs",
         amount |-> Magnitude(deductions[k])]]
      \o (IF FinalRefund(l, deductions) > 0
          THEN <<[type |-> "deposit_return", category |-> "security_deposit",
                  amount |-> FinalRefund(l, deductions)]>>
          ELSE <<>>)

EntryOf(input, k, l) ==
    [NewEntry(input.type, Len(transactions) + k,
              Transfer(DebitAccount(input.type, input.category),
                       CreditAccount(input.type, input.category, NoAccount), input.amount, l))
     EXCEPT !.number = NextNumber + k - 1]

PostDisposition(l, inputs) ==
    /\ Len(transactions) + Len(inputs) <= MaxTransactions
    /\ Len(entries) + Len(inputs) <= MaxEntries
    /\ \A k \in DOMAIN inputs :
          inputs[k].amount > 0 /\ MayPost(EntryOf(inputs[k], k, l).lines, FALSE)
    /\ entries' = entries \o [k \in DOMAIN inputs |-> EntryOf(inputs[k], k, l)]
    /\ transactions' = transactions \o
         [k \in DOMAIN inputs |->
            [Row(inputs[k].type, inputs[k].category, inputs[k].amount, l, NoReference)
             EXCEPT !.entry = Len(entries) + k]]

ProcessDepositDisposition(l, deductions) ==
    /\ Known(l)
    /\ PostDisposition(l, DispositionInputs(l, deductions))
    /\ leases' = [leases EXCEPT ![l].held = 0, ![l].status = "terminated"]
    /\ UNCHANGED <<liveRefs, recorded>>

(***************************************************************************)
(* The reconciliation of trust accounts.                                   *)
(***************************************************************************)
TrustCash == Balance(Mapped["trust_bank"])
Liability == -Balance(Mapped["security_deposit"])

DepositTypes == {"deposit_inflow", "deposit_return", "deposit_deduction"}
DepositRows(l) == OfTypes(LeaseTransactions(l), DepositTypes)
DepositOnRows(l) ==
    TotalOf(OfTypes(LeaseTransactions(l), {"deposit_inflow"}))
      - TotalOf(OfTypes(LeaseTransactions(l), {"deposit_return", "deposit_deduction"}))
(***************************************************************************)
(* The specification.                                                      *)
(***************************************************************************)
\* Users enter the deposit with the contract, and may enter another later.
EnterContract ==
    \E l \in Leases, terms \in Terms :
        /\ CreateLease(l, terms) \/ UpdateLease(l, terms)
        /\ recorded' =
             [recorded EXCEPT ![l] =
                @ + Max({0, terms.held - (IF l \in DOMAIN leases THEN Held(l) ELSE 0)})]
        /\ recorded'[l] <= MaxRecorded

TrustInit == LeasesInit /\ recorded = [l \in Leases |-> 0]
TrustNext ==
    \/ EnterContract
    \/ \E l \in Leases : DeleteLease(l) /\ UNCHANGED recorded
    \/ UseTransactions /\ UNCHANGED recorded
    \/ \E l \in Leases, amount \in RefundAmounts :
          RefundDeposit(l, amount) \/ ReturnOverpayment(l, amount)
    \/ \E l \in Leases, deductions \in DeductionLists :
          ProcessDepositDisposition(l, deductions)
TrustSpec == TrustInit /\ [][TrustNext]_TrustVars

(***************************************************************************)
(* Properties.                                                             *)
(***************************************************************************)
\* The deposit of a lease never becomes negative, and a history is kept of
\* every lease.
TrustTypeOK ==
    /\ TxTypeOK
    /\ \A l \in DOMAIN leases : leases[l] \in TermRecords /\ Held(l) >= 0
    /\ recorded \in [Leases -> Nat]

Returned(l) == TotalOf(OfTypes(LeaseTransactions(l), {"deposit_return"}))

\* By whatever sequence of refunds, dispositions, deletions and edits of the
\* contract: what is still held and what was returned is never more than what
\* was recorded as held.  (Users who post a deposit_return themselves bypass
\* the lease: HeldIsCollected.)
NeverReturnedTwice == \A l \in DOMAIN leases : Held(l) + Returned(l) <= recorded[l]

\* Deposits are not returned twice, and none is held that is negative.
DepositsAgree == TrustTypeOK /\ NeverReturnedTwice

\* The equation that three-way reconciliation audits, on the two accounts of
\* the ledger: the cash in trust is what is owed to tenants.
TrustCashIsOwed == TrustCash = Liability

\* docs/modules/leases.md: deposit_held_cents is the cash deposit that is
\* currently collected into trust.
\* Refuted: see the README.
HeldIsCollected == \A l \in DOMAIN leases : DepositRows(l) # {} => Held(l) = DepositOnRows(l)

LiabilityTo(l) ==
    -Total([i \in DOMAIN entries |->
              NetOf(entries[i].lines, {Mapped["security_deposit"]}, l)])

\* A disposition reconciles the deposit against the tenant's ledger: where
\* what was held is what the ledger owed, nothing is owed afterwards.
\* Refuted: see the README.
DispositionSettles ==
    [][\A l \in DOMAIN leases, deductions \in DeductionLists :
          /\ ProcessDepositDisposition(l, deductions)
          /\ LiabilityTo(l) = Held(l)
          /\ Unpaid(l) + Deducted(deductions) <= Held(l)
          => LiabilityTo(l)' = 0]_TrustVars
=============================================================================
