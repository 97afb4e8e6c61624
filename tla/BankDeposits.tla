---------------------------- MODULE BankDeposits ----------------------------
(***************************************************************************)
(* Grouped bank deposits (modules/accounting/backend/bank_deposits.ts):    *)
(* receipts accumulate in 1030 Undeposited Funds, a deposit slip moves a   *)
(* batch of them to a bank account, and voiding the slip returns them.     *)
(* Receipts are entries that any operation posts; here users post them.    *)
(*                                                                         *)
(* A deposit's bank_deposit_lines are a vector over the ledger: the cents  *)
(* taken from each entry, 0 for an entry that is not in the batch.         *)
(***************************************************************************)
EXTENDS Journal

CONSTANTS
    UndepositedFunds,   \* the account 1030
    BankAccounts,       \* active accounts of type Bank
    MaxDeposits         \* bound on bank_deposits

VARIABLE
    deposits            \* bank_deposits joined with bank_deposit_lines

bdVars == <<entries, liveRefs, deposits>>

DepositsAssumption ==
    /\ UndepositedFunds \in Accounts \ BankAccounts
    /\ BankAccounts \subseteq Accounts
    /\ MaxDeposits \in Nat

EntryIds == 1 .. MaxEntries

\* The lines of an entry that debit 1030.
ReceiptLines(i) ==
    {k \in DOMAIN entries[i].lines :
       entries[i].lines[k].account = UndepositedFunds /\ entries[i].lines[k].debit > 0}

\* The entry is in a deposit that is not voided.
Cleared(i) ==
    \E d \in DOMAIN deposits : deposits[d].status = "cleared" /\ deposits[d].amounts[i] > 0

\* The entries that createDeposit accepts: they debit 1030, are not reversed,
\* and are neither deposits nor reversals.
IsReceipt(i) ==
    /\ i \in DOMAIN entries
    /\ ReceiptLines(i) # {}
    /\ entries[i].reversedBy = 0
    /\ entries[i].source \notin {"bank_deposit", "reversal"}

Undeposited(i) == IsReceipt(i) /\ ~Cleared(i)

\* listUndepositedReceipts: all their debit lines to 1030.
ListedAmount(i) == NetDebit([k \in DOMAIN entries[i].lines |->
                               [entries[i].lines[k] EXCEPT !.credit = 0]],
                            {UndepositedFunds})
TotalListed ==
    Total([i \in DOMAIN entries |-> IF Undeposited(i) THEN ListedAmount(i) ELSE 0])

\* createDeposit takes one debit line of each receipt, the first one stored.
BatchLine(i) == entries[i].lines[Min(ReceiptLines(i))]

\* Dr the bank, Cr 1030; both lines carry the property of the receipt that the
\* request names first.
DepositLines(bank, amount, ref) ==
    << [account |-> bank, debit |-> amount, credit |-> 0, ref |-> ref],
       [account |-> UndepositedFunds, debit |-> 0, credit |-> amount, ref |-> ref] >>

CreateDeposit(bank, receipts, first) ==
    LET amounts == [i \in EntryIds |-> IF i \in receipts THEN BatchLine(i).debit ELSE 0]
    IN  /\ Len(deposits) < MaxDeposits
        /\ \A i \in receipts : Undeposited(i)
        /\ first \in receipts
        /\ deposits' = Append(deposits,
                         [bank |-> bank, amounts |-> amounts, status |-> "cleared"])
        /\ PostEntry("bank_deposit", Len(deposits) + 1,
                     DepositLines(bank, Total(amounts), BatchLine(first).ref))
        /\ UNCHANGED liveRefs

\* The unreversed entry of a deposit.
OpenPostings(d) ==
    {i \in DOMAIN entries : /\ entries[i].source = "bank_deposit"
                            /\ entries[i].doc = d
                            /\ entries[i].reversedBy = 0}

VoidDeposit(d) ==
    /\ deposits[d].status # "voided"
    /\ \/ OpenPostings(d) = {} /\ UNCHANGED entries
       \/ \E i \in OpenPostings(d) : ReverseEntry(i)
    /\ deposits' = [deposits EXCEPT ![d].status = "voided"]
    /\ UNCHANGED liveRefs

BDInit == Init /\ deposits = <<>>

DepositRequests ==
    \/ \E bank \in BankAccounts, receipts \in SUBSET DOMAIN entries :
         \E first \in receipts : CreateDeposit(bank, receipts, first)
    \/ \E d \in DOMAIN deposits : VoidDeposit(d)

BDNext ==
    \/ DepositRequests
    \/ \E source \in ManualSources, lines \in ManualLines :
          PostManual(source, lines) /\ UNCHANGED deposits
    \/ \E i \in DOMAIN entries : ReverseManual(i) /\ UNCHANGED deposits
    \/ \E r \in Refs : SoftDelete(r) /\ UNCHANGED deposits

BDSpec == BDInit /\ [][BDNext]_bdVars

(***************************************************************************)
(* Properties.                                                             *)
(***************************************************************************)
Deposits == [bank : BankAccounts, amounts : [EntryIds -> Nat],
             status : {"cleared", "voided"}]

BDTypeOK ==
    /\ TypeOK
    /\ deposits \in Seq(Deposits) /\ Len(deposits) <= MaxDeposits

\* A receipt is in at most one deposit that is not voided, in whatever order
\* deposits are made, voided and made again, and was in the ledger before it.
DepositedOnce ==
    \A i \in EntryIds :
        /\ Cardinality({d \in DOMAIN deposits :
                          deposits[d].status = "cleared" /\ deposits[d].amounts[i] > 0}) <= 1
        /\ Cleared(i) => /\ i \in DOMAIN entries
                         /\ entries[i].source \notin {"bank_deposit", "reversal"}

\* A cleared deposit has exactly one entry, a voided one has none that is open;
\* and the entry moves what was taken from the receipts.
PostingsMatchDeposits ==
    \A d \in DOMAIN deposits :
        LET posted == {i \in DOMAIN entries :
                         entries[i].source = "bank_deposit" /\ entries[i].doc = d}
        IN  /\ \E i \in posted :
                 /\ posted = {i}
                 /\ Effect(entries[i].lines, deposits[d].bank) = Total(deposits[d].amounts)
            /\ deposits[d].status = "voided" => OpenPostings(d) = {}

\* No reversal has been made by hand of a deposit, of a receipt in a deposit
\* that is cleared, or of a reversal.
DepositsStand ==
    \A i \in DOMAIN entries :
        /\ entries[i].source = "bank_deposit" /\ entries[i].doc # 0 =>
             (Stands[i] <=> deposits[entries[i].doc].status = "cleared")
        /\ entries[i].source \notin {"bank_deposit", "reversal"} =>
             /\ Stands[i] <=> entries[i].reversedBy = 0
             /\ Cleared(i) => Stands[i]

\* Then the balance of 1030 in the general ledger is the list of receipts that
\* await deposit: nothing is lost between a receipt, its batch and a void.
UndepositedAgrees == DepositsStand => Balance(UndepositedFunds) = TotalListed

\* What the proof needs of users, which the API does not refuse and the run
\* `split_receipt` shows to matter: a receipt debits 1030 in one line, the one
\* that a deposit takes, and only deposits credit it.
WholeReceipts ==
    \A i \in DOMAIN entries :
        LET onFunds == {k \in DOMAIN entries[i].lines :
                          entries[i].lines[k].account = UndepositedFunds}
        IN  IF entries[i].source \in {"bank_deposit", "reversal"}
            THEN entries[i].doc # 0 \/ onFunds = {}
            ELSE \A k \in onFunds : onFunds = {k} /\ entries[i].lines[k].debit > 0
=============================================================================
