------------------------------ MODULE Journal -------------------------------
(***************************************************************************)
(* The general ledger of one operator: JournalService.postEntry and        *)
(* reverseEntry of modules/accounting/backend/journal.ts, and the two HTTP *)
(* routes that call them directly.                                         *)
(*                                                                         *)
(* The database is synchronous and every operation validates and writes in *)
(* one transaction, so an operation is one atomic action; requests         *)
(* interleave between operations.  journal_entries is a sequence: the      *)
(* position of an entry stands for its id.                                 *)
(***************************************************************************)
EXTENDS Integers, Sequences, FiniteSets, FiniteSetsExt

CONSTANTS
    Accounts,           \* the operator's chart of accounts
    ForeignAccounts,    \* account ids that are not in the operator's chart
    TrustBank,          \* accounts numbered 1020 or mapped to trust_bank
    DepositLiability,   \* accounts numbered 2100 or mapped to security_deposit
    Operating,          \* Income, Expense, COGS accounts and operating banks
    Refs,               \* properties, units, contacts and leases
    NoRef,              \* a line that names none of them
    ManualLines,        \* the line lists that users submit
    ManualSources,      \* the source types that users give them
    MaxEntries          \* bound on the length of the ledger

VARIABLES
    entries,            \* journal_entries joined with their journal_lines
    liveRefs            \* the references whose deleted_at is NULL

(***************************************************************************)
(* SUM over the rows of a table.  A table is a sequence of rows in the     *)
(* order of their creation, so that a row's identifier is its position.    *)
(* The total is a running total, the way a query or a loop over the rows   *)
(* computes it; it is a recursive function and not an operator so that     *)
(* theorems can speak of it.                                               *)
(***************************************************************************)
Total(f) ==
    LET running[i \in 0 .. Len(f)] == IF i = 0 THEN 0 ELSE running[i - 1] + f[i]
    IN  running[Len(f)]

AccountIds == Accounts \cup ForeignAccounts
LineInputs == [account : AccountIds, debit : Int, credit : Int,
               ref : Refs \cup {NoRef}]
DocumentSources == {"manual_journal", "bill", "vendor_check", "vendor_credit",
                    "bank_deposit", "charge", "payment", "expense", "refund",
                    "deposit_inflow", "deposit_return", "deposit_deduction",
                    "deposit_refund", "late_fee", "credit_concession"}
Sources == DocumentSources \cup {"reversal"}
Lines == [account : Accounts, debit : Nat, credit : Nat, ref : Refs \cup {NoRef}]

ASSUME JournalAssumption ==
    /\ TrustBank \subseteq Accounts
    /\ DepositLiability \subseteq Accounts
    /\ Operating \subseteq Accounts
    /\ Accounts \cap ForeignAccounts = {}
    /\ NoRef \notin Refs
    /\ ManualLines \subseteq Seq(LineInputs)
    /\ ManualSources \subseteq Sources
    /\ IsFiniteSet(Accounts) /\ MaxEntries \in Nat

(***************************************************************************)
(* Validation of the lines of an entry.                                    *)
(***************************************************************************)
Debits(lines)  == Total([k \in DOMAIN lines |-> lines[k].debit])
Credits(lines) == Total([k \in DOMAIN lines |-> lines[k].credit])

OneSided(line) ==
    /\ line.debit >= 0 /\ line.credit >= 0
    /\ (line.debit > 0) # (line.credit > 0)

\* Wrong: the comparison of the two sums is left out.
WellFormedUnbalanced(lines) ==
    /\ Len(lines) >= 2
    /\ \A k \in DOMAIN lines : OneSided(lines[k])

WellFormed(lines) ==
    /\ Len(lines) >= 2
    /\ \A k \in DOMAIN lines : OneSided(lines[k])
    /\ Debits(lines) = Credits(lines)
    /\ Debits(lines) > 0

\* Wrong: the lookup of the account is not scoped to the operator's chart.
ResolvesAnyAccount(lines, historical) ==
    \A k \in DOMAIN lines :
        lines[k].ref \in {NoRef} \cup (IF historical THEN Refs ELSE liveRefs)

\* Wrong: historicalReferenceMode is not passed on.
ResolvesLiveOnly(lines, historical) ==
    \A k \in DOMAIN lines :
        /\ lines[k].account \in Accounts
        /\ lines[k].ref \in {NoRef} \cup liveRefs

\* Lookups of accounts and references: historicalReferenceMode also finds the
\* soft-deleted references.
Resolves(lines, historical) ==
    \A k \in DOMAIN lines :
        /\ lines[k].account \in Accounts
        /\ lines[k].ref \in {NoRef} \cup (IF historical THEN Refs ELSE liveRefs)

\* Net debit of the lines that touch the accounts of S.
NetDebit(lines, S) ==
    Total([k \in DOMAIN lines |->
             IF lines[k].account \in S THEN lines[k].debit - lines[k].credit ELSE 0])

Touches(lines, S) == \E k \in DOMAIN lines : lines[k].account \in S

\* The statutory trust check.
Commingles(lines) ==
    /\ Touches(lines, TrustBank)
    /\ Touches(lines, Operating)
    /\ \/ NetDebit(lines, TrustBank) # -NetDebit(lines, DepositLiability)
       \/ NetDebit(lines, TrustBank) # 0

MayPost(lines, historical) ==
    /\ WellFormed(lines)
    /\ Resolves(lines, historical)
    /\ ~Commingles(lines)

(***************************************************************************)
(* The rows that the operations write.                                     *)
(***************************************************************************)
NextNumber == 1 + Max({0} \cup {entries[i].number : i \in DOMAIN entries})

\* source is source_type, doc is source_id: the position of the document or,
\* for a reversal, of the entry it reverses; 0 is NULL.
NewEntry(source, doc, lines) ==
    [number |-> NextNumber, source |-> source, doc |-> doc, lines |-> lines,
     reversedBy |-> 0]

PostEntry(source, doc, lines) ==
    /\ Len(entries) < MaxEntries
    /\ MayPost(lines, FALSE)
    /\ entries' = Append(entries, NewEntry(source, doc, lines))

Swap(lines) ==
    [k \in DOMAIN lines |->
       [lines[k] EXCEPT !.debit = lines[k].credit, !.credit = lines[k].debit]]

\* Wrong: an entry that is already reversed can be reversed again.
ReverseAgain(i) ==
    /\ i \in DOMAIN entries
    /\ Len(entries) < MaxEntries
    /\ MayPost(Swap(entries[i].lines), TRUE)
    /\ entries' = Append([entries EXCEPT ![i].reversedBy = Len(entries) + 1],
                         NewEntry("reversal", i, Swap(entries[i].lines)))

\* Wrong: the original is not marked as reversed.
ReverseUnmarked(i) ==
    /\ i \in DOMAIN entries
    /\ entries[i].reversedBy = 0
    /\ Len(entries) < MaxEntries
    /\ MayPost(Swap(entries[i].lines), TRUE)
    /\ entries' = Append(entries, NewEntry("reversal", i, Swap(entries[i].lines)))

ReverseEntry(i) ==
    /\ i \in DOMAIN entries
    /\ entries[i].reversedBy = 0
    /\ Len(entries) < MaxEntries
    /\ MayPost(Swap(entries[i].lines), TRUE)
    /\ entries' = Append([entries EXCEPT ![i].reversedBy = Len(entries) + 1],
                         NewEntry("reversal", i, Swap(entries[i].lines)))

(***************************************************************************)
(* The routes, and the soft deletion of what a line may name.              *)
(***************************************************************************)
\* The request chooses the source type; it cannot choose a source_id.
PostManual(source, lines) ==
    /\ PostEntry(source, 0, lines)
    /\ UNCHANGED liveRefs

ReverseManual(i) ==
    /\ ReverseEntry(i)
    /\ UNCHANGED liveRefs

SoftDelete(r) ==
    /\ r \in liveRefs
    /\ liveRefs' = liveRefs \ {r}
    /\ UNCHANGED entries

Init ==
    /\ entries = <<>>
    /\ liveRefs = Refs

Next ==
    \/ \E source \in ManualSources, lines \in ManualLines : PostManual(source, lines)
    \/ \E i \in DOMAIN entries : ReverseManual(i)
    \/ \E r \in Refs : SoftDelete(r)

vars == <<entries, liveRefs>>
Spec == Init /\ [][Next]_vars

(***************************************************************************)
(* Reading the ledger.                                                     *)
(***************************************************************************)
\* The entry was written by reverseEntry: a user may post other entries with
\* the source type of reversals, but those have no source_id.
IsReversal(i) == entries[i].source = "reversal" /\ entries[i].doc # 0

\* The effect of a list of lines on an account, and the account's balance.
Effect(lines, a) == NetDebit(lines, {a})
Balance(a) == Total([i \in DOMAIN entries |-> Effect(entries[i].lines, a)])

\* An entry counts when the chain of reversals that starts at it has an even
\* length: it is not reversed, or its reversal is reversed, and so on.
Stands[i \in DOMAIN entries] ==
    entries[i].reversedBy = 0 \/ ~Stands[entries[i].reversedBy]

(***************************************************************************)
(* Properties.                                                             *)
(***************************************************************************)
Entries == [number : Nat, source : Sources, doc : Nat,
            lines : Seq(Lines), reversedBy : Nat]

\* Every stored row has the columns the schema declares: account ids of the
\* operator's own chart and non-negative cents.
TypeOK ==
    /\ entries \in Seq(Entries)
    /\ liveRefs \subseteq Refs

\* Every stored entry balances, reversals included: postEntry's invariant
\* Sum(Debits) = Sum(Credits) > 0 holds of what is in the tables.
EntriesBalanced ==
    \A i \in DOMAIN entries :
        /\ Debits(entries[i].lines) = Credits(entries[i].lines)
        /\ Debits(entries[i].lines) > 0

\* reversed_by_entry_id and the source of a reversal are inverse to each
\* other, and the two entries are exact opposites: no entry is undone twice,
\* by whatever mix of routes and document voids it is reversed.
ReversalsPaired ==
    /\ \A i \in DOMAIN entries :
          LET j == entries[i].reversedBy
          IN  j # 0 => /\ j \in (i + 1) .. Len(entries)
                       /\ entries[j].source = "reversal"
                       /\ entries[j].doc = i
                       /\ entries[j].lines = Swap(entries[i].lines)
    /\ \A j \in DOMAIN entries :
          IsReversal(j) =>
              /\ entries[j].doc \in 1 .. (j - 1)
              /\ entries[entries[j].doc].reversedBy = j

\* The balance of every account is what the entries that still stand put on
\* it; reversals, and reversals of reversals, leave no residue.
BalancesFromStandingEntries ==
    \A a \in Accounts :
        Balance(a) =
          Total([i \in DOMAIN entries |->
                   IF ~IsReversal(i) /\ Stands[i]
                   THEN Effect(entries[i].lines, a) ELSE 0])

\* So a chain of reversals, however long, does what its parity says.
ReversalsCancel == ReversalsPaired /\ BalancesFromStandingEntries

\* An entry that is not reversed can be: soft-deleting what its lines name
\* must not make it impossible to undo (historicalReferenceMode).
AlwaysReversible ==
    \A i \in DOMAIN entries :
        entries[i].reversedBy = 0 => MayPost(Swap(entries[i].lines), TRUE)

\* Entry numbers are consecutive in the order of posting.
NumbersConsecutive == \A i \in DOMAIN entries : entries[i].number = i

\* The journal is an append-only ledger: across every operation, posted
\* entries keep their effect, and what a void does is one opposite entry.
Ledger ==
    INSTANCE AppendOnlyLedger WITH
        ledger <- [i \in DOMAIN entries |->
                     [effect |-> [a \in Accounts |-> Effect(entries[i].lines, a)],
                      undoneBy |-> entries[i].reversedBy]]
IsAppendOnlyLedger == Ledger!Spec
=============================================================================
