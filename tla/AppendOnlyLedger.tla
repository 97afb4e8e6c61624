-------------------------- MODULE AppendOnlyLedger --------------------------
(***************************************************************************)
(* What the general ledger promises to every reader of it, whatever        *)
(* component writes: it only grows, each entry moves value between         *)
(* accounts without creating any, and an entry is undone by at most one    *)
(* later entry, which has the opposite effect on every account.            *)
(*                                                                         *)
(* An entry is its effect on each account and the position of the entry    *)
(* that undoes it (0 for none).                                            *)
(***************************************************************************)
EXTENDS Integers, Sequences, Functions

CONSTANT Accounts
VARIABLE ledger

ZeroSum(effect) == FoldFunction(LAMBDA x, y : x + y, 0, effect) = 0

\* The entries after those that there are, each of which sums to zero.
Appends(last) ==
    /\ DOMAIN ledger' = 1 .. last
    /\ \A new \in (Len(ledger) + 1) .. last :
          ledger'[new].undoneBy = 0 /\ ZeroSum(ledger'[new].effect)

\* New entries that undo nothing: one, or all that a backfill finds.
Post ==
    /\ Len(ledger') > Len(ledger)
    /\ Appends(Len(ledger'))
    /\ \A i \in DOMAIN ledger : ledger'[i] = ledger[i]

\* A new entry that undoes entry i.
Undo(i) ==
    LET new == Len(ledger) + 1
    IN  /\ ledger[i].undoneBy = 0
        /\ Appends(new)
        /\ \A a \in Accounts : ledger'[new].effect[a] = -ledger[i].effect[a]
        /\ ledger'[i] = [ledger[i] EXCEPT !.undoneBy = new]
        /\ \A j \in DOMAIN ledger \ {i} : ledger'[j] = ledger[j]

Init == ledger = <<>>
Next == Post \/ \E i \in DOMAIN ledger : Undo(i)
Spec == Init /\ [][Next]_ledger
=============================================================================
