-------------------------- MODULE OperationsProofs ---------------------------
(***************************************************************************)
(* The tables beside the journal and the bus that writes them.  Bank       *)
(* deposits batch each receipt once and are posted, transactions and their *)
(* entries mirror each other, older ones once a backfill posted them; they *)
(* say what tenants owe and what vendors were paid.  With deposits or with *)
(* new transactions the journal still implements AppendOnlyLedger; a       *)
(* tenant is charged once for a month and gets no more deposit back than   *)
(* was recorded, and a run that ends has billed every lease.  Events leave *)
(* their queue in order, and the list holds the latest failures; a         *)
(* completion that was handled is an expense of the ledger, and one that   *)
(* was lost, failed or waits is none; no request puts an order in work     *)
(* that the portfolio does not allow, and its primary vendor is assigned   *)
(* to it.  A batch is stored as a whole or not at all.  All of it for      *)
(* every chart and every number of leases, rows, entries, orders, events,  *)
(* dead letters and batches.                                               *)
(***************************************************************************)
EXTENDS Backfill, BankDeposits, BulkIngestion, LeaseCharges, LeaseTrust, PreventativeMaintenance,
        JournalProofs, SequenceTheorems

LEMMA AtMostOne ==
    ASSUME NEW S, \A x, y \in S : x = y
    PROVE  Cardinality(S) <= 1
<1>1. CASE S = {}
  BY <1>1, FS_EmptySet
<1>2. CASE S # {}
  <2>1. PICK x : S = {x}
    BY <1>2
  <2>2. Cardinality({x}) = 1
    BY FS_Singleton
  <2> QED BY <2>1, <2>2
<1> QED BY <1>1, <1>2

(***************************************************************************)
(* Bank deposits.                                                          *)
(***************************************************************************)
\* The deposit d takes cents of the entry i and is not voided.
Takes(d, i) == deposits[d].status = "cleared" /\ deposits[d].amounts[i] > 0
IsDocument(i) == entries[i].source \notin {"bank_deposit", "reversal"}

\* What is taken by a deposit is a receipt of the ledger, and by no other one.
TakenOnce ==
    \A d \in DOMAIN deposits, i \in EntryIds :
        Takes(d, i) => /\ i \in DOMAIN entries /\ IsDocument(i)
                       /\ \A e \in DOMAIN deposits : Takes(e, i) => e = d

IsPosting(i, d) == entries[i].source = "bank_deposit" /\ entries[i].doc = d

\* The entry of a deposit.
PostingOf(i, d) ==
    /\ i \in DOMAIN entries /\ IsPosting(i, d)
    /\ \A j \in DOMAIN entries : IsPosting(j, d) => j = i
    /\ Effect(entries[i].lines, deposits[d].bank) = Total(deposits[d].amounts)
    /\ deposits[d].status = "voided" => entries[i].reversedBy # 0

\* Entries of deposits are of those that there are.
PostedDeposits ==
    \A i \in DOMAIN entries :
        entries[i].source = "bank_deposit" => entries[i].doc \in 0 .. Len(deposits)

BDInv ==
    /\ DepositsAssumption
    /\ JournalInv /\ Len(entries) <= MaxEntries
    /\ deposits \in Seq(Deposits)
    /\ TakenOnce /\ PostedDeposits
    /\ \A d \in DOMAIN deposits : \E i : PostingOf(i, d)

LEMMA DepositsInitial == DepositsAssumption /\ BDInit => BDInv
<1> SUFFICES ASSUME DepositsAssumption, BDInit PROVE BDInv
  OBVIOUS
<1>1. JournalInv /\ entries = <<>> /\ deposits = <<>>
  BY JournalInit DEF BDInit, Init
<1>2. Len(entries) <= MaxEntries
  BY <1>1, JournalAssumption
<1> QED BY <1>1, <1>2 DEF BDInv, TakenOnce, PostedDeposits

LEMMA DepositRow ==
    ASSUME BDInv, NEW d \in DOMAIN deposits
    PROVE  /\ deposits[d].bank \in BankAccounts /\ deposits[d].amounts \in [EntryIds -> Nat]
           /\ deposits[d].status \in {"cleared", "voided"}
<1>1. deposits[d] \in Deposits
  BY DEF BDInv
<1> QED BY <1>1 DEF Deposits

\* Entries of other operations than those on deposits.
LEMMA OthersKeepDeposits ==
    ASSUME BDInv, JournalInv', Kept, UNCHANGED deposits,
           \A i \in DOMAIN entries' \ DOMAIN entries :
              entries'[i].source = "bank_deposit" => entries'[i].doc = 0
    PROVE  BDInv'
<1>1. DOMAIN deposits = 1 .. Len(deposits) /\ Len(deposits) \in Nat
  BY DEF BDInv
<1>2. TakenOnce'
  BY DEF BDInv, TakenOnce, Takes, IsDocument, Kept, EntryIds
<1>3. PostedDeposits'
  <2>1. 0 \in 0 .. Len(deposits)
    BY <1>1
  <2> QED BY <2>1 DEF BDInv, PostedDeposits, Kept
<1>4. ASSUME NEW d \in DOMAIN deposits PROVE \E i : PostingOf(i, d)'
  <2>1. PICK i : PostingOf(i, d)
    BY DEF BDInv
  <2>2. d # 0
    BY <1>1
  <2>3. \A j \in DOMAIN entries' : IsPosting(j, d)' => j \in DOMAIN entries /\ IsPosting(j, d)
    BY <2>2 DEF IsPosting, Kept
  <2>4. /\ i \in DOMAIN entries' /\ IsPosting(i, d)'
        /\ Effect(entries'[i].lines, deposits'[d].bank) = Total(deposits'[d].amounts)
        /\ deposits'[d].status = "voided" => entries'[i].reversedBy # 0
    BY <2>1 DEF PostingOf, Kept, IsPosting
  <2> QED BY <2>1, <2>3, <2>4 DEF PostingOf
<1>5. deposits' \in Seq(Deposits) /\ Len(entries') <= MaxEntries
  BY DEF BDInv, Deposits, Kept, EntryIds
<1> QED BY <1>2, <1>3, <1>4, <1>5 DEF BDInv, DepositsAssumption

\* The line that a deposit takes of a receipt.
LEMMA BatchLineIs ==
    ASSUME TypeOK, NEW i \in DOMAIN entries, ReceiptLines(i) # {}
    PROVE  BatchLine(i).debit \in Nat \ {0} /\ BatchLine(i).ref \in Refs \cup {NoRef}
<1> DEFINE T == ReceiptLines(i)
<1>1. entries[i].lines \in Seq(Lines)
  BY EntryFields
<1>2. T \subseteq Nat /\ T # {}
  BY <1>1 DEF ReceiptLines
<1>3. \E m \in T : \A k \in T : m <= k
  <2> HIDE DEF T
  <2> QED BY <1>2, LeastNatural
<1>4. Min(T) \in T
  <2> HIDE DEF T
  <2> QED BY <1>3 DEF Min
<1>5. PICK k \in T : k = Min(T)
  BY <1>4
<1>6. BatchLine(i) = entries[i].lines[k]
  BY <1>5 DEF BatchLine
<1>7. entries[i].lines[k].debit > 0 /\ entries[i].lines[k] \in Lines
  BY <1>1 DEF ReceiptLines
<1> QED BY <1>6, <1>7 DEF Lines

\* The lines of a deposit put its amount on the bank.
LEMMA DepositLinesAre ==
    ASSUME DepositsAssumption, NEW bank \in BankAccounts, NEW amount \in Nat,
           NEW ref \in Refs \cup {NoRef}
    PROVE  /\ DepositLines(bank, amount, ref) \in Seq(LineInputs)
           /\ Effect(DepositLines(bank, amount, ref), bank) = amount
<1> DEFINE lines == DepositLines(bank, amount, ref)
           f == [k \in DOMAIN lines |->
                   IF lines[k].account \in {bank} THEN lines[k].debit - lines[k].credit
                   ELSE 0]
<1>1. /\ bank \in AccountIds /\ UndepositedFunds \in AccountIds
      /\ bank # UndepositedFunds /\ amount \in Int
  BY DEF DepositsAssumption, AccountIds
<1> DEFINE d == [account |-> bank, debit |-> amount, credit |-> 0, ref |-> ref]
           c == [account |-> UndepositedFunds, debit |-> 0, credit |-> amount, ref |-> ref]
<1>2. /\ d \in LineInputs /\ c \in LineInputs
      /\ d.account = bank /\ d.debit = amount /\ d.credit = 0
      /\ c.account = UndepositedFunds
  BY <1>1 DEF LineInputs
<1>3. lines = <<d, c>>
  BY DEF DepositLines
<1> HIDE DEF lines, d, c
<1>4. lines \in Seq(LineInputs) /\ DOMAIN lines = 1 .. 2 /\ lines[1] = d /\ lines[2] = c
  BY <1>2, <1>3
<1>5. f[1] = amount /\ f[2] = 0 /\ f \in Seq(Int) /\ Len(f) = 2
  <2>1. f[1] = amount
    <3>1. f[1] = amount - 0
      BY <1>2, <1>4
    <3> QED BY <3>1, <1>1
  <2>2. f[2] = 0
    BY <1>1, <1>2, <1>4
  <2>3. f \in Seq(Int)
    BY <1>4, LineSums
  <2>4. DOMAIN f = 1 .. 2
    BY <1>4
  <2> HIDE DEF f
  <2> QED BY <2>1, <2>2, <2>3, <2>4
<1>6. NetDebit(lines, {bank}) = Total(f)
  BY DEF NetDebit
<1> HIDE DEF f
<1>7. f = Append(Append(<< >>, amount), 0)
  BY <1>1, <1>5
<1>8. Total(f) = 0 + amount + 0
  <2>1. << >> \in Seq(Int) /\ Append(<< >>, amount) \in Seq(Int) /\ 0 \in Int
    BY <1>1
  <2>2. Total(Append(<< >>, amount)) = 0 + amount
    BY <1>1, <2>1, TotalAppend, TotalEmpty
  <2>3. Total(Append(Append(<< >>, amount), 0)) = Total(Append(<< >>, amount)) + 0
    BY <2>1, TotalAppend
  <2> QED BY <1>7, <2>2, <2>3
<1>9. Effect(lines, bank) = amount
  BY <1>1, <1>6, <1>8 DEF Effect
<1> QED BY <1>4, <1>9 DEF lines

LEMMA CreateDepositStep ==
    ASSUME BDInv, NEW bank \in BankAccounts, NEW receipts \in SUBSET DOMAIN entries,
           NEW first \in receipts, CreateDeposit(bank, receipts, first)
    PROVE  BDInv' /\ \E doc, lines : PostEntry("bank_deposit", doc, lines)
<1> DEFINE amounts == [i \in EntryIds |-> IF i \in receipts THEN BatchLine(i).debit ELSE 0]
           new == [bank |-> bank, amounts |-> amounts, status |-> "cleared"]
           lines == DepositLines(bank, Total(amounts), BatchLine(first).ref)
<1>0. PICK n, d0 : n = Len(entries) /\ d0 = Len(deposits) + 1
  OBVIOUS
<1>1. /\ \A i \in receipts : Undeposited(i)
      /\ Len(deposits) < MaxDeposits
      /\ deposits' = Append(deposits, new)
      /\ PostEntry("bank_deposit", d0, lines) /\ UNCHANGED liveRefs
  BY <1>0 DEF CreateDeposit
<1>2. /\ DepositsAssumption /\ JournalInv /\ TypeOK /\ deposits \in Seq(Deposits)
      /\ liveRefs \subseteq Refs /\ n \in Nat /\ DOMAIN entries = 1 .. n /\ n <= MaxEntries
  BY <1>0 DEF BDInv, JournalInv, TypeOK
<1>3. MaxEntries \in Nat /\ DOMAIN entries \subseteq EntryIds
  BY <1>2, JournalAssumption DEF EntryIds
<1>4. \A i \in receipts : BatchLine(i).debit \in Nat \ {0} /\ BatchLine(i).ref \in Refs \cup {NoRef}
  BY <1>1, <1>2, BatchLineIs DEF Undeposited, IsReceipt
<1>5. amounts \in [EntryIds -> Nat] /\ amounts \in Seq(Nat)
  <2>1. amounts \in [EntryIds -> Nat]
    BY <1>4
  <2> HIDE DEF amounts
  <2> QED BY <1>3, <2>1 DEF EntryIds
<1>6. \A i \in EntryIds : amounts[i] > 0 <=> i \in receipts
  BY <1>4
<1>7. Total(amounts) \in Nat
  BY <1>5, TotalOfNaturals
<1> HIDE DEF amounts
<1>8. /\ lines \in Seq(LineInputs) /\ Effect(lines, bank) = Total(amounts)
  BY <1>2, <1>4, <1>7, DepositLinesAre
<1> HIDE DEF lines
<1>9. d0 \in Nat /\ d0 # 0 /\ DOMAIN deposits = 1 .. Len(deposits) /\ Len(deposits) \in Nat
  BY <1>0, <1>2
<1>10. new \in Deposits /\ new.bank = bank /\ new.amounts = amounts /\ new.status = "cleared"
  BY <1>5 DEF Deposits
<1> HIDE DEF new
<1>11. /\ deposits' \in Seq(Deposits) /\ DOMAIN deposits' = DOMAIN deposits \cup {d0}
       /\ Len(deposits') = d0 /\ deposits'[d0] = new /\ d0 \notin DOMAIN deposits
       /\ \A d \in DOMAIN deposits : deposits'[d] = deposits[d]
  BY <1>0, <1>1, <1>2, <1>9, <1>10
<1>12. JournalInv'
  <2>1. "bank_deposit" \in Sources /\ "bank_deposit" # "reversal"
    BY DEF Sources, DocumentSources
  <2>2. d0 \in Nat /\ liveRefs' \subseteq Refs
    BY <1>1, <1>2, <1>9
  <2> QED BY <1>1, <1>2, <1>8, <2>1, <2>2, PostPreserves
<1>13. /\ Kept /\ DOMAIN entries' = DOMAIN entries \cup {n + 1} /\ n + 1 \notin DOMAIN entries
       /\ entries'[n + 1].source = "bank_deposit" /\ entries'[n + 1].doc = d0
       /\ entries'[n + 1].lines = lines
       /\ \A i \in DOMAIN entries : entries'[i] = entries[i]
  BY <1>0, <1>1, <1>2, PostKeeps
<1>14. TakenOnce'
  <2>1. \A i \in EntryIds :
           Takes(d0, i)' => i \in DOMAIN entries /\ IsDocument(i) /\ ~Cleared(i)
    BY <1>1, <1>6, <1>10, <1>11 DEF Takes, IsDocument, Undeposited, IsReceipt
  <2>2. \A d \in DOMAIN deposits, i \in EntryIds : Takes(d, i)' <=> Takes(d, i)
    BY <1>11 DEF Takes
  <2>3. \A i \in DOMAIN entries : i \in DOMAIN entries' /\ (IsDocument(i)' <=> IsDocument(i))
    BY <1>13 DEF IsDocument
  <2>4. \A i \in EntryIds : Cleared(i) <=> \E d \in DOMAIN deposits : Takes(d, i)
    BY DEF Cleared, Takes
  <2>5. ASSUME NEW d \in DOMAIN deposits', NEW i \in EntryIds, Takes(d, i)'
        PROVE  /\ i \in DOMAIN entries' /\ IsDocument(i)'
               /\ \A e \in DOMAIN deposits' : Takes(e, i)' => e = d
    <3>1. CASE d = d0
      BY <1>11, <2>1, <2>2, <2>3, <2>4, <2>5, <3>1
    <3>2. CASE d # d0
      <4>1. d \in DOMAIN deposits /\ Takes(d, i)
        BY <1>11, <2>2, <2>5, <3>2
      <4> QED BY <1>11, <2>1, <2>2, <2>3, <2>4, <4>1 DEF BDInv, TakenOnce
    <3> QED BY <3>1, <3>2
  <2> QED BY <2>5 DEF TakenOnce
<1>15. PostedDeposits'
  <2>1. 0 .. Len(deposits) \subseteq 0 .. d0 /\ d0 \in 0 .. d0
    BY <1>0, <1>9
  <2> QED BY <1>11, <1>13, <2>1 DEF BDInv, PostedDeposits
<1>16. \A i \in DOMAIN entries : ~(entries[i].source = "bank_deposit" /\ entries[i].doc = d0)
  BY <1>0, <1>9 DEF BDInv, PostedDeposits
<1>17. PostingOf(n + 1, d0)'
  <2>1. \A j \in DOMAIN entries' : IsPosting(j, d0)' => j = n + 1
    BY <1>13, <1>16 DEF IsPosting
  <2>2. n + 1 \in DOMAIN entries' /\ IsPosting(n + 1, d0)'
    BY <1>13 DEF IsPosting
  <2>3. Effect(entries'[n + 1].lines, deposits'[d0].bank) = Total(deposits'[d0].amounts)
    BY <1>8, <1>10, <1>11, <1>13
  <2>4. deposits'[d0].status # "voided"
    BY <1>10, <1>11
  <2> QED BY <2>1, <2>2, <2>3, <2>4 DEF PostingOf
<1>18. ASSUME NEW d \in DOMAIN deposits PROVE \E i : PostingOf(i, d)'
  <2>1. PICK i : PostingOf(i, d)
    BY DEF BDInv
  <2>2. d # d0
    BY <1>11
  <2>3. \A j \in DOMAIN entries' : IsPosting(j, d)' => j \in DOMAIN entries /\ IsPosting(j, d)
    BY <1>13, <2>2 DEF IsPosting
  <2>4. /\ i \in DOMAIN entries' /\ IsPosting(i, d)'
        /\ Effect(entries'[i].lines, deposits'[d].bank) = Total(deposits'[d].amounts)
        /\ deposits'[d].status = "voided" => entries'[i].reversedBy # 0
    BY <1>11, <1>13, <2>1 DEF PostingOf, IsPosting
  <2> QED BY <2>1, <2>3, <2>4 DEF PostingOf
<1>19. \A d \in DOMAIN deposits' : \E i : PostingOf(i, d)'
  BY <1>11, <1>17, <1>18
<1>20. Len(entries') <= MaxEntries
  BY <1>13 DEF Kept
<1> QED BY <1>1, <1>2, <1>11, <1>12, <1>14, <1>15, <1>19, <1>20 DEF BDInv, DepositsAssumption

LEMMA VoidDepositStep ==
    ASSUME BDInv, NEW d \in DOMAIN deposits, VoidDeposit(d)
    PROVE  BDInv' /\ (UNCHANGED entries \/ \E i \in DOMAIN entries : ReverseEntry(i))
<1>1. /\ UNCHANGED liveRefs /\ deposits' = [deposits EXCEPT ![d].status = "voided"]
      /\ \/ OpenPostings(d) = {} /\ UNCHANGED entries
         \/ \E i \in OpenPostings(d) : ReverseEntry(i)
  BY DEF VoidDeposit
<1>2. /\ JournalInv /\ TypeOK /\ deposits \in Seq(Deposits) /\ liveRefs \subseteq Refs
  BY DEF BDInv, JournalInv, TypeOK
<1>3. /\ deposits[d].bank \in BankAccounts /\ deposits[d].amounts \in [EntryIds -> Nat]
      /\ deposits[d] \in Deposits
  BY <1>2, DepositRow
<1> DEFINE new == [deposits[d] EXCEPT !.status = "voided"]
<1>4. /\ new \in Deposits /\ new.status = "voided" /\ new.bank = deposits[d].bank
      /\ new.amounts = deposits[d].amounts
  BY <1>3 DEF Deposits
<1>5. deposits' = [deposits EXCEPT ![d] = new]
  BY <1>1
<1> HIDE DEF new
<1>6. /\ deposits' \in Seq(Deposits) /\ DOMAIN deposits' = DOMAIN deposits
      /\ Len(deposits') = Len(deposits) /\ deposits'[d] = new
      /\ \A e \in DOMAIN deposits : e # d => deposits'[e] = deposits[e]
  BY <1>2, <1>4, <1>5
<1>7. PICK i : PostingOf(i, d)
  BY DEF BDInv
<1>8. OpenPostings(d) \subseteq {i}
  BY <1>7 DEF OpenPostings, PostingOf, IsPosting
<1>9. /\ JournalInv' /\ Kept /\ entries'[i].reversedBy # 0
      /\ \A j \in DOMAIN entries' \ DOMAIN entries : entries'[j].source = "reversal"
      /\ UNCHANGED entries \/ ReverseEntry(i)
  <2>1. CASE OpenPostings(d) = {} /\ UNCHANGED entries
    <3>1. entries[i].reversedBy # 0
      BY <1>7, <2>1 DEF OpenPostings, PostingOf, IsPosting
    <3>2. JournalInv'
      BY <1>1, <1>2, <2>1 DEF JournalInv, TypeOK, NumbersConsecutive, EntriesValid,
                              ReversalsPaired, IsReversal
    <3> QED BY <2>1, <3>1, <3>2 DEF Kept, BDInv
  <2>2. CASE \E j \in OpenPostings(d) : ReverseEntry(j)
    <3>1. ReverseEntry(i)
      BY <1>8, <2>2
    <3>2. JournalInv'
      BY <1>1, <1>2, <3>1, ReversePreserves
    <3> QED BY <1>2, <3>1, <3>2, ReverseKeeps
  <2> QED BY <1>1, <2>1, <2>2
<1>10. TakenOnce'
  <2>1. \A e \in DOMAIN deposits, j \in EntryIds : Takes(e, j)' => Takes(e, j)
    BY <1>4, <1>6 DEF Takes
  <2>2. \A j \in DOMAIN entries : j \in DOMAIN entries' /\ (IsDocument(j)' <=> IsDocument(j))
    BY <1>9 DEF IsDocument, Kept
  <2> QED BY <1>6, <2>1, <2>2 DEF BDInv, TakenOnce
<1>11. PostedDeposits'
  BY <1>6, <1>9 DEF BDInv, PostedDeposits, Kept
<1>12. ASSUME NEW e \in DOMAIN deposits PROVE \E j : PostingOf(j, e)'
  <2>1. PICK j : PostingOf(j, e) /\ (e = d => j = i)
    BY <1>7 DEF BDInv
  <2>2. \A k \in DOMAIN entries' : IsPosting(k, e)' => k \in DOMAIN entries /\ IsPosting(k, e)
    BY <1>9 DEF IsPosting, Kept
  <2>3. j \in DOMAIN entries' /\ IsPosting(j, e)' /\ entries'[j].lines = entries[j].lines
    BY <1>9, <2>1 DEF PostingOf, Kept, IsPosting
  <2>4. deposits'[e].bank = deposits[e].bank /\ deposits'[e].amounts = deposits[e].amounts
    BY <1>4, <1>6
  <2>5. deposits'[e].status = "voided" => entries'[j].reversedBy # 0
    BY <1>6, <1>9, <2>1 DEF PostingOf, Kept
  <2> QED BY <2>1, <2>2, <2>3, <2>4, <2>5 DEF PostingOf
<1>13. BDInv'
  BY <1>6, <1>9, <1>10, <1>11, <1>12 DEF BDInv, DepositsAssumption, Kept
<1>14. i \in DOMAIN entries
  BY <1>7 DEF PostingOf
<1> QED BY <1>9, <1>13, <1>14

\* Every step on deposits keeps the invariant and is a step of the ledger.
LEMMA BDStep == BDInv /\ [BDNext]_bdVars => BDInv' /\ [Ledger!Next]_(BookOf(entries))
<1> SUFFICES ASSUME BDInv, [BDNext]_bdVars
             PROVE  BDInv' /\ (Ledger!Next \/ UNCHANGED BookOf(entries))
  OBVIOUS
<1>1. JournalInv /\ TypeOK /\ liveRefs \subseteq Refs /\ Len(entries) <= MaxEntries
  BY DEF BDInv, JournalInv, TypeOK
<1>2. ASSUME NEW bank \in BankAccounts, NEW receipts \in SUBSET DOMAIN entries,
             NEW first \in receipts, CreateDeposit(bank, receipts, first)
      PROVE  BDInv' /\ Ledger!Next
  <2>1. BDInv' /\ \E doc, lines : PostEntry("bank_deposit", doc, lines)
    BY <1>2, CreateDepositStep
  <2>2. JournalInv'
    BY <2>1 DEF BDInv
  <2>3. Ledger!Post
    BY <1>1, <2>1, <2>2, PostIsPost
  <2> QED BY <2>1, <2>3, NextIs
<1>3. ASSUME NEW d \in DOMAIN deposits, VoidDeposit(d)
      PROVE  BDInv' /\ (Ledger!Next \/ UNCHANGED BookOf(entries))
  <2>1. BDInv' /\ (UNCHANGED entries \/ \E i \in DOMAIN entries : ReverseEntry(i))
    BY <1>3, VoidDepositStep
  <2>2. JournalInv'
    BY <2>1 DEF BDInv
  <2>3. CASE UNCHANGED entries
    BY <2>1, <2>3
  <2>4. ASSUME NEW i \in DOMAIN entries, ReverseEntry(i) PROVE Ledger!Next
    BY <1>1, <2>2, <2>4, ReverseIsUndo, NextIs
  <2> QED BY <2>1, <2>3, <2>4
<1>4. ASSUME NEW source \in ManualSources, NEW lines \in ManualLines,
             PostManual(source, lines), UNCHANGED deposits
      PROVE  BDInv' /\ Ledger!Next
  <2>1. PostEntry(source, 0, lines) /\ UNCHANGED liveRefs
    BY <1>4 DEF PostManual
  <2>2. JournalInv'
    <3>1. lines \in Seq(LineInputs) /\ source \in Sources /\ 0 \in Nat
      BY JournalAssumption
    <3>2. liveRefs' \subseteq Refs
      BY <1>1, <2>1
    <3> QED BY <1>1, <2>1, <3>1, <3>2, PostPreserves
  <2>3. Kept /\ \A i \in DOMAIN entries' \ DOMAIN entries : entries'[i].doc = 0
    BY <1>1, <2>1, PostKeeps
  <2>4. BDInv'
    BY <1>4, <2>2, <2>3, OthersKeepDeposits
  <2> QED BY <1>1, <2>1, <2>2, <2>4, PostIsPost, NextIs
<1>5. ASSUME NEW i \in DOMAIN entries, ReverseManual(i), UNCHANGED deposits
      PROVE  BDInv' /\ Ledger!Next
  <2>1. ReverseEntry(i) /\ UNCHANGED liveRefs
    BY <1>5 DEF ReverseManual
  <2>2. JournalInv'
    BY <1>1, <2>1, ReversePreserves
  <2>3. Kept /\ \A j \in DOMAIN entries' \ DOMAIN entries : entries'[j].source = "reversal"
    BY <1>1, <2>1, ReverseKeeps
  <2>4. BDInv'
    BY <1>5, <2>2, <2>3, OthersKeepDeposits
  <2> QED BY <1>1, <2>1, <2>2, <2>4, ReverseIsUndo, NextIs
<1>6. ASSUME UNCHANGED <<entries, deposits>>, liveRefs' \subseteq Refs
      PROVE  BDInv' /\ UNCHANGED BookOf(entries)
  <2>1. JournalInv' /\ UNCHANGED BookOf(entries)
    BY <1>1, <1>6, JournalKept
  <2>2. Kept
    BY <1>1, <1>6 DEF Kept
  <2> QED BY <1>6, <2>1, <2>2, OthersKeepDeposits
<1>7. ASSUME NEW r \in Refs, SoftDelete(r), UNCHANGED deposits
      PROVE  BDInv' /\ UNCHANGED BookOf(entries)
  <2>1. UNCHANGED entries /\ liveRefs' \subseteq Refs
    BY <1>1, <1>7 DEF SoftDelete
  <2> QED BY <1>6, <1>7, <2>1
<1>8. ASSUME UNCHANGED bdVars PROVE BDInv' /\ UNCHANGED BookOf(entries)
  BY <1>1, <1>6, <1>8 DEF bdVars
<1> QED BY <1>2, <1>3, <1>4, <1>5, <1>7, <1>8 DEF BDNext, DepositRequests

LEMMA BDInvariant == DepositsAssumption /\ BDSpec => []BDInv
<1>1. BDInv /\ [BDNext]_bdVars => BDInv'
  BY BDStep
<1> QED BY <1>1, DepositsInitial, PTL DEF BDSpec

LEMMA BDImplies == BDInv => DepositedOnce /\ PostingsMatchDeposits
<1> SUFFICES ASSUME BDInv PROVE DepositedOnce /\ PostingsMatchDeposits
  OBVIOUS
<1>1. DepositedOnce
  <2>1. ASSUME NEW i \in EntryIds
        PROVE  /\ Cardinality({d \in DOMAIN deposits :
                     deposits[d].status = "cleared" /\ deposits[d].amounts[i] > 0}) <= 1
               /\ Cleared(i) => /\ i \in DOMAIN entries
                                /\ entries[i].source \notin {"bank_deposit", "reversal"}
    <3> DEFINE S == {d \in DOMAIN deposits :
                       deposits[d].status = "cleared" /\ deposits[d].amounts[i] > 0}
    <3>1. \A x, y \in S : x = y
      BY DEF BDInv, TakenOnce, Takes
    <3>2. Cardinality(S) <= 1
      <4> HIDE DEF S
      <4> QED BY <3>1, AtMostOne
    <3>3. Cleared(i) => i \in DOMAIN entries /\ IsDocument(i)
      BY DEF BDInv, TakenOnce, Takes, Cleared
    <3> QED BY <3>2, <3>3 DEF IsDocument
  <2> QED BY <2>1 DEF DepositedOnce
<1>2. PostingsMatchDeposits
  <2>1. ASSUME NEW d \in DOMAIN deposits
        PROVE  LET posted == {i \in DOMAIN entries :
                                entries[i].source = "bank_deposit" /\ entries[i].doc = d}
               IN  /\ \E i \in posted :
                        /\ posted = {i}
                        /\ Effect(entries[i].lines, deposits[d].bank)
                             = Total(deposits[d].amounts)
                   /\ deposits[d].status = "voided" => OpenPostings(d) = {}
    <3>1. PICK i : PostingOf(i, d)
      BY DEF BDInv
    <3>2. {j \in DOMAIN entries : entries[j].source = "bank_deposit" /\ entries[j].doc = d} = {i}
      BY <3>1 DEF PostingOf, IsPosting
    <3>3. deposits[d].status = "voided" => OpenPostings(d) = {}
      BY <3>1 DEF PostingOf, IsPosting, OpenPostings
    <3> QED BY <3>1, <3>2, <3>3 DEF PostingOf
  <2> QED BY <2>1 DEF PostingsMatchDeposits
<1> QED BY <1>1, <1>2

\* However receipts are batched, batches voided and entries reversed by hand, a
\* receipt is in at most one deposit that is not voided.
THEOREM Deposited == DepositsAssumption /\ BDSpec => []DepositedOnce
BY BDInvariant, BDImplies, PTL

\* A deposit has one entry, which moves what it took to its bank, and a voided
\* one has none that is not reversed.
THEOREM DepositsPosted == DepositsAssumption /\ BDSpec => []PostingsMatchDeposits
BY BDInvariant, BDImplies, PTL

\* With deposits made and voided among postings and reversals of users, the
\* journal still implements AppendOnlyLedger, and its entries stay balanced,
\* paired and reversible.
THEOREM DepositsRefine ==
    DepositsAssumption /\ BDSpec =>
       IsAppendOnlyLedger /\ [](EntriesBalanced /\ ReversalsPaired /\ AlwaysReversible)
<1>1. BDInit => Ledger!Init
  BY DEF BDInit, Init, Ledger!Init
<1>2. BDInv /\ [BDNext]_bdVars
        => [Ledger!Next]_([i \in DOMAIN entries |->
                     [effect |-> [a \in Accounts |-> Effect(entries[i].lines, a)],
                      undoneBy |-> entries[i].reversedBy]])
  BY BDStep DEF BookOf
<1>3. BDInv => EntriesBalanced /\ ReversalsPaired /\ AlwaysReversible
  BY JournalImplies DEF BDInv
<1> QED BY <1>1, <1>2, <1>3, BDInvariant, PTL DEF BDSpec, IsAppendOnlyLedger, Ledger!Spec

(***************************************************************************)
(* What awaits deposit.                                                    *)
(***************************************************************************)
\* What a deposit takes of an entry is the line of a receipt.
LinesTaken ==
    \A d \in DOMAIN deposits, i \in EntryIds :
        deposits[d].amounts[i] > 0 =>
            /\ i \in DOMAIN entries /\ ReceiptLines(i) # {}
            /\ deposits[d].amounts[i] = BatchLine(i).debit

\* The entry of a deposit takes from 1030 what it puts on the bank.
PostedAway ==
    \A d \in DOMAIN deposits, i \in DOMAIN entries :
        IsPosting(i, d) =>
            Effect(entries[i].lines, UndepositedFunds) = -Total(deposits[d].amounts)

BatchesInv == BDInv /\ LinesTaken /\ PostedAway

\* The lines of a deposit take its amount from 1030.
LEMMA DepositLinesTake ==
    ASSUME DepositsAssumption, NEW bank \in BankAccounts, NEW amount \in Nat,
           NEW ref \in Refs \cup {NoRef}
    PROVE  Effect(DepositLines(bank, amount, ref), UndepositedFunds) = -amount
<1> DEFINE lines == DepositLines(bank, amount, ref)
           f == [k \in DOMAIN lines |->
                   IF lines[k].account \in {UndepositedFunds}
                   THEN lines[k].debit - lines[k].credit ELSE 0]
<1>1. bank # UndepositedFunds /\ amount \in Int
  BY DEF DepositsAssumption
<1>2. lines \in Seq(LineInputs)
  BY DepositLinesAre
<1>3. /\ DOMAIN lines = 1 .. 2 /\ lines[1].account = bank
      /\ lines[2].account = UndepositedFunds /\ lines[2].debit = 0 /\ lines[2].credit = amount
  BY DEF DepositLines
<1>4. f \in Seq(Int)
  BY <1>2, LineSums
<1>5. NetDebit(lines, {UndepositedFunds}) = Total(f)
  BY DEF NetDebit
<1> HIDE DEF lines
<1>6. DOMAIN f = 1 .. 2 /\ f[1] = 0 /\ f[2] = 0 - amount
  BY <1>1, <1>3
<1> HIDE DEF f
<1>7. f = Append(Append(<< >>, 0), 0 - amount)
  BY <1>4, <1>6
<1>8. Total(f) = -amount
  <2>1. << >> \in Seq(Int) /\ Append(<< >>, 0) \in Seq(Int) /\ 0 \in Int /\ 0 - amount \in Int
    BY <1>1
  <2>2. Total(Append(<< >>, 0)) = 0 + 0
    BY <2>1, TotalAppend, TotalEmpty
  <2>3. Total(Append(Append(<< >>, 0), 0 - amount)) = Total(Append(<< >>, 0)) + (0 - amount)
    BY <2>1, TotalAppend
  <2> QED BY <1>1, <1>7, <2>2, <2>3
<1> QED BY <1>5, <1>8 DEF Effect, lines

\* Lines stay, and what deposits took.
LEMMA LineStays ==
    ASSUME Kept, NEW i \in DOMAIN entries
    PROVE  ReceiptLines(i)' = ReceiptLines(i) /\ BatchLine(i)' = BatchLine(i)
<1>1. entries'[i].lines = entries[i].lines
  BY DEF Kept
<1>2. ReceiptLines(i)' = ReceiptLines(i)
  BY <1>1 DEF ReceiptLines
<1> QED BY <1>1, <1>2 DEF BatchLine

\* The deposits of a step are those of before.
SameBatches ==
    /\ DOMAIN deposits' = DOMAIN deposits
    /\ \A d \in DOMAIN deposits : deposits'[d].amounts = deposits[d].amounts

LEMMA BatchesKept ==
    ASSUME BatchesInv, BDInv', Kept, SameBatches,
           \A i \in DOMAIN entries' \ DOMAIN entries, d \in DOMAIN deposits : ~IsPosting(i, d)'
    PROVE  BatchesInv'
<1>1. LinesTaken'
  <2>1. SUFFICES ASSUME NEW d \in DOMAIN deposits, NEW i \in EntryIds,
                        deposits'[d].amounts[i] > 0
                 PROVE  /\ i \in DOMAIN entries' /\ ReceiptLines(i)' # {}
                        /\ deposits'[d].amounts[i] = BatchLine(i)'.debit
    BY DEF LinesTaken, SameBatches, EntryIds
  <2>2. deposits'[d].amounts = deposits[d].amounts
    BY DEF SameBatches
  <2>3. /\ i \in DOMAIN entries /\ ReceiptLines(i) # {}
        /\ deposits[d].amounts[i] = BatchLine(i).debit
    BY <2>1, <2>2 DEF BatchesInv, LinesTaken
  <2> QED BY <2>2, <2>3, LineStays DEF Kept
<1>2. PostedAway'
  <2>1. SUFFICES ASSUME NEW d \in DOMAIN deposits, NEW i \in DOMAIN entries', IsPosting(i, d)'
                 PROVE  Effect(entries'[i].lines, UndepositedFunds) = -Total(deposits'[d].amounts)
    BY DEF PostedAway, SameBatches
  <2>2. i \in DOMAIN entries /\ entries'[i].lines = entries[i].lines /\ IsPosting(i, d)
    BY <2>1 DEF Kept, IsPosting
  <2>3. deposits'[d].amounts = deposits[d].amounts
    BY DEF SameBatches
  <2> QED BY <2>2, <2>3 DEF BatchesInv, PostedAway
<1> QED BY <1>1, <1>2 DEF BatchesInv

LEMMA CreateTakesLines ==
    ASSUME BatchesInv, NEW bank \in BankAccounts, NEW receipts \in SUBSET DOMAIN entries,
           NEW first \in receipts, CreateDeposit(bank, receipts, first)
    PROVE  BatchesInv'
<1> DEFINE amounts == [i \in EntryIds |-> IF i \in receipts THEN BatchLine(i).debit ELSE 0]
           new == [bank |-> bank, amounts |-> amounts, status |-> "cleared"]
           lines == DepositLines(bank, Total(amounts), BatchLine(first).ref)
<1>0. PICK n, d0 : n = Len(entries) /\ d0 = Len(deposits) + 1
  OBVIOUS
<1>1. /\ \A i \in receipts : Undeposited(i)
      /\ deposits' = Append(deposits, new)
      /\ PostEntry("bank_deposit", d0, lines) /\ UNCHANGED liveRefs
  BY <1>0 DEF CreateDeposit
<1>2. /\ BDInv /\ DepositsAssumption /\ JournalInv /\ TypeOK /\ deposits \in Seq(Deposits)
      /\ n \in Nat /\ DOMAIN entries = 1 .. n /\ n <= MaxEntries
  BY <1>0 DEF BatchesInv, BDInv, JournalInv, TypeOK
<1>3. BDInv'
  BY <1>2, CreateDepositStep
<1>4. \A i \in receipts : BatchLine(i).debit \in Nat \ {0} /\ BatchLine(i).ref \in Refs \cup {NoRef}
                          /\ ReceiptLines(i) # {}
  BY <1>1, <1>2, BatchLineIs DEF Undeposited, IsReceipt
<1>5. amounts \in [EntryIds -> Nat] /\ amounts \in Seq(Nat)
  <2>1. amounts \in [EntryIds -> Nat]
    BY <1>4
  <2>2. MaxEntries \in Nat
    BY JournalAssumption
  <2> HIDE DEF amounts
  <2> QED BY <2>1, <2>2 DEF EntryIds
<1>6. \A i \in EntryIds : amounts[i] > 0 => i \in receipts /\ amounts[i] = BatchLine(i).debit
  OBVIOUS
<1>7. Total(amounts) \in Nat
  BY <1>5, TotalOfNaturals
<1> HIDE DEF amounts
<1>8. Effect(lines, UndepositedFunds) = -Total(amounts)
  BY <1>2, <1>4, <1>7, DepositLinesTake
<1> HIDE DEF lines
<1>9. d0 \in Nat /\ d0 # 0 /\ DOMAIN deposits = 1 .. Len(deposits) /\ Len(deposits) \in Nat
  BY <1>0, <1>2
<1>10. new.amounts = amounts
  OBVIOUS
<1> HIDE DEF new
<1>11. /\ DOMAIN deposits' = DOMAIN deposits \cup {d0} /\ deposits'[d0] = new
       /\ d0 \notin DOMAIN deposits
       /\ \A d \in DOMAIN deposits : deposits'[d] = deposits[d]
  BY <1>0, <1>1, <1>2, <1>9
<1>12. /\ Kept /\ DOMAIN entries' = DOMAIN entries \cup {n + 1}
       /\ entries'[n + 1].source = "bank_deposit" /\ entries'[n + 1].doc = d0
       /\ entries'[n + 1].lines = lines
  BY <1>0, <1>1, <1>2, PostKeeps
<1>13. LinesTaken'
  <2>1. SUFFICES ASSUME NEW d \in DOMAIN deposits', NEW i \in EntryIds,
                        deposits'[d].amounts[i] > 0
                 PROVE  /\ i \in DOMAIN entries' /\ ReceiptLines(i)' # {}
                        /\ deposits'[d].amounts[i] = BatchLine(i)'.debit
    BY DEF LinesTaken, EntryIds
  <2>2. /\ i \in DOMAIN entries /\ ReceiptLines(i) # {}
        /\ deposits'[d].amounts[i] = BatchLine(i).debit
    <3>1. CASE d = d0
      BY <1>4, <1>6, <1>10, <1>11, <2>1, <3>1
    <3>2. CASE d # d0
      BY <1>11, <2>1, <3>2 DEF BatchesInv, LinesTaken
    <3> QED BY <3>1, <3>2
  <2> QED BY <1>12, <2>2, LineStays
<1>14. PostedAway'
  <2>1. SUFFICES ASSUME NEW d \in DOMAIN deposits', NEW i \in DOMAIN entries', IsPosting(i, d)'
                 PROVE  Effect(entries'[i].lines, UndepositedFunds) = -Total(deposits'[d].amounts)
    BY DEF PostedAway
  <2>2. CASE i = n + 1
    <3>1. d = d0
      BY <1>12, <2>1, <2>2 DEF IsPosting
    <3> QED BY <1>8, <1>10, <1>11, <1>12, <2>2, <3>1
  <2>3. CASE i # n + 1
    <3>1. i \in DOMAIN entries /\ IsPosting(i, d) /\ entries'[i].lines = entries[i].lines
      BY <1>12, <2>1, <2>3 DEF IsPosting, Kept
    <3>2. d \in 0 .. Len(deposits)
      BY <1>2, <3>1 DEF BDInv, PostedDeposits, IsPosting
    <3>3. d \in DOMAIN deposits /\ deposits'[d] = deposits[d]
      BY <1>0, <1>9, <1>11, <2>1, <3>2
    <3> QED BY <3>1, <3>3 DEF BatchesInv, PostedAway
  <2> QED BY <2>2, <2>3
<1> QED BY <1>3, <1>13, <1>14 DEF BatchesInv

LEMMA BatchesStep == BatchesInv /\ [BDNext]_bdVars => BatchesInv'
<1> SUFFICES ASSUME BatchesInv, [BDNext]_bdVars PROVE BatchesInv'
  OBVIOUS
<1>1. /\ BDInv /\ BDInv' /\ JournalInv /\ TypeOK /\ deposits \in Seq(Deposits)
      /\ Len(entries) <= MaxEntries
  BY BDStep DEF BatchesInv, BDInv, JournalInv
<1>2. \A d \in DOMAIN deposits : d # 0
  BY <1>1
<1>3. ASSUME UNCHANGED <<entries, deposits>> PROVE BatchesInv'
  <2>1. Kept /\ SameBatches
    BY <1>1, <1>3 DEF Kept, SameBatches
  <2> QED BY <1>1, <1>3, <2>1, BatchesKept
<1>4. ASSUME NEW i \in DOMAIN entries, ReverseEntry(i), SameBatches PROVE BatchesInv'
  <2>1. Kept /\ \A j \in DOMAIN entries' \ DOMAIN entries : entries'[j].source = "reversal"
    BY <1>1, <1>4, ReverseKeeps
  <2>2. \A j \in DOMAIN entries' \ DOMAIN entries, d \in DOMAIN deposits : ~IsPosting(j, d)'
    BY <2>1 DEF IsPosting
  <2> QED BY <1>1, <1>4, <2>1, <2>2, BatchesKept
<1>5. ASSUME NEW d \in DOMAIN deposits, VoidDeposit(d) PROVE BatchesInv'
  <2>1. /\ deposits' = [deposits EXCEPT ![d].status = "voided"]
        /\ \/ UNCHANGED entries
           \/ \E i \in OpenPostings(d) : ReverseEntry(i)
    BY <1>5 DEF VoidDeposit
  <2>2. DOMAIN deposits' = DOMAIN deposits
    BY <2>1
  <2>3. ASSUME NEW e \in DOMAIN deposits PROVE deposits'[e].amounts = deposits[e].amounts
    <3>1. deposits[e] \in Deposits /\ deposits[d] \in Deposits
      BY <1>1
    <3>2. CASE e = d
      <4>1. deposits'[d] = [deposits[d] EXCEPT !.status = "voided"]
        BY <2>1
      <4> QED BY <3>1, <3>2, <4>1 DEF Deposits
    <3>3. CASE e # d
      BY <2>1, <3>3
    <3> QED BY <3>2, <3>3
  <2>4. SameBatches
    BY <2>2, <2>3 DEF SameBatches
  <2>5. CASE UNCHANGED entries
    <3>1. Kept
      BY <1>1, <2>5 DEF Kept
    <3> QED BY <1>1, <2>4, <2>5, <3>1, BatchesKept
  <2>6. CASE \E i \in OpenPostings(d) : ReverseEntry(i)
    BY <1>4, <2>4, <2>6 DEF OpenPostings
  <2> QED BY <2>1, <2>5, <2>6
<1>6. ASSUME NEW source \in ManualSources, NEW lines \in ManualLines,
             PostManual(source, lines), UNCHANGED deposits
      PROVE  BatchesInv'
  <2>1. PostEntry(source, 0, lines) /\ SameBatches
    BY <1>6 DEF PostManual, SameBatches
  <2>2. Kept /\ \A i \in DOMAIN entries' \ DOMAIN entries : entries'[i].doc = 0
    BY <1>1, <2>1, PostKeeps
  <2>3. \A j \in DOMAIN entries' \ DOMAIN entries, d \in DOMAIN deposits : ~IsPosting(j, d)'
    BY <1>2, <1>6, <2>2 DEF IsPosting
  <2> QED BY <1>1, <2>1, <2>2, <2>3, BatchesKept
<1>7. ASSUME NEW i \in DOMAIN entries, ReverseManual(i), UNCHANGED deposits
      PROVE  BatchesInv'
  BY <1>4, <1>7 DEF ReverseManual, SameBatches
<1>8. ASSUME NEW r \in Refs, SoftDelete(r), UNCHANGED deposits PROVE BatchesInv'
  BY <1>3, <1>8 DEF SoftDelete
<1>9. ASSUME UNCHANGED bdVars PROVE BatchesInv'
  BY <1>3, <1>9 DEF bdVars
<1> QED BY <1>5, <1>6, <1>7, <1>8, <1>9, CreateTakesLines DEF BDNext, DepositRequests

LEMMA BatchesInvariant == DepositsAssumption /\ BDSpec => []BatchesInv
<1>1. DepositsAssumption /\ BDInit => BatchesInv
  BY DepositsInitial DEF BatchesInv, BDInit, LinesTaken, PostedAway
<1> QED BY <1>1, BatchesStep, PTL DEF BDSpec

\* A table in which one row counts has the total of that row.
LEMMA TotalOfOne ==
    ASSUME NEW n \in Nat, NEW f, f = [i \in 1 .. n |-> f[i]], NEW k \in 1 .. n, f[k] \in Int,
           \A i \in 1 .. n : i # k => f[i] = 0
    PROVE  Total(f) = f[k]
<1> DEFINE z == [i \in 1 .. n |-> 0]
<1>1. /\ z = [i \in 1 .. n |-> z[i]] /\ \A i \in 1 .. n : z[i] = 0
      /\ Total(z) = 0
  BY TotalOfZeros
<1> HIDE DEF z
<1>2. \A i \in 1 .. n : f[i] \in Int /\ z[i] \in Int
  BY <1>1
<1>3. z \in Seq(Int) /\ f \in Seq(Int) /\ Len(z) = n /\ Len(f) = n
  <2>1. z \in Seq(Int) /\ Len(z) = n
    BY <1>1, <1>2, SequenceIs
  <2>2. f \in Seq(Int) /\ Len(f) = n
    BY <1>2, SequenceIs
  <2> QED BY <2>1, <2>2
<1>4. f[k] = z[k] + f[k] /\ \A i \in 1 .. n : i # k => f[i] = z[i]
  BY <1>1
<1>5. Total(f) = Total(z) + f[k]
  BY <1>3, <1>4, TotalUpdate
<1> QED BY <1>1, <1>5

\* What a list of lines puts on an account that one of them touches, or none.
LEMMA EffectOfOne ==
    ASSUME NEW lines \in Seq(Lines), NEW a, NEW k \in DOMAIN lines, lines[k].account = a,
           \A j \in DOMAIN lines : lines[j].account = a => j = k
    PROVE  Effect(lines, a) = lines[k].debit - lines[k].credit
<1> DEFINE f == [j \in DOMAIN lines |->
                   IF lines[j].account \in {a} THEN lines[j].debit - lines[j].credit ELSE 0]
<1>1. lines \in Seq(LineInputs)
  BY LinesAreInputs
<1>2. Len(lines) \in Nat /\ DOMAIN lines = 1 .. Len(lines)
  OBVIOUS
<1>3. f = [j \in 1 .. Len(lines) |-> f[j]] /\ f[k] = lines[k].debit - lines[k].credit
      /\ \A j \in 1 .. Len(lines) : j # k => f[j] = 0
  BY <1>2
<1>4. f[k] \in Int
  BY <1>1, <1>3, LineFields
<1>5. Effect(lines, a) = Total(f)
  BY DEF Effect, NetDebit
<1> HIDE DEF f
<1> QED BY <1>2, <1>3, <1>4, <1>5, TotalOfOne

LEMMA EffectOfNone ==
    ASSUME NEW lines \in Seq(Lines), NEW a, \A j \in DOMAIN lines : lines[j].account # a
    PROVE  Effect(lines, a) = 0
<1> DEFINE f == [j \in DOMAIN lines |->
                   IF lines[j].account \in {a} THEN lines[j].debit - lines[j].credit ELSE 0]
<1>1. PICK n \in Nat : DOMAIN lines = 1 .. n
  OBVIOUS
<1>2. f = [j \in 1 .. n |-> 0]
  BY <1>1
<1>3. Effect(lines, a) = Total(f)
  BY DEF Effect, NetDebit
<1> HIDE DEF f
<1> QED BY <1>2, <1>3, TotalOfZeros

\* Of a whole receipt a deposit takes what the list shows and what 1030 holds.
LEMMA ReceiptIs ==
    ASSUME JournalInv, WholeReceipts, NEW i \in DOMAIN entries, IsDocument(i)
    PROVE  LET e == Effect(entries[i].lines, UndepositedFunds)
           IN  /\ ListedAmount(i) = e
               /\ ReceiptLines(i) = {} => e = 0
               /\ ReceiptLines(i) # {} => e = BatchLine(i).debit
<1>1. PICK lines \in Seq(Lines) : lines = entries[i].lines
  BY EntryFields DEF JournalInv
<1> DEFINE shown == [k \in DOMAIN lines |-> [lines[k] EXCEPT !.credit = 0]]
           funds == {k \in DOMAIN lines : lines[k].account = UndepositedFunds}
<1>2. \A k \in funds : funds = {k} /\ lines[k].debit > 0
  BY <1>1 DEF WholeReceipts, IsDocument
<1>3. \A k \in DOMAIN lines :
         lines[k] \in Lines /\ lines[k].debit \in Nat /\ lines[k].credit \in Nat
  <2>1. SUFFICES ASSUME NEW k \in DOMAIN lines
                 PROVE  lines[k] \in Lines /\ lines[k].debit \in Nat /\ lines[k].credit \in Nat
    OBVIOUS
  <2>2. lines[k] \in Lines
    OBVIOUS
  <2> QED BY <2>2 DEF Lines
<1>4. \A k \in DOMAIN lines :
         /\ shown[k] \in Lines /\ shown[k].account = lines[k].account
         /\ shown[k].debit = lines[k].debit /\ shown[k].credit = 0
  <2>1. SUFFICES ASSUME NEW k \in DOMAIN lines
                 PROVE  /\ shown[k] \in Lines /\ shown[k].account = lines[k].account
                        /\ shown[k].debit = lines[k].debit /\ shown[k].credit = 0
    OBVIOUS
  <2>2. lines[k] \in Lines
    OBVIOUS
  <2> QED BY <2>2 DEF Lines
<1>5. ListedAmount(i) = Effect(shown, UndepositedFunds)
  BY <1>1 DEF ListedAmount, Effect
<1>6. shown \in Seq(Lines) /\ DOMAIN shown = DOMAIN lines
  <2>1. PICK n \in Nat : DOMAIN lines = 1 .. n
    OBVIOUS
  <2>2. shown = [k \in 1 .. n |-> shown[k]]
    BY <2>1
  <2> HIDE DEF shown
  <2> QED BY <1>4, <2>1, <2>2, SequenceIs
<1> HIDE DEF shown
<1>7. CASE funds = {}
  <2>1. ReceiptLines(i) = {}
    BY <1>1, <1>7 DEF ReceiptLines
  <2>2. Effect(lines, UndepositedFunds) = 0
    BY <1>7, EffectOfNone
  <2>3. Effect(shown, UndepositedFunds) = 0
    BY <1>4, <1>6, <1>7, EffectOfNone
  <2> QED BY <1>1, <1>5, <2>1, <2>2, <2>3
<1>8. CASE funds # {}
  <2>1. PICK k \in DOMAIN lines : funds = {k} /\ lines[k].debit > 0
    BY <1>2, <1>8
  <2>2. lines[k].account = UndepositedFunds
    BY <2>1
  <2>3. \A j \in DOMAIN lines : lines[j].account = UndepositedFunds => j = k
    BY <2>1
  <2>4. ReceiptLines(i) = {k}
    BY <1>1, <2>1, <2>2, <2>3 DEF ReceiptLines
  <2>5. Min({k}) = k
    BY DEF Min
  <2>6. BatchLine(i) = lines[k]
    BY <1>1, <2>4, <2>5 DEF BatchLine
  <2>7. Effect(shown, UndepositedFunds) = lines[k].debit - 0
    BY <1>4, <1>6, <2>2, <2>3, EffectOfOne
  <2>8. Effect(lines, UndepositedFunds) = lines[k].debit - lines[k].credit
    BY <2>2, <2>3, EffectOfOne
  <2>9. lines[k].credit = 0
    <3>1. OneSided(lines[k])
      BY <1>1 DEF JournalInv, EntriesValid, Valid, WellFormed
    <3>2. PICK x \in Nat, y \in Nat : x = lines[k].debit /\ y = lines[k].credit
      BY <1>3
    <3> QED BY <2>1, <3>1, <3>2 DEF OneSided
  <2> QED BY <1>1, <1>3, <1>5, <2>4, <2>6, <2>7, <2>8, <2>9
<1> QED BY <1>7, <1>8

\* What the entries of the deposits in force take from 1030 is what these
\* deposits took, in total.
PostedOut(z) ==
    z = [i \in DOMAIN entries |->
           IF /\ entries[i].source = "bank_deposit" /\ entries[i].doc \in DOMAIN deposits
              /\ deposits[entries[i].doc].status = "cleared"
           THEN Effect(entries[i].lines, UndepositedFunds) ELSE 0]
TakenBy(d) == IF deposits[d].status = "cleared" THEN Total(deposits[d].amounts) ELSE 0

LEMMA PostedOutIs ==
    ASSUME BatchesInv, NEW z, PostedOut(z)
    PROVE  /\ Total(z) = -Total([d \in DOMAIN deposits |-> TakenBy(d)])
           /\ [d \in DOMAIN deposits |-> TakenBy(d)] \in Seq(Int)
<1>1. /\ JournalInv /\ deposits \in Seq(Deposits) /\ PostedAway
      /\ \A d \in DOMAIN deposits : \E i : PostingOf(i, d)
  BY DEF BatchesInv, BDInv
<1>2. PICK n \in Nat, m \in Nat : DOMAIN entries = 1 .. n /\ DOMAIN deposits = 1 .. m
  BY <1>1 DEF JournalInv, TypeOK
<1> DEFINE C == {d \in 1 .. m : deposits[d].status = "cleared"}
           I == {i \in 1 .. n : entries[i].source = "bank_deposit" /\ entries[i].doc \in C}
           E == [i \in 1 .. n |-> Effect(entries[i].lines, UndepositedFunds)]
           taken == [d \in 1 .. m |-> TakenBy(d)]
           out == [d \in 1 .. m |-> -Total(deposits[d].amounts)]
           right == [d \in 1 .. m |-> IF d \in C THEN out[d] ELSE 0]
           doc == [i \in I |-> entries[i].doc]
           entry == [d \in C |-> CHOOSE i : PostingOf(i, d)]
<1>3. ASSUME NEW d \in 1 .. m
      PROVE  Total(deposits[d].amounts) \in Int /\ out[d] = -Total(deposits[d].amounts)
  <2>1. deposits[d].amounts \in [EntryIds -> Nat] /\ MaxEntries \in Nat
    BY <1>2, DepositRow, JournalAssumption DEF BatchesInv
  <2>2. deposits[d].amounts \in Seq(Nat)
    BY <2>1 DEF EntryIds
  <2>3. PICK x \in Nat : x = Total(deposits[d].amounts)
    BY <2>2, TotalOfNaturals
  <2> QED BY <2>3
<1>4. \A d \in C : out[d] \in Int
  BY <1>3
<1>5. ASSUME NEW d \in C PROVE entry[d] \in I /\ doc[entry[d]] = d
  <2>1. PostingOf(entry[d], d)
    BY <1>1, <1>2
  <2>2. PICK i : i = entry[d]
    OBVIOUS
  <2> HIDE DEF entry
  <2>3. i \in 1 .. n /\ entries[i].source = "bank_deposit" /\ entries[i].doc = d
    BY <1>2, <2>1, <2>2 DEF PostingOf, IsPosting
  <2> QED BY <2>2, <2>3
<1>6. ASSUME NEW i \in I PROVE doc[i] \in C /\ entry[doc[i]] = i /\ E[i] = out[doc[i]]
  <2>1. PICK d \in C : d = entries[i].doc /\ IsPosting(i, d)
    BY DEF IsPosting
  <2>2. PostingOf(entry[d], d)
    BY <1>1, <1>2
  <2>3. E[i] = out[d]
    BY <1>1, <1>2, <2>1 DEF PostedAway
  <2> HIDE DEF entry
  <2>4. entry[d] = i
    BY <1>2, <2>1, <2>2 DEF PostingOf
  <2> QED BY <2>1, <2>3, <2>4
<1>7. Counted(z, n, I, E)
  <2>1. z = [i \in 1 .. n |-> IF i \in I THEN E[i] ELSE 0]
    BY <1>2 DEF PostedOut
  <2> QED BY <2>1 DEF Counted
<1>8. Counted(right, m, C, out)
  BY DEF Counted
<1>9. C \subseteq 1 .. m /\ I \subseteq 1 .. n
  OBVIOUS
<1>10. \A d \in 1 .. m : taken[d] \in Int /\ right[d] \in Int /\ taken[d] = -right[d]
  <2>1. SUFFICES ASSUME NEW d \in 1 .. m
                 PROVE  taken[d] \in Int /\ right[d] \in Int /\ taken[d] = -right[d]
    OBVIOUS
  <2>2. PICK x \in Int : x = Total(deposits[d].amounts) /\ out[d] = -x
    BY <1>3
  <2> HIDE DEF out
  <2>3. taken[d] = IF d \in C THEN x ELSE 0
    BY <2>2 DEF TakenBy
  <2>4. right[d] = IF d \in C THEN -x ELSE 0
    BY <2>2
  <2> HIDE DEF taken, right, C
  <2> QED BY <2>3, <2>4
<1>11. /\ taken = [d \in 1 .. m |-> taken[d]] /\ right = [d \in 1 .. m |-> right[d]]
       /\ taken = [d \in DOMAIN deposits |-> TakenBy(d)]
  BY <1>2
<1> HIDE DEF C, I, E, taken, out, right, doc, entry
<1>12. Inverses(doc, entry, I, C)
  BY <1>5, <1>6 DEF Inverses
<1>13. Rearranged(z, n, I, E, right, m, C, out, doc, entry)
  BY <1>4, <1>6, <1>7, <1>8, <1>9, <1>12 DEF Rearranged
<1>14. Total(z) = Total(right) /\ Total(z) \in Int
  BY <1>13, Reindexed
<1>15. /\ taken \in Seq(Int) /\ right \in Seq(Int) /\ Len(taken) = m /\ Len(right) = m
  <2>1. taken \in Seq(Int) /\ Len(taken) = m
    BY <1>10, <1>11, SequenceIs
  <2>2. right \in Seq(Int) /\ Len(right) = m
    BY <1>10, <1>11, SequenceIs
  <2> QED BY <2>1, <2>2
<1>16. Total(taken) = -Total(right)
  BY <1>10, <1>15, TotalNegate
<1>17. Total(z) = -Total(taken)
  BY <1>14, <1>16
<1> QED BY <1>11, <1>15, <1>17

\* What the deposits in force took, deposit by deposit, is what their receipts
\* hold, receipt by receipt.
Banked(z) ==
    z = [i \in DOMAIN entries |->
           IF Cleared(i) THEN Effect(entries[i].lines, UndepositedFunds) ELSE 0]

LEMMA BankedIs ==
    ASSUME BatchesInv, WholeReceipts, NEW z, Banked(z)
    PROVE  Total(z) = Total([d \in DOMAIN deposits |-> TakenBy(d)]) /\ Total(z) \in Int
<1>1. /\ JournalInv /\ deposits \in Seq(Deposits) /\ LinesTaken /\ TakenOnce
      /\ Len(entries) <= MaxEntries /\ MaxEntries \in Nat
  BY JournalAssumption DEF BatchesInv, BDInv
<1>2. PICK n \in Nat, m \in Nat, N \in Nat :
        /\ DOMAIN entries = 1 .. n /\ DOMAIN deposits = 1 .. m
        /\ N = MaxEntries /\ EntryIds = 1 .. N /\ n <= N
  BY <1>1 DEF JournalInv, TypeOK, EntryIds
<1> DEFINE M == [d \in 1 .. m |-> [i \in 1 .. N |->
                    IF deposits[d].status = "cleared" THEN deposits[d].amounts[i] ELSE 0]]
           rows == [d \in 1 .. m |-> TakenBy(d)]
           columns == [i \in 1 .. N |-> Total([d \in 1 .. m |-> M[d][i]])]
<1>3. ASSUME NEW d \in 1 .. m
      PROVE  deposits[d].amounts \in [1 .. N -> Nat]
  BY <1>2, DepositRow DEF BatchesInv
<1>4. Grid(M, m, N)
  <2>1. SUFFICES ASSUME NEW d \in 1 .. m, NEW i \in 1 .. N PROVE M[d][i] \in Int
    BY DEF Grid
  <2>2. deposits[d].amounts[i] \in Nat
    BY <1>3
  <2> QED BY <2>2
<1>5. RowSums(rows, M, m, N)
  <2>1. ASSUME NEW d \in 1 .. m PROVE TakenBy(d) = Total([i \in 1 .. N |-> M[d][i]])
    <3>1. CASE deposits[d].status = "cleared"
      <4>1. deposits[d].amounts = [i \in 1 .. N |-> M[d][i]]
        BY <1>3, <3>1
      <4> QED BY <3>1, <4>1 DEF TakenBy
    <3>2. CASE deposits[d].status # "cleared"
      <4>1. [i \in 1 .. N |-> M[d][i]] = [i \in 1 .. N |-> 0]
        BY <3>2
      <4> QED BY <3>2, <4>1, TotalOfZeros DEF TakenBy
    <3> QED BY <3>1, <3>2
  <2>2. rows = [d \in 1 .. m |-> Total([i \in 1 .. N |-> M[d][i]])]
    BY <2>1
  <2> QED BY <2>2 DEF RowSums
<1>6. ColumnSums(columns, M, m, N)
  BY DEF ColumnSums
<1>7. ASSUME NEW i \in 1 .. N
      PROVE  IF Cleared(i)
             THEN i \in 1 .. n /\ columns[i] = Effect(entries[i].lines, UndepositedFunds)
             ELSE columns[i] = 0
  <2> DEFINE c == [d \in 1 .. m |-> M[d][i]]
  <2>1. \A d \in 1 .. m : c[d] = IF deposits[d].status = "cleared"
                                THEN deposits[d].amounts[i] ELSE 0
    OBVIOUS
  <2>2. c = [d \in 1 .. m |-> c[d]] /\ columns[i] = Total(c)
    OBVIOUS
  <2> HIDE DEF M, columns, c
  <2>3. \A d \in 1 .. m : deposits[d].amounts[i] \in Nat
    BY <1>3
  <2>4. CASE Cleared(i)
    <3>1. PICK d \in 1 .. m : Takes(d, i)
      BY <1>2, <2>4 DEF Cleared, Takes
    <3>2. /\ i \in DOMAIN entries /\ IsDocument(i)
          /\ \A e \in 1 .. m : Takes(e, i) => e = d
      BY <1>1, <1>2, <3>1 DEF TakenOnce
    <3>3. /\ ReceiptLines(i) # {} /\ deposits[d].amounts[i] = BatchLine(i).debit
      BY <1>1, <1>2, <3>1 DEF LinesTaken, Takes
    <3>4. deposits[d].amounts[i] = Effect(entries[i].lines, UndepositedFunds)
      BY <1>1, <3>2, <3>3, ReceiptIs
    <3>5. \A e \in 1 .. m : e # d => c[e] = 0
      <4>1. SUFFICES ASSUME NEW e \in 1 .. m, e # d PROVE c[e] = 0
        OBVIOUS
      <4>2. ~Takes(e, i)
        BY <3>2, <4>1
      <4>3. deposits[e].status = "cleared" => deposits[e].amounts[i] = 0
        BY <2>3, <4>2 DEF Takes
      <4> QED BY <2>1, <4>3
    <3>6. c[d] = deposits[d].amounts[i] /\ c[d] \in Int
      BY <2>1, <2>3, <3>1 DEF Takes
    <3>7. Total(c) = c[d]
      BY <2>2, <3>5, <3>6, TotalOfOne
    <3> QED BY <1>2, <2>2, <2>4, <3>2, <3>4, <3>6, <3>7
  <2>5. CASE ~Cleared(i)
    <3>1. \A d \in 1 .. m : c[d] = 0
      <4>1. SUFFICES ASSUME NEW d \in 1 .. m PROVE c[d] = 0
        OBVIOUS
      <4>2. deposits[d].status = "cleared" => ~(deposits[d].amounts[i] > 0)
        BY <1>2, <2>5 DEF Cleared
      <4>3. deposits[d].status = "cleared" => deposits[d].amounts[i] = 0
        BY <2>3, <4>2
      <4> QED BY <2>1, <4>3
    <3>2. c = [d \in 1 .. m |-> 0]
      BY <2>2, <3>1
    <3> QED BY <2>2, <2>5, <3>2, TotalOfZeros
  <2> QED BY <2>4, <2>5
<1>8. columns = [i \in 1 .. N |-> columns[i]] /\ rows = [d \in DOMAIN deposits |-> TakenBy(d)]
  BY <1>2
<1> HIDE DEF M, rows, columns
<1>9. /\ columns \in Seq(Int) /\ Len(columns) = N
      /\ Total(rows) \in Int /\ Total(columns) = Total(rows)
  BY <1>4, <1>5, <1>6, SumsSwap
<1>10. Prolongs(columns, N, z, n)
  <2>1. z = [i \in 1 .. n |-> IF Cleared(i) THEN Effect(entries[i].lines, UndepositedFunds)
                              ELSE 0]
    BY <1>2 DEF Banked
  <2>2. ASSUME NEW i \in 1 .. n PROVE z[i] = columns[i] /\ z[i] \in Int
    <3>1. i \in 1 .. N
      BY <1>2
    <3>2. columns[i] \in Int
      BY <1>9, <3>1
    <3> QED BY <1>7, <2>1, <3>1, <3>2
  <2>3. \A i \in 1 .. N : i > n => columns[i] = 0
    BY <1>7
  <2>4. z = [i \in 1 .. n |-> z[i]]
    BY <2>1
  <2> QED BY <1>2, <1>8, <2>2, <2>3, <2>4 DEF Prolongs
<1>11. Total(columns) = Total(z) /\ Total(z) \in Int
  BY <1>10, TotalExtends
<1> QED BY <1>8, <1>9, <1>11

\* A table whose rows are those of three others, added up.
Thirds(z, f, g, h, n) ==
    /\ z = [i \in 1 .. n |-> z[i]] /\ f = [i \in 1 .. n |-> f[i]]
    /\ g = [i \in 1 .. n |-> g[i]] /\ h = [i \in 1 .. n |-> h[i]]
    /\ \A i \in 1 .. n : /\ f[i] \in Int /\ g[i] \in Int /\ h[i] \in Int
                         /\ z[i] = (f[i] + g[i]) + h[i]

LEMMA ThirdsAdd ==
    ASSUME NEW n \in Nat, NEW z, NEW f, NEW g, NEW h, Thirds(z, f, g, h, n)
    PROVE  Total(f) \in Int /\ Total(z) = (Total(f) + Total(g)) + Total(h)
<1> DEFINE s == [i \in 1 .. n |-> f[i] + g[i]]
<1>1. s = [i \in 1 .. n |-> s[i]] /\ \A i \in 1 .. n : s[i] = f[i] + g[i]
  OBVIOUS
<1> HIDE DEF s
<1>2. \A i \in 1 .. n : s[i] \in Int /\ z[i] = s[i] + h[i] /\ z[i] \in Int
  BY <1>1 DEF Thirds
<1>3. s \in Seq(Int) /\ Len(s) = n
  BY <1>1, <1>2, SequenceIs
<1>4. z \in Seq(Int) /\ Len(z) = n
  BY <1>2, SequenceIs DEF Thirds
<1>5. f \in Seq(Int) /\ Len(f) = n
  BY SequenceIs DEF Thirds
<1>6. g \in Seq(Int) /\ Len(g) = n
  BY SequenceIs DEF Thirds
<1>7. h \in Seq(Int) /\ Len(h) = n
  BY SequenceIs DEF Thirds
<1>8. Total(s) = Total(f) + Total(g)
  <2>1. Len(g) = Len(f) /\ Len(s) = Len(f) /\ \A i \in 1 .. Len(f) : s[i] = f[i] + g[i]
    BY <1>1, <1>3, <1>5, <1>6
  <2>2. f \in Seq(Int) /\ g \in Seq(Int) /\ s \in Seq(Int)
    BY <1>3, <1>5, <1>6
  <2> QED BY <2>1, <2>2, TotalAdd
<1>9. Total(z) = Total(s) + Total(h)
  <2>1. Len(h) = Len(s) /\ Len(z) = Len(s) /\ \A i \in 1 .. Len(s) : z[i] = s[i] + h[i]
    BY <1>2, <1>3, <1>4, <1>7
  <2>2. s \in Seq(Int) /\ h \in Seq(Int) /\ z \in Seq(Int)
    BY <1>3, <1>4, <1>7
  <2> QED BY <2>1, <2>2, TotalAdd
<1> QED BY <1>5, <1>8, <1>9, TotalType

LEMMA TiesOut ==
    ASSUME BatchesInv, WholeReceipts, DepositsStand
    PROVE  Balance(UndepositedFunds) = TotalListed
<1>1. JournalInv /\ TypeOK /\ BDInv /\ TakenOnce /\ PostedDeposits /\ deposits \in Seq(Deposits)
  BY DEF BatchesInv, BDInv, JournalInv
<1>2. PICK n \in Nat : DOMAIN entries = 1 .. n /\ n <= MaxEntries /\ MaxEntries \in Nat
  BY <1>1, JournalAssumption DEF TypeOK, BDInv
<1> DEFINE E(i) == Effect(entries[i].lines, UndepositedFunds)
           Posts(i) == /\ entries[i].source = "bank_deposit" /\ entries[i].doc \in DOMAIN deposits
                       /\ deposits[entries[i].doc].status = "cleared"
           Z == [i \in DOMAIN entries |-> IF ~IsReversal(i) /\ Stands[i] THEN E(i) ELSE 0]
           P == [i \in DOMAIN entries |-> IF Posts(i) THEN E(i) ELSE 0]
           K == [i \in DOMAIN entries |-> IF Cleared(i) THEN E(i) ELSE 0]
           L == [i \in DOMAIN entries |-> IF Undeposited(i) THEN ListedAmount(i) ELSE 0]
<1>3. Balance(UndepositedFunds) = Total(Z) /\ \A i \in DOMAIN entries : E(i) \in Int
  BY <1>1, BalanceIsStanding
<1>4. PostedOut(P) /\ Banked(K) /\ TotalListed = Total(L)
  BY DEF PostedOut, Banked, TotalListed
<1>5. ASSUME NEW i \in DOMAIN entries
      PROVE  /\ L[i] \in Int /\ K[i] \in Int /\ P[i] \in Int
             /\ Z[i] = (L[i] + K[i]) + P[i]
  <2>1. PICK x \in Int : x = E(i)
    BY <1>3
  <2>2. i \in EntryIds
    BY <1>2 DEF EntryIds
  <2>3. /\ Z[i] = IF ~IsReversal(i) /\ Stands[i] THEN x ELSE 0
        /\ P[i] = IF Posts(i) THEN x ELSE 0
        /\ K[i] = IF Cleared(i) THEN x ELSE 0
        /\ L[i] = IF Undeposited(i) THEN ListedAmount(i) ELSE 0
    BY <2>1
  <2>4. Cleared(i) => IsDocument(i)
    BY <1>1, <2>2 DEF TakenOnce, Cleared, Takes
  <2>5. CASE IsDocument(i)
    <3>1. /\ ListedAmount(i) = x /\ (ReceiptLines(i) = {} => x = 0)
      BY <1>1, <2>1, <2>5, ReceiptIs
    <3>2. (Stands[i] <=> entries[i].reversedBy = 0) /\ (Cleared(i) => Stands[i])
      BY <2>5 DEF DepositsStand, IsDocument
    <3>3. ~IsReversal(i) /\ ~Posts(i)
      BY <2>5 DEF IsDocument, IsReversal
    <3>4. Undeposited(i) <=> /\ ReceiptLines(i) # {} /\ entries[i].reversedBy = 0 /\ ~Cleared(i)
      BY <2>5 DEF Undeposited, IsReceipt, IsDocument
    <3> HIDE DEF Z, P, K, L
    <3>5. CASE Cleared(i)
      BY <2>3, <3>2, <3>3, <3>4, <3>5
    <3>6. CASE ~Cleared(i)
      BY <2>3, <3>1, <3>2, <3>3, <3>4, <3>6
    <3> QED BY <3>5, <3>6
  <2>6. CASE ~IsDocument(i)
    <3>1. ~Cleared(i) /\ ~Undeposited(i)
      BY <2>4, <2>6 DEF Undeposited, IsReceipt, IsDocument
    <3>2. (~IsReversal(i) /\ Stands[i]) /\ x # 0 => Posts(i)
      <4>1. SUFFICES ASSUME ~IsReversal(i), Stands[i], x # 0 PROVE Posts(i)
        OBVIOUS
      <4>2. entries[i].doc # 0
        <5>1. SUFFICES ASSUME entries[i].doc = 0 PROVE FALSE
          OBVIOUS
        <5>2. \A k \in DOMAIN entries[i].lines : entries[i].lines[k].account # UndepositedFunds
          BY <2>6, <5>1 DEF WholeReceipts, IsDocument
        <5>3. entries[i].lines \in Seq(Lines)
          BY <1>1, EntryFields
        <5> QED BY <2>1, <4>1, <5>2, <5>3, EffectOfNone
      <4>3. entries[i].source = "bank_deposit"
        BY <2>6, <4>1, <4>2 DEF IsDocument, IsReversal
      <4>4. entries[i].doc \in DOMAIN deposits
        BY <1>1, <4>2, <4>3 DEF PostedDeposits
      <4> QED BY <4>1, <4>2, <4>3, <4>4 DEF DepositsStand
    <3>3. Posts(i) => ~IsReversal(i) /\ Stands[i]
      <4>1. SUFFICES ASSUME Posts(i) PROVE ~IsReversal(i) /\ Stands[i]
        OBVIOUS
      <4>2. entries[i].doc # 0
        BY <1>1, <4>1
      <4> QED BY <4>1, <4>2 DEF DepositsStand, IsReversal
    <3> HIDE DEF Z, P, K, L, Posts
    <3> QED BY <2>3, <3>1, <3>2, <3>3
  <2> QED BY <2>5, <2>6
<1>6. /\ Z = [i \in 1 .. n |-> Z[i]] /\ P = [i \in 1 .. n |-> P[i]] /\ K = [i \in 1 .. n |-> K[i]]
      /\ L = [i \in 1 .. n |-> L[i]]
  BY <1>2
<1> HIDE DEF Z, P, K, L
<1>8. Thirds(Z, L, K, P, n)
  BY <1>2, <1>5, <1>6 DEF Thirds
<1>9. Total(L) \in Int /\ Total(Z) = (Total(L) + Total(K)) + Total(P)
  BY <1>8, ThirdsAdd
<1>10. Total(P) = -Total(K) /\ Total(K) \in Int
  <2>1. Total(P) = -Total([d \in DOMAIN deposits |-> TakenBy(d)])
    BY <1>4, PostedOutIs
  <2> QED BY <1>4, <2>1, BankedIs
<1> QED BY <1>3, <1>4, <1>9, <1>10

\* While deposits stand, and receipts are whole, what 1030 holds is the list of
\* receipts that await deposit: for any number of receipts, deposits and voids.
THEOREM DepositsTieOut ==
    DepositsAssumption /\ BDSpec => [](WholeReceipts => UndepositedAgrees)
<1>1. BatchesInv => (WholeReceipts => UndepositedAgrees)
  BY TiesOut DEF UndepositedAgrees
<1> QED BY <1>1, BatchesInvariant, PTL

(***************************************************************************)
(* Tables: sequences whatever their rows are.                              *)
(***************************************************************************)
IsTable(s) == s \in Seq({s[k] : k \in DOMAIN s})

LEMMA TableOf == ASSUME NEW S, NEW s \in Seq(S) PROVE IsTable(s)
<1>1. s \in [1 .. Len(s) -> {s[k] : k \in DOMAIN s}] /\ Len(s) \in Nat
  OBVIOUS
<1> QED BY <1>1 DEF IsTable

LEMMA TableFrom ==
    ASSUME NEW S, NEW m \in Nat, NEW s \in [1 .. m -> S]
    PROVE  IsTable(s) /\ Len(s) = m
<1>1. s \in Seq(S) /\ Len(s) = m
  OBVIOUS
<1> QED BY <1>1, TableOf

LEMMA TableRows ==
    ASSUME NEW s, IsTable(s)
    PROVE  Len(s) \in Nat /\ DOMAIN s = 1 .. Len(s)
BY DEF IsTable

LEMMA TableChanged ==
    ASSUME NEW s, IsTable(s), NEW k, NEW x
    PROVE  IsTable([s EXCEPT ![k] = x])
<1> DEFINE S == {s[j] : j \in DOMAIN s} \cup {x}
<1>1. PICK n \in Nat : n = Len(s) /\ s \in [1 .. n -> S]
  BY DEF IsTable
<1>2. [s EXCEPT ![k] = x] \in [1 .. n -> S]
  BY <1>1
<1> HIDE DEF S
<1> QED BY <1>1, <1>2, TableFrom

LEMMA TableAppended ==
    ASSUME NEW s, IsTable(s), NEW x
    PROVE  /\ IsTable(Append(s, x))
           /\ DOMAIN Append(s, x) = 1 .. Len(s) + 1
           /\ Len(Append(s, x)) = Len(s) + 1
           /\ Append(s, x)[Len(s) + 1] = x
           /\ \A k \in 1 .. Len(s) : Append(s, x)[k] = s[k]
<1> DEFINE S == {s[k] : k \in DOMAIN s} \cup {x}
<1>1. s \in Seq(S) /\ x \in S
  <2>1. s \in Seq({s[k] : k \in DOMAIN s})
    BY DEF IsTable
  <2>2. {s[k] : k \in DOMAIN s} \subseteq S
    OBVIOUS
  <2> QED BY <2>1, <2>2
<1> HIDE DEF S
<1>2. /\ Append(s, x) \in Seq(S)
      /\ Len(Append(s, x)) = Len(s) + 1
      /\ Append(s, x)[Len(s) + 1] = x
      /\ \A k \in 1 .. Len(s) : Append(s, x)[k] = s[k]
  BY <1>1, AppendProperties
<1>3. DOMAIN Append(s, x) = 1 .. Len(s) + 1
  BY <1>2
<1> QED BY <1>2, <1>3, TableOf

LEMMA Joined ==
    ASSUME NEW S, NEW s \in Seq(S), NEW t \in Seq(S)
    PROVE  /\ s \o t \in Seq(S) /\ Len(s \o t) = Len(s) + Len(t)
           /\ \A j \in 1 .. Len(s) + Len(t) :
                 (s \o t)[j] = IF j <= Len(s) THEN s[j] ELSE t[j - Len(s)]
OBVIOUS

\* Tables that are joined.
LEMMA TableJoined ==
    ASSUME NEW s, IsTable(s), NEW t, IsTable(t)
    PROVE  /\ IsTable(s \o t) /\ Len(s \o t) = Len(s) + Len(t)
           /\ \A j \in 1 .. Len(s) + Len(t) :
                 (s \o t)[j] = IF j <= Len(s) THEN s[j] ELSE t[j - Len(s)]
<1> DEFINE S == {s[k] : k \in DOMAIN s}
           T == {t[k] : k \in DOMAIN t}
<1>1. s \in Seq(S) /\ t \in Seq(T)
  BY DEF IsTable
<1> HIDE DEF S, T
<1>2. s \in Seq(S \cup T) /\ t \in Seq(S \cup T)
  BY <1>1
<1> QED BY <1>2, Joined, TableOf

(***************************************************************************)
(* Transactions.                                                           *)
(***************************************************************************)
\* Rows are of a type and for positive cents.
IsRow(r) ==
    /\ r = [type |-> r.type, category |-> r.category, amount |-> r.amount, lease |-> r.lease,
            reference |-> r.reference, entry |-> r.entry, live |-> r.live]
    /\ r.type \in Types /\ r.amount \in Nat \ {0} /\ r.live \in BOOLEAN

HasColumns(r) ==
    /\ r = [type |-> r.type, category |-> r.category, amount |-> r.amount, lease |-> r.lease,
            reference |-> r.reference, entry |-> r.entry, live |-> r.live]
    /\ r.type \in Types /\ r.amount \in Nat /\ r.live \in BOOLEAN

\* The row t and the entry that it names.
MirrorOf(t) ==
    LET i == transactions[t].entry
    IN  /\ i \in DOMAIN entries /\ entries[i].doc = t /\ entries[i].source # "reversal"
        /\ Debits(entries[i].lines) = transactions[t].amount
        /\ ~transactions[t].live => entries[i].reversedBy # 0

\* Only rows have entries with a source_id, apart from reversals.
EntryOfRow(i) ==
    entries[i].doc # 0 /\ entries[i].source # "reversal" =>
        entries[i].doc \in DOMAIN transactions /\ transactions[entries[i].doc].entry = i

TxInv ==
    /\ TransactionsAssumption
    /\ JournalInv /\ Len(entries) <= MaxEntries
    /\ IsTable(transactions) /\ \A t \in DOMAIN transactions : IsRow(transactions[t])
    /\ \A t \in DOMAIN transactions : MirrorOf(t)
    /\ \A i \in DOMAIN entries : EntryOfRow(i)

LEMMA TxInitial == TransactionsAssumption /\ TxInit => TxInv
<1> SUFFICES ASSUME TransactionsAssumption, TxInit PROVE TxInv
  OBVIOUS
<1>1. JournalInv /\ entries = <<>> /\ transactions = <<>>
  BY JournalInit DEF TxInit, Init
<1>2. Len(entries) <= MaxEntries
  BY <1>1, JournalAssumption
<1>3. IsTable(transactions)
  <2>1. \A S : <<>> \in Seq(S)
    OBVIOUS
  <2> QED BY <1>1, <2>1 DEF IsTable
<1> QED BY <1>1, <1>2, <1>3 DEF TxInv

\* Entries that come without a row, and reversals.
LEMMA OthersKeepRows ==
    ASSUME TxInv, JournalInv', Kept, UNCHANGED transactions,
           \A i \in DOMAIN entries' \ DOMAIN entries :
              entries'[i].doc = 0 \/ entries'[i].source = "reversal"
    PROVE  TxInv'
<1>1. ASSUME NEW t \in DOMAIN transactions PROVE MirrorOf(t)'
  BY DEF TxInv, MirrorOf, Kept
<1>2. ASSUME NEW i \in DOMAIN entries' PROVE EntryOfRow(i)'
  BY DEF TxInv, EntryOfRow, Kept
<1>3. /\ IsTable(transactions') /\ \A t \in DOMAIN transactions' : IsRow(transactions'[t])
      /\ Len(entries') <= MaxEntries
  BY DEF TxInv, Kept
<1> QED BY <1>1, <1>2, <1>3 DEF TxInv, TransactionsAssumption

\* The two lines of a transaction.
LEMMA TransferIs ==
    ASSUME NEW debit \in Accounts, NEW credit \in Accounts, NEW amount \in Nat,
           NEW lease \in Refs \cup {NoRef}
    PROVE  /\ Transfer(debit, credit, amount, lease) \in Seq(LineInputs)
           /\ Debits(Transfer(debit, credit, amount, lease)) = amount
<1> DEFINE d == [account |-> debit, debit |-> amount, credit |-> 0, ref |-> lease]
           c == [account |-> credit, debit |-> 0, credit |-> amount, ref |-> lease]
           lines == Transfer(debit, credit, amount, lease)
           f == [k \in DOMAIN lines |-> lines[k].debit]
<1>1. d \in LineInputs /\ c \in LineInputs /\ d.debit = amount /\ c.debit = 0
  BY DEF LineInputs, AccountIds
<1>2. lines = <<d, c>>
  BY DEF Transfer
<1> HIDE DEF lines, d, c
<1>3. lines \in Seq(LineInputs) /\ DOMAIN lines = 1 .. 2 /\ lines[1] = d /\ lines[2] = c
  BY <1>1, <1>2
<1>4. f[1] = amount /\ f[2] = 0 /\ f \in Seq(Int) /\ Len(f) = 2
  <2>1. f \in Seq(Int)
    BY <1>3, LineSums
  <2>2. f[1] = amount /\ f[2] = 0 /\ DOMAIN f = 1 .. 2
    BY <1>1, <1>3
  <2> HIDE DEF f
  <2> QED BY <2>1, <2>2
<1>5. Debits(lines) = Total(f)
  BY DEF Debits
<1> HIDE DEF f
<1>6. f = Append(Append(<< >>, amount), 0)
  BY <1>4
<1>7. Total(f) = 0 + amount + 0
  <2>1. << >> \in Seq(Int) /\ Append(<< >>, amount) \in Seq(Int) /\ 0 \in Int /\ amount \in Int
    OBVIOUS
  <2>2. Total(Append(<< >>, amount)) = 0 + amount
    BY <2>1, TotalAppend, TotalEmpty
  <2>3. Total(Append(Append(<< >>, amount), 0)) = Total(Append(<< >>, amount)) + 0
    BY <2>1, TotalAppend
  <2> QED BY <1>6, <2>2, <2>3
<1> QED BY <1>3, <1>5, <1>7 DEF lines

\* Every type of transaction moves money between two accounts of the chart.
LEMMA AccountsAre ==
    ASSUME TransactionsAssumption, NEW type \in Types, NEW category
    PROVE  /\ DebitAccount(type, category) \in Accounts
           /\ CreditAccount(type, category, NoAccount) \in Accounts
<1>1. \A c \in Required : Mapped[c] \in Accounts
  BY DEF TransactionsAssumption
<1>2. /\ AR \in Accounts /\ Mapped["operating_bank"] \in Accounts
      /\ Mapped["trust_bank"] \in Accounts /\ Mapped["security_deposit"] \in Accounts
  BY <1>1 DEF AR, Required
<1>3. MappedOr(category, "repairs") \in Accounts /\ MappedOr(category, "rent") \in Accounts
  <2>1. \A c \in DOMAIN Mapped : Mapped[c] \in Accounts
    BY DEF TransactionsAssumption
  <2>2. "repairs" \in Required /\ "rent" \in Required
    BY DEF Required
  <2> QED BY <1>1, <2>1, <2>2 DEF MappedOr
<1>4. DebitAccount(type, category) \in Accounts
  <2>1. CASE type \in {"charge", "refund"}
    BY <1>2, <2>1 DEF DebitAccount
  <2>2. CASE type = "payment"
    BY <1>2, <2>2 DEF DebitAccount
  <2>3. CASE type = "expense"
    BY <1>3, <2>3 DEF DebitAccount
  <2>4. CASE type = "deposit_inflow"
    BY <1>2, <2>4 DEF DebitAccount
  <2>5. CASE type \in {"deposit_return", "deposit_deduction"}
    BY <1>2, <2>5 DEF DebitAccount
  <2> QED BY <2>1, <2>2, <2>3, <2>4, <2>5 DEF Types
<1>5. CreditAccount(type, category, NoAccount) \in Accounts
  <2>1. CASE type = "charge"
    BY <1>3, <2>1 DEF CreditAccount
  <2>2. CASE type \in {"payment", "deposit_deduction"}
    BY <1>2, <2>2 DEF CreditAccount
  <2>3. CASE type \in {"expense", "refund"}
    BY <1>2, <2>3 DEF CreditAccount
  <2>4. CASE type = "deposit_inflow"
    BY <1>2, <2>4 DEF CreditAccount
  <2>5. CASE type = "deposit_return"
    BY <1>2, <2>5 DEF CreditAccount
  <2> QED BY <2>1, <2>2, <2>3, <2>4, <2>5 DEF Types
<1> QED BY <1>4, <1>5

\* What a step that posts a row of these columns makes of the two tables.
Adds(source, row) ==
    LET t == Len(transactions) + 1
        i == Len(entries) + 1
    IN  /\ t \in Nat \ {0} /\ t \notin DOMAIN transactions
        /\ DOMAIN transactions' = DOMAIN transactions \cup {t}
        /\ transactions'[t] = row /\ row.entry = i
        /\ \A s \in DOMAIN transactions : transactions'[s] = transactions[s]
        /\ Kept /\ entries'[i].source = source

\* What they hold beside: the new row, and the entry that mirrors it.
LEMMA PostRowWrites ==
    ASSUME TransactionsAssumption, JournalInv, IsTable(transactions),
           NEW source \in Sources, source # "reversal", NEW type \in Types,
           NEW debit, NEW credit, NEW amount \in Nat \ {0}, NEW lease, NEW category,
           NEW reference, liveRefs' \subseteq Refs,
           PostWithRow(source, Transfer(debit, credit, amount, lease),
                       Row(type, category, amount, lease, reference))
    PROVE  LET t == Len(transactions) + 1
               i == Len(entries) + 1
               row == [type |-> type, category |-> category, amount |-> amount,
                       lease |-> lease, reference |-> reference, entry |-> i, live |-> TRUE]
           IN  /\ JournalInv' /\ Ledger!Post /\ lease \in {NoRef} \cup liveRefs
               /\ IsTable(transactions') /\ IsRow(row) /\ Adds(source, row)
               /\ DOMAIN entries' = DOMAIN entries \cup {i} /\ i \notin DOMAIN entries
               /\ \A j \in DOMAIN entries : entries'[j] = entries[j]
               /\ entries'[i].doc = t /\ Debits(entries'[i].lines) = amount
               /\ entries'[i].lines = Transfer(debit, credit, amount, lease)
               /\ entries'[i].reversedBy = 0
<1>0. PICK n, t0 : n = Len(entries) /\ t0 = Len(transactions) + 1
  OBVIOUS
<1>1. PICK lines : lines = Transfer(debit, credit, amount, lease)
  OBVIOUS
<1>2. PICK row : row = Row(type, category, amount, lease, reference)
  OBVIOUS
<1>3. PostEntry(source, t0, lines) /\ transactions' = Append(transactions, row)
  BY <1>0, <1>1, <1>2 DEF PostWithRow
<1>4. /\ TransactionsAssumption /\ JournalInv /\ TypeOK /\ liveRefs \subseteq Refs
      /\ IsTable(transactions) /\ n \in Nat /\ DOMAIN entries = 1 .. n
  BY <1>0 DEF JournalInv, TypeOK
<1>5. debit \in Accounts /\ credit \in Accounts /\ lease \in {NoRef} \cup liveRefs
  <2> DEFINE d == [account |-> debit, debit |-> amount, credit |-> 0, ref |-> lease]
             c == [account |-> credit, debit |-> 0, credit |-> amount, ref |-> lease]
  <2>1. lines = <<d, c>> /\ Resolves(lines, FALSE)
    BY <1>1, <1>3 DEF Transfer, PostEntry, MayPost
  <2>2. d.account = debit /\ d.ref = lease /\ c.account = credit
    OBVIOUS
  <2> HIDE DEF d, c
  <2>3. DOMAIN lines = 1 .. 2 /\ lines[1] = d /\ lines[2] = c
    BY <2>1
  <2>4. 1 \in 1 .. 2 /\ 2 \in 1 .. 2
    OBVIOUS
  <2> QED BY <2>1, <2>2, <2>3, <2>4 DEF Resolves
<1>6. lines \in Seq(LineInputs) /\ Debits(lines) = amount
  BY <1>1, <1>4, <1>5, TransferIs
<1>7. row = [type |-> type, category |-> category, amount |-> amount, lease |-> lease,
             reference |-> reference, entry |-> n + 1, live |-> TRUE]
  BY <1>0, <1>2 DEF Row
<1>8. IsRow(row) /\ row.amount = amount /\ row.entry = n + 1 /\ row.live = TRUE
  BY <1>7 DEF IsRow
<1>9. /\ IsTable(transactions') /\ transactions'[t0] = row
      /\ DOMAIN transactions' = DOMAIN transactions \cup {t0} /\ t0 \notin DOMAIN transactions
      /\ t0 \in Nat /\ t0 # 0
      /\ \A t \in DOMAIN transactions : transactions'[t] = transactions[t]
  <2>1. PICK m \in Nat : m = Len(transactions) /\ DOMAIN transactions = 1 .. m /\ t0 = m + 1
    BY <1>0, <1>4, TableRows
  <2>2. /\ IsTable(transactions') /\ transactions'[m + 1] = row
        /\ DOMAIN transactions' = 1 .. m + 1
        /\ \A t \in 1 .. m : transactions'[t] = transactions[t]
    BY <1>3, <1>4, <2>1, TableAppended
  <2>3. 1 .. m + 1 = 1 .. m \cup {m + 1} /\ m + 1 \notin 1 .. m /\ m + 1 # 0
    BY <2>1
  <2> QED BY <2>1, <2>2, <2>3
<1>10. JournalInv'
  BY <1>3, <1>4, <1>6, <1>9, PostPreserves
<1>11. /\ Kept /\ DOMAIN entries' = DOMAIN entries \cup {n + 1} /\ n + 1 \notin DOMAIN entries
       /\ entries'[n + 1].source = source /\ entries'[n + 1].doc = t0
       /\ entries'[n + 1].lines = lines /\ entries'[n + 1].reversedBy = 0
       /\ \A i \in DOMAIN entries : entries'[i] = entries[i]
  BY <1>0, <1>3, <1>4, PostKeeps
<1>12. Ledger!Post
  BY <1>3, <1>4, <1>10, PostIsPost
<1>13. Adds(source, row)
  BY <1>0, <1>8, <1>9, <1>11 DEF Adds
<1> QED BY <1>0, <1>1, <1>5, <1>6, <1>7, <1>8, <1>9, <1>10, <1>11, <1>12, <1>13

LEMMA PostRowStep ==
    ASSUME TxInv, NEW source \in Sources, source # "reversal", NEW type \in Types,
           NEW debit, NEW credit, NEW amount \in Nat \ {0}, NEW lease, NEW category,
           NEW reference, liveRefs' \subseteq Refs,
           PostWithRow(source, Transfer(debit, credit, amount, lease),
                       Row(type, category, amount, lease, reference))
    PROVE  /\ TxInv' /\ Ledger!Post /\ lease \in {NoRef} \cup liveRefs
           /\ Adds(source, [type |-> type, category |-> category, amount |-> amount,
                            lease |-> lease, reference |-> reference,
                            entry |-> Len(entries) + 1, live |-> TRUE])
<1>0. PICK n, t0 : n = Len(entries) /\ t0 = Len(transactions) + 1
  OBVIOUS
<1>1. PICK row : row = [type |-> type, category |-> category, amount |-> amount,
                        lease |-> lease, reference |-> reference, entry |-> n + 1,
                        live |-> TRUE]
  OBVIOUS
<1>2. TransactionsAssumption /\ JournalInv /\ IsTable(transactions)
  BY DEF TxInv
<1>3. /\ JournalInv' /\ Ledger!Post /\ lease \in {NoRef} \cup liveRefs
      /\ IsTable(transactions') /\ IsRow(row) /\ Adds(source, row)
      /\ DOMAIN entries' = DOMAIN entries \cup {n + 1} /\ n + 1 \notin DOMAIN entries
      /\ \A j \in DOMAIN entries : entries'[j] = entries[j]
      /\ entries'[n + 1].doc = t0 /\ Debits(entries'[n + 1].lines) = amount
  BY <1>0, <1>1, <1>2, PostRowWrites
<1>4. row.amount = amount /\ row.entry = n + 1 /\ row.live = TRUE
  BY <1>1
<1>5. /\ transactions'[t0] = row /\ entries'[n + 1].source = source
      /\ DOMAIN transactions' = DOMAIN transactions \cup {t0} /\ t0 \notin DOMAIN transactions
      /\ \A t \in DOMAIN transactions : transactions'[t] = transactions[t]
      /\ Kept
  BY <1>0, <1>3 DEF Adds
<1>6. ASSUME NEW t \in DOMAIN transactions' PROVE MirrorOf(t)' /\ IsRow(transactions'[t])
  <2>1. CASE t = t0
    BY <1>3, <1>4, <1>5, <2>1 DEF MirrorOf
  <2>2. CASE t # t0
    <3>1. /\ t \in DOMAIN transactions /\ transactions'[t] = transactions[t]
          /\ MirrorOf(t) /\ IsRow(transactions[t])
      BY <1>5, <2>2 DEF TxInv
    <3> QED BY <1>3, <3>1 DEF MirrorOf
  <2> QED BY <2>1, <2>2
<1>7. ASSUME NEW i \in DOMAIN entries' PROVE EntryOfRow(i)'
  <2>1. CASE i = n + 1
    BY <1>3, <1>4, <1>5, <2>1 DEF EntryOfRow
  <2>2. CASE i # n + 1
    <3>1. i \in DOMAIN entries /\ entries'[i] = entries[i] /\ EntryOfRow(i)
      BY <1>3, <2>2 DEF TxInv
    <3> QED BY <1>5, <3>1 DEF EntryOfRow
  <2> QED BY <2>1, <2>2
<1>8. TxInv'
  <2>1. Len(entries') <= MaxEntries
    BY <1>5 DEF Kept
  <2> QED BY <1>2, <1>3, <1>6, <1>7, <2>1 DEF TxInv, TransactionsAssumption
<1> QED BY <1>0, <1>1, <1>3, <1>8

LEMMA CreateTransactionStep ==
    ASSUME TxInv, NEW type \in Types, NEW category, NEW amount \in Int, NEW lease,
           NEW reference, NEW gl, liveRefs' \subseteq Refs,
           CreateTransaction(type, category, amount, lease, reference, gl)
    PROVE  /\ TxInv' /\ Ledger!Post /\ lease \in {NoRef} \cup liveRefs
           /\ Adds(type, [type |-> type, category |-> category,
                          amount |-> Magnitude(amount), lease |-> lease,
                          reference |-> reference, entry |-> Len(entries) + 1,
                          live |-> TRUE])
<1>1. Magnitude(amount) \in Nat \ {0}
  BY DEF CreateTransaction, Magnitude
<1>2. type \in Sources /\ type # "reversal"
  BY DEF Types, Sources, DocumentSources
<1> QED BY <1>1, <1>2, PostRowStep DEF CreateTransaction

LEMMA CreateFromRequestStep ==
    ASSUME TxInv, NEW input \in Inputs, CreateFromRequest(input)
    PROVE  /\ TxInv' /\ Ledger!Post /\ input.lease \in {NoRef} \cup liveRefs
           /\ Adds(input.type, [type |-> input.type, category |-> input.category,
                                amount |-> Magnitude(input.amount), lease |-> input.lease,
                                reference |-> NoReference, entry |-> Len(entries) + 1,
                                live |-> TRUE])
<1>1. input.type \in Types /\ input.amount \in Int
  BY DEF TxInv, TransactionsAssumption
<1>2. liveRefs' \subseteq Refs
  BY DEF TxInv, JournalInv, TypeOK, CreateFromRequest
<1> QED BY <1>1, <1>2, CreateTransactionStep DEF CreateFromRequest

\* What a step that deletes the row t makes of the two tables.
Deletes(t) ==
    /\ DOMAIN transactions' = DOMAIN transactions
    /\ transactions[t].live
    /\ transactions'[t] = [type |-> transactions[t].type,
                           category |-> transactions[t].category,
                           amount |-> transactions[t].amount,
                           lease |-> transactions[t].lease,
                           reference |-> transactions[t].reference,
                           entry |-> transactions[t].entry, live |-> FALSE]
    /\ \A s \in DOMAIN transactions : s # t => transactions'[s] = transactions[s]
    /\ Kept

\* A row that has an entry takes it out of force, whoever did so before.
LEMMA DeleteWrites ==
    ASSUME JournalInv, Len(entries) <= MaxEntries, IsTable(transactions),
           NEW t \in DOMAIN transactions, HasColumns(transactions[t]),
           Posted(t) => transactions[t].entry \in DOMAIN entries, DeleteFromRequest(t)
    PROVE  /\ JournalInv' /\ IsTable(transactions') /\ Deletes(t)
           /\ Posted(t) => entries'[transactions[t].entry].reversedBy # 0
           /\ \A j \in DOMAIN entries' \ DOMAIN entries : entries'[j].source = "reversal"
           /\ Ledger!Next \/ UNCHANGED BookOf(entries)
<1>1. PICK i : i = transactions[t].entry
  OBVIOUS
<1>2. TypeOK /\ liveRefs \subseteq Refs /\ UNCHANGED liveRefs
  BY DEF JournalInv, TypeOK, DeleteFromRequest
<1>3. Posted(t) <=> i # 0
  BY <1>1 DEF Posted
<1>4. /\ IF Posted(t) /\ entries[i].reversedBy = 0 THEN ReverseEntry(i) ELSE UNCHANGED entries
      /\ transactions' = [transactions EXCEPT ![t].live = FALSE] /\ transactions[t].live
  BY <1>1 DEF DeleteFromRequest, DeleteTransaction
<1>5. PICK new : new = [type |-> transactions[t].type, category |-> transactions[t].category,
                        amount |-> transactions[t].amount, lease |-> transactions[t].lease,
                        reference |-> transactions[t].reference, entry |-> i, live |-> FALSE]
  OBVIOUS
<1>6. transactions' = [transactions EXCEPT ![t] = new]
  <2>1. PICK old : old = transactions[t]
    OBVIOUS
  <2>2. PICK ty, ca, am, le, re, en, li :
           old = [type |-> ty, category |-> ca, amount |-> am, lease |-> le,
                  reference |-> re, entry |-> en, live |-> li]
    BY <2>1 DEF HasColumns
  <2>3. ASSUME NEW no
        PROVE  [[type |-> ty, category |-> ca, amount |-> am, lease |-> le,
                 reference |-> re, entry |-> en, live |-> li] EXCEPT !.live = no]
                  = [type |-> ty, category |-> ca, amount |-> am, lease |-> le,
                     reference |-> re, entry |-> en, live |-> no]
    OBVIOUS
  <2>4. [old EXCEPT !.live = FALSE]
           = [type |-> ty, category |-> ca, amount |-> am, lease |-> le, reference |-> re,
              entry |-> en, live |-> FALSE]
    BY <2>2, <2>3
  <2>5. new = [type |-> ty, category |-> ca, amount |-> am, lease |-> le, reference |-> re,
               entry |-> en, live |-> FALSE]
    BY <1>1, <1>5, <2>1, <2>2
  <2>6. [old EXCEPT !.live = FALSE] = new
    BY <2>4, <2>5
  <2> QED BY <1>4, <2>1, <2>6
<1>7. /\ DOMAIN transactions' = DOMAIN transactions /\ transactions'[t] = new
      /\ \A s \in DOMAIN transactions : s # t => transactions'[s] = transactions[s]
  BY <1>6 DEF IsTable
<1>8. IsTable(transactions')
  BY <1>6, TableChanged
<1>9. /\ JournalInv' /\ Kept
      /\ Posted(t) => entries'[i].reversedBy # 0
      /\ \A j \in DOMAIN entries' \ DOMAIN entries : entries'[j].source = "reversal"
      /\ Ledger!Next \/ UNCHANGED BookOf(entries)
  <2>1. CASE ~(Posted(t) /\ entries[i].reversedBy = 0)
    <3>1. UNCHANGED entries /\ liveRefs' \subseteq Refs
      BY <1>2, <1>4, <2>1
    <3>2. Kept
      BY <3>1 DEF Kept
    <3> QED BY <2>1, <3>1, <3>2, JournalKept
  <2>2. CASE Posted(t) /\ entries[i].reversedBy = 0
    <3>1. ReverseEntry(i) /\ liveRefs' \subseteq Refs
      BY <1>2, <1>4, <2>2
    <3>2. JournalInv'
      BY <3>1, ReversePreserves
    <3>3. Ledger!Next
      BY <3>1, <3>2, ReverseIsUndo, NextIs
    <3> QED BY <3>1, <3>2, <3>3, ReverseKeeps
  <2> QED BY <2>1, <2>2
<1>10. Deletes(t)
  BY <1>1, <1>4, <1>5, <1>7, <1>9 DEF Deletes
<1> QED BY <1>1, <1>8, <1>9, <1>10

LEMMA DeleteTransactionStep ==
    ASSUME TxInv, NEW t \in DOMAIN transactions, DeleteFromRequest(t)
    PROVE  TxInv' /\ Deletes(t) /\ (Ledger!Next \/ UNCHANGED BookOf(entries))
<1>1. PICK i : i = transactions[t].entry
  OBVIOUS
<1>2. /\ MirrorOf(t) /\ i \in DOMAIN entries /\ entries[i].doc = t
      /\ IsRow(transactions[t]) /\ JournalInv /\ TypeOK /\ Len(entries) <= MaxEntries
      /\ IsTable(transactions)
  BY <1>1 DEF TxInv, MirrorOf, JournalInv
<1>3. HasColumns(transactions[t]) /\ Posted(t)
  <2>1. 0 \notin DOMAIN entries
    BY <1>2 DEF TypeOK
  <2> QED BY <1>1, <1>2, <2>1 DEF HasColumns, IsRow, Posted
<1>4. /\ JournalInv' /\ IsTable(transactions') /\ Deletes(t)
      /\ entries'[i].reversedBy # 0
      /\ \A j \in DOMAIN entries' \ DOMAIN entries : entries'[j].source = "reversal"
      /\ Ledger!Next \/ UNCHANGED BookOf(entries)
  BY <1>1, <1>2, <1>3, DeleteWrites
<1>5. PICK new : new = [type |-> transactions[t].type, category |-> transactions[t].category,
                        amount |-> transactions[t].amount, lease |-> transactions[t].lease,
                        reference |-> transactions[t].reference, entry |-> i, live |-> FALSE]
  OBVIOUS
<1>6. /\ DOMAIN transactions' = DOMAIN transactions /\ transactions'[t] = new
      /\ \A s \in DOMAIN transactions : s # t => transactions'[s] = transactions[s]
      /\ Kept
  BY <1>1, <1>4, <1>5 DEF Deletes
<1>7. /\ IsRow(new) /\ new.live = FALSE /\ new.entry = i
      /\ new.amount = transactions[t].amount
  BY <1>2, <1>5 DEF IsRow
<1>8. ASSUME NEW s \in DOMAIN transactions PROVE MirrorOf(s)' /\ IsRow(transactions'[s])
  <2>1. MirrorOf(s) /\ IsRow(transactions[s])
    BY DEF TxInv
  <2>2. transactions'[s].entry = transactions[s].entry
        /\ transactions'[s].amount = transactions[s].amount
    BY <1>1, <1>6, <1>7
  <2>3. ~transactions'[s].live => entries'[transactions'[s].entry].reversedBy # 0
    <3>1. CASE s = t
      BY <1>1, <1>4, <2>2, <3>1
    <3>2. CASE s # t
      BY <1>6, <2>1, <2>2, <3>2 DEF MirrorOf, Kept
    <3> QED BY <3>1, <3>2
  <2>4. IsRow(transactions'[s])
    BY <1>6, <1>7, <2>1
  <2> QED BY <1>6, <2>1, <2>2, <2>3, <2>4 DEF MirrorOf, Kept
<1>9. ASSUME NEW j \in DOMAIN entries' PROVE EntryOfRow(j)'
  <2>1. CASE j \notin DOMAIN entries
    BY <1>4, <2>1 DEF EntryOfRow
  <2>2. CASE j \in DOMAIN entries
    <3>1. /\ EntryOfRow(j)
          /\ \A s \in DOMAIN transactions : transactions'[s].entry = transactions[s].entry
      BY <1>1, <1>6, <1>7, <2>2 DEF TxInv
    <3> QED BY <1>6, <2>2, <3>1 DEF EntryOfRow, Kept
  <2> QED BY <2>1, <2>2
<1>10. TxInv'
  <2>1. Len(entries') <= MaxEntries
    BY <1>6 DEF Kept
  <2> QED BY <1>4, <1>6, <1>8, <1>9, <2>1 DEF TxInv, TransactionsAssumption
<1> QED BY <1>4, <1>10

LEMMA NothingPosted ==
    ASSUME TxInv, UNCHANGED <<entries, transactions>>, liveRefs' \subseteq Refs
    PROVE  TxInv' /\ Kept /\ UNCHANGED BookOf(entries)
<1>1. JournalInv' /\ UNCHANGED BookOf(entries)
  BY JournalKept DEF TxInv
<1>2. Kept
  BY DEF Kept, TxInv
<1> QED BY <1>1, <1>2, OthersKeepRows

LEMMA TxStep == TxInv /\ [TxNext]_TxVars => TxInv' /\ [Ledger!Next]_(BookOf(entries))
<1> SUFFICES ASSUME TxInv, [TxNext]_TxVars
             PROVE  TxInv' /\ (Ledger!Next \/ UNCHANGED BookOf(entries))
  OBVIOUS
<1>1. JournalInv /\ TypeOK /\ liveRefs \subseteq Refs /\ Len(entries) <= MaxEntries
  BY DEF TxInv, JournalInv, TypeOK
<1>2. ASSUME NEW input \in Inputs, CreateFromRequest(input) PROVE TxInv' /\ Ledger!Next
  BY <1>2, CreateFromRequestStep, NextIs
<1>3. ASSUME NEW t \in DOMAIN transactions, DeleteFromRequest(t)
      PROVE  TxInv' /\ (Ledger!Next \/ UNCHANGED BookOf(entries))
  BY <1>3, DeleteTransactionStep
<1>4. ASSUME NEW source \in ManualSources, NEW lines \in ManualLines,
             PostManual(source, lines), UNCHANGED transactions
      PROVE  TxInv' /\ Ledger!Next
  <2>1. PostEntry(source, 0, lines) /\ UNCHANGED liveRefs
    BY <1>4 DEF PostManual
  <2>2. JournalInv'
    <3>1. lines \in Seq(LineInputs) /\ source \in Sources /\ 0 \in Nat
      BY JournalAssumption
    <3>2. liveRefs' \subseteq Refs
      BY <1>1, <2>1
    <3> QED BY <1>1, <2>1, <3>1, <3>2, PostPreserves
  <2>3. Kept /\ \A i \in DOMAIN entries' \ DOMAIN entries : entries'[i].doc = 0
    BY <1>1, <2>1, PostKeeps
  <2>4. TxInv'
    BY <1>4, <2>2, <2>3, OthersKeepRows
  <2> QED BY <1>1, <2>1, <2>2, <2>4, PostIsPost, NextIs
<1>5. ASSUME NEW i \in DOMAIN entries, ReverseManual(i), UNCHANGED transactions
      PROVE  TxInv' /\ Ledger!Next
  <2>1. ReverseEntry(i) /\ UNCHANGED liveRefs
    BY <1>5 DEF ReverseManual
  <2>2. JournalInv'
    BY <1>1, <2>1, ReversePreserves
  <2>3. Kept /\ \A j \in DOMAIN entries' \ DOMAIN entries : entries'[j].source = "reversal"
    BY <1>1, <2>1, ReverseKeeps
  <2>4. TxInv'
    BY <1>5, <2>2, <2>3, OthersKeepRows
  <2> QED BY <1>1, <2>1, <2>2, <2>4, ReverseIsUndo, NextIs
<1>6. ASSUME NEW r \in Refs, SoftDelete(r), UNCHANGED transactions
      PROVE  TxInv' /\ UNCHANGED BookOf(entries)
  <2>1. UNCHANGED entries /\ liveRefs' \subseteq Refs
    BY <1>1, <1>6 DEF SoftDelete
  <2> QED BY <1>6, <2>1, NothingPosted
<1>7. ASSUME UNCHANGED TxVars PROVE TxInv' /\ UNCHANGED BookOf(entries)
  BY <1>1, <1>7, NothingPosted DEF TxVars
<1> QED BY <1>2, <1>3, <1>4, <1>5, <1>6, <1>7 DEF TxNext, UseJournal, DeleteReference

LEMMA TxInvariant == TransactionsAssumption /\ TxSpec => []TxInv
<1>1. TxInv /\ [TxNext]_TxVars => TxInv'
  BY TxStep
<1> QED BY <1>1, TxInitial, PTL DEF TxSpec

LEMMA TxImplies == TxInv => RowsMirrorEntries
<1> SUFFICES ASSUME TxInv PROVE RowsMirrorEntries
  OBVIOUS
<1>1. ASSUME NEW t \in DOMAIN transactions
      PROVE  LET entry == entries[transactions[t].entry]
             IN  /\ entry.doc = t /\ ~IsReversal(transactions[t].entry)
                 /\ Debits(entry.lines) = transactions[t].amount
                 /\ ~transactions[t].live => entry.reversedBy # 0
  BY DEF TxInv, MirrorOf, IsReversal
<1>2. ASSUME NEW i \in DOMAIN entries, entries[i].doc # 0, ~IsReversal(i)
      PROVE  transactions[entries[i].doc].entry = i
  BY <1>2 DEF TxInv, EntryOfRow, IsReversal
<1> QED BY <1>1, <1>2 DEF RowsMirrorEntries

\* Whatever is created, deleted, posted and reversed, a transaction and its
\* journal entry mirror each other.
THEOREM RowsMirrored == TransactionsAssumption /\ TxSpec => []RowsMirrorEntries
BY TxInvariant, TxImplies, PTL

\* With transactions made and deleted among postings and reversals of users,
\* the journal still implements AppendOnlyLedger, and its entries stay
\* balanced, paired and reversible.
THEOREM TransactionsRefine ==
    TransactionsAssumption /\ TxSpec =>
       IsAppendOnlyLedger /\ [](EntriesBalanced /\ ReversalsPaired /\ AlwaysReversible)
<1>1. TxInit => Ledger!Init
  BY DEF TxInit, Init, Ledger!Init
<1>2. TxInv /\ [TxNext]_TxVars
        => [Ledger!Next]_([i \in DOMAIN entries |->
                     [effect |-> [a \in Accounts |-> Effect(entries[i].lines, a)],
                      undoneBy |-> entries[i].reversedBy]])
  BY TxStep DEF BookOf
<1>3. TxInv => EntriesBalanced /\ ReversalsPaired /\ AlwaysReversible
  BY JournalImplies DEF TxInv
<1> QED BY <1>1, <1>2, <1>3, TxInvariant, PTL DEF TxSpec, IsAppendOnlyLedger, Ledger!Spec

(***************************************************************************)
(* What tenants are charged.                                               *)
(***************************************************************************)
ChargesAssumption == TransactionsAssumption /\ LeasesAssumption /\ LeaseChargesAssumption

IsBill(reference) == reference.kind \in {"rent", "recurring"}

\* A bill is of the lease that its reference names.
IsOf(l, reference) ==
    CASE reference.kind = "rent" -> l = reference.key
      [] reference.kind = "recurring" ->
            reference.key \in DOMAIN recurring /\ l = recurring[reference.key].lease
      [] OTHER -> TRUE

\* So are the row t and what the row of a late fee has posted.
RowTells(t) ==
    /\ IsOf(transactions[t].lease, transactions[t].reference)
    /\ transactions[t].reference.kind = "late_fee" =>
          entries[transactions[t].entry].source = "late_fee"

\* Rows that may not have the same reference.
Rival(s, t) ==
    /\ transactions[s].reference = transactions[t].reference
    /\ \/ IsBill(transactions[t].reference) /\ transactions[s].live /\ transactions[t].live
       \/ transactions[t].reference.kind = "late_fee"
RowsOnce == \A s, t \in DOMAIN transactions : Rival(s, t) => s = t

RowsTell == RowsOnce /\ \A t \in DOMAIN transactions : RowTells(t)

IsCharge(c) ==
    /\ c = [input |-> c.input, lease |-> c.lease, live |-> c.live]
    /\ c.input \in RecurringInputs
ChargesTyped ==
    /\ leases \in [DOMAIN leases -> TermRecords]
    /\ IsTable(recurring) /\ \A c \in DOMAIN recurring : IsCharge(recurring[c])
    /\ policies \subseteq PolicyInputs

\* The run is over leases and items of one month.
IsItem(item) ==
    /\ IsBill(item.reference) /\ IsOf(item.lease, item.reference)
    /\ item.amounts \subseteq Int
RunTyped ==
    /\ run = [month |-> run.month, leases |-> run.leases, items |-> run.items,
              made |-> run.made]
    /\ run # Idle => run.month \in Months
    /\ run.leases \subseteq DOMAIN leases
    /\ \A item \in run.items : IsItem(item)

\* What the run has passed is charged.
Covered(l) ==
    \/ l \in run.leases
    \/ \A item \in Items(l, run.month) : Existing(item) \/ item \in run.items
RunCovers == run # Idle => \A l \in Leases : Billable(l, run.month) => Covered(l)

ChargesInv ==
    /\ ChargesAssumption
    /\ TxInv /\ ChargesTyped /\ RowsTell
    /\ RunTyped /\ RunCovers

(***************************************************************************)
(* Amounts are integers.                                                   *)
(***************************************************************************)
LEMMA TotalOfRows ==
    ASSUME NEW n \in Nat, NEW f \in [1 .. n -> Int]
    PROVE  Total(f) \in Int
<1>1. f \in Seq(Int)
  OBVIOUS
<1> QED BY <1>1, TotalType

LEMMA BalanceIs ==
    ASSUME TxInv, NEW l PROVE LeaseBalance(l) \in Int /\ Overdue(l) \in Int
<1>1. PICK n \in Nat : n = Len(entries) /\ DOMAIN entries = 1 .. n
  BY DEF TxInv, JournalInv, TypeOK
<1>2. ASSUME NEW i \in DOMAIN entries PROVE NetOf(entries[i].lines, {AR}, l) \in Int
  <2>1. PICK lines : lines = entries[i].lines /\ lines \in Seq(LineInputs)
    BY EntryFields DEF TxInv, JournalInv
  <2>2. PICK m \in Nat : DOMAIN lines = 1 .. m
    BY <2>1
  <2>3. \A k \in DOMAIN lines : lines[k].debit - lines[k].credit \in Int
    BY <2>1, LineFields
  <2> DEFINE f == [k \in DOMAIN lines |->
             IF lines[k].account \in {AR} /\ lines[k].ref = l
             THEN lines[k].debit - lines[k].credit ELSE 0]
  <2>4. f \in [1 .. m -> Int]
    BY <2>2, <2>3
  <2> HIDE DEF f
  <2>5. Total(f) \in Int
    BY <2>4, TotalOfRows
  <2> QED BY <2>1, <2>5 DEF NetOf, f
<1>3. NetReceivable(l) \in Int
  <2> DEFINE f == [i \in DOMAIN entries |-> NetOf(entries[i].lines, {AR}, l)]
  <2>1. f \in [1 .. n -> Int]
    BY <1>1, <1>2
  <2> HIDE DEF f
  <2>2. Total(f) \in Int
    BY <2>1, TotalOfRows
  <2> QED BY <2>2 DEF NetReceivable, f
<1>4. ASSUME NEW rows PROVE TotalOf(rows) \in Int
  <2> DEFINE f == [t \in DOMAIN transactions |->
                     IF t \in rows THEN transactions[t].amount ELSE 0]
  <2>1. PICK m \in Nat : DOMAIN transactions = 1 .. m
    BY TableRows DEF TxInv
  <2>2. \A t \in DOMAIN transactions : transactions[t].amount \in Int
    BY DEF TxInv, IsRow
  <2>3. f \in [1 .. m -> Int]
    BY <2>1, <2>2
  <2> HIDE DEF f
  <2>4. Total(f) \in Int
    BY <2>3, TotalOfRows
  <2> QED BY <2>4 DEF TotalOf, f
<1>5. TenantBalance(l) \in Int
  BY <1>4 DEF TenantBalance
<1>6. Overdue(l) \in Int
  BY <1>3, <1>4 DEF Overdue
<1> QED BY <1>3, <1>5, <1>6 DEF LeaseBalance

LEMMA FeeIs ==
    ASSUME LeaseChargesAssumption, NEW p \in PolicyInputs \cup {OwnPolicy}, NEW balance \in Int,
           NEW day \in AssessmentDays
    PROVE  LateFee(p, balance, day) \in Int
<1>1. /\ p.due \in Int /\ p.grace \in Int /\ p.flat \in Int /\ p.bps \in Int /\ p.cap \in Int
      /\ p.kind \in {"flat_fee", "percentage_of_delinquency", "daily_accrual"}
      /\ day \in Int
  BY DEF LeaseChargesAssumption
<1>2. ASSUME NEW a \in Int, NEW b \in Int PROVE a * b \in Int
  OBVIOUS
<1>3. Percentage(balance, p.bps) \in Int
  BY <1>1, <1>2 DEF Percentage
<1>4. p.flat + Percentage(balance, p.bps) * (day - p.due - p.grace) \in Int
  BY <1>1, <1>2, <1>3
<1>5. Uncapped(p, balance, day) \in Int
  BY <1>1, <1>3, <1>4 DEF Uncapped
<1> QED BY <1>1, <1>5 DEF LateFee

LEMMA ItemsAre ==
    ASSUME ChargesAssumption, ChargesTyped, NEW l \in DOMAIN leases, NEW m \in Months,
           NEW item \in Items(l, m)
    PROVE  IsItem(item) /\ item.lease = l
<1>1. CASE item = RentItem(l, m)
  <2>1. /\ item.lease = l /\ item.reference = [kind |-> "rent", key |-> l, month |-> m]
        /\ item.amounts = RentAmounts(l, m)
    BY <1>1 DEF RentItem
  <2>2. leases[l].rent \in Nat /\ leases[l].days \in Nat /\ DaysInMonth \in Nat \ {0}
    BY DEF ChargesTyped, TermRecords, ChargesAssumption, LeaseChargesAssumption
  <2>3. ASSUME NEW a \in Nat, NEW b \in Nat, NEW c \in Nat \ {0} PROVE (a * b) \div c \in Int
    <3>1. a * b \in Int
      OBVIOUS
    <3> QED BY <3>1
  <2>4. ASSUME NEW a \in Nat, NEW b \in Nat PROVE Prorated(a, b) \subseteq Int
    <3>1. PICK exact : exact = (a * b) \div DaysInMonth /\ exact \in Int
      BY <2>2, <2>3
    <3>2. {exact} \subseteq Int /\ {exact - 1} \subseteq Int
      BY <3>1
    <3> QED BY <3>1, <3>2 DEF Prorated
  <2>5. RentAmounts(l, m) \subseteq Int
    BY <2>2, <2>4 DEF RentAmounts
  <2> QED BY <2>1, <2>5 DEF IsItem, IsBill, IsOf
<1>2. ASSUME NEW c \in MonthlyCharges(l), item = RecurringItem(c, m)
      PROVE  IsItem(item) /\ item.lease = l
  <2>1. /\ item.lease = recurring[c].lease
        /\ item.reference = [kind |-> "recurring", key |-> c, month |-> m]
        /\ item.amounts = {recurring[c].input.amount}
    BY <1>2 DEF RecurringItem
  <2>2. c \in DOMAIN recurring /\ recurring[c].lease = l
    BY DEF MonthlyCharges
  <2>3. recurring[c].input.amount \in Int
    BY <2>2 DEF ChargesTyped, IsCharge, ChargesAssumption, LeaseChargesAssumption
  <2> QED BY <2>1, <2>2, <2>3 DEF IsItem, IsBill, IsOf
<1> QED BY <1>1, <1>2 DEF Items

(***************************************************************************)
(* The rows of a step.                                                     *)
(***************************************************************************)
\* Recurring charges come, and are marked as deleted.
RecurringKept ==
    \A c \in DOMAIN recurring :
        c \in DOMAIN recurring' /\ recurring'[c].lease = recurring[c].lease

LEMMA IsOfKept ==
    ASSUME RecurringKept, NEW l, NEW reference, IsOf(l, reference)
    PROVE  IsOf(l, reference)'
BY DEF RecurringKept, IsOf

LEMMA RowsKept ==
    ASSUME TxInv, RowsTell, UNCHANGED transactions, Kept, RecurringKept
    PROVE  RowsTell'
<1>1. ASSUME NEW t \in DOMAIN transactions PROVE RowTells(t)'
  <2>1. RowTells(t) /\ transactions[t].entry \in DOMAIN entries
    BY DEF RowsTell, TxInv, MirrorOf
  <2>2. entries'[transactions[t].entry].source = entries[transactions[t].entry].source
    BY <2>1 DEF Kept
  <2>3. IsOf(transactions[t].lease, transactions[t].reference)'
    <3>1. PICK l, r : l = transactions[t].lease /\ r = transactions[t].reference
      OBVIOUS
    <3>2. IsOf(l, r)'
      BY <2>1, <3>1, IsOfKept DEF RowTells
    <3> QED BY <3>1, <3>2 DEF IsOf
  <2> QED BY <2>1, <2>2, <2>3 DEF RowTells
<1>2. RowsOnce'
  BY DEF RowsTell, RowsOnce, Rival
<1> QED BY <1>1, <1>2 DEF RowsTell

LEMMA RowAdded ==
    ASSUME TxInv, RowsTell, UNCHANGED recurring, NEW source, NEW row, Adds(source, row),
           IsOf(row.lease, row.reference), row.live = TRUE,
           row.reference.kind = "late_fee" => source = "late_fee",
           \A t \in DOMAIN transactions :
              transactions[t].reference = row.reference
                => /\ IsBill(row.reference) => ~transactions[t].live
                   /\ row.reference.kind # "late_fee"
    PROVE  RowsTell'
<1>0. PICK t0 : t0 = Len(transactions) + 1
  OBVIOUS
<1>1. /\ DOMAIN transactions' = DOMAIN transactions \cup {t0} /\ t0 \notin DOMAIN transactions
      /\ transactions'[t0] = row /\ row.entry = Len(entries) + 1
      /\ \A s \in DOMAIN transactions : transactions'[s] = transactions[s]
      /\ Kept /\ entries'[Len(entries) + 1].source = source
  BY <1>0 DEF Adds
<1>2. ASSUME NEW t \in DOMAIN transactions PROVE RowTells(t)'
  <2>1. RowTells(t) /\ transactions[t].entry \in DOMAIN entries
    BY DEF RowsTell, TxInv, MirrorOf
  <2>2. entries'[transactions[t].entry].source = entries[transactions[t].entry].source
    BY <1>1, <2>1 DEF Kept
  <2> QED BY <1>1, <2>1, <2>2 DEF RowTells, IsOf
<1>3. RowTells(t0)'
  BY <1>1 DEF RowTells, IsOf
<1>4. RowsOnce'
  <2> SUFFICES ASSUME NEW s \in DOMAIN transactions', NEW t \in DOMAIN transactions',
                      Rival(s, t)'
               PROVE  s = t
    BY DEF RowsOnce
  <2>1. CASE s \in DOMAIN transactions /\ t \in DOMAIN transactions
    BY <1>1, <2>1 DEF RowsTell, RowsOnce, Rival
  <2>2. CASE s = t0 /\ t \in DOMAIN transactions
    BY <1>1, <2>2 DEF Rival
  <2>3. CASE s \in DOMAIN transactions /\ t = t0
    BY <1>1, <2>3 DEF Rival
  <2> QED BY <1>1, <2>1, <2>2, <2>3
<1> QED BY <1>1, <1>2, <1>3, <1>4 DEF RowsTell

LEMMA RowDeleted ==
    ASSUME TxInv, RowsTell, UNCHANGED recurring, NEW d \in DOMAIN transactions, Deletes(d)
    PROVE  RowsTell'
<1>1. /\ DOMAIN transactions' = DOMAIN transactions /\ Kept
      /\ \A t \in DOMAIN transactions :
            /\ transactions'[t].lease = transactions[t].lease
            /\ transactions'[t].reference = transactions[t].reference
            /\ transactions'[t].entry = transactions[t].entry
            /\ transactions'[t].live => transactions[t].live
  <2>1. /\ transactions'[d].lease = transactions[d].lease
        /\ transactions'[d].reference = transactions[d].reference
        /\ transactions'[d].entry = transactions[d].entry
        /\ transactions[d].live
    BY DEF Deletes
  <2> QED BY <2>1 DEF Deletes
<1>2. ASSUME NEW t \in DOMAIN transactions PROVE RowTells(t)'
  <2>1. RowTells(t) /\ transactions[t].entry \in DOMAIN entries
    BY DEF RowsTell, TxInv, MirrorOf
  <2>2. entries'[transactions[t].entry].source = entries[transactions[t].entry].source
    BY <1>1, <2>1 DEF Kept
  <2> QED BY <1>1, <2>1, <2>2 DEF RowTells, IsOf
<1>3. RowsOnce'
  <2> SUFFICES ASSUME NEW s \in DOMAIN transactions, NEW t \in DOMAIN transactions,
                      Rival(s, t)'
               PROVE  s = t
    BY <1>1 DEF RowsOnce
  <2>1. Rival(s, t)
    BY <1>1 DEF Rival
  <2> QED BY <2>1 DEF RowsTell, RowsOnce
<1> QED BY <1>1, <1>2, <1>3 DEF RowsTell

(***************************************************************************)
(* The run.                                                                *)
(***************************************************************************)
LEMMA IdleRun == ASSUME run' = Idle PROVE RunTyped' /\ RunCovers'
<1>1. run' = [month |-> 0, leases |-> {}, items |-> {}, made |-> 0]
  BY DEF Idle
<1> QED BY <1>1 DEF RunTyped, RunCovers, Idle

LEMMA RunGoesOn ==
    ASSUME RunCovers, run # Idle, UNCHANGED <<leases, recurring, liveRefs>>,
           run'.month = run.month,
           \A t \in DOMAIN transactions :
              t \in DOMAIN transactions' /\ transactions'[t] = transactions[t],
           \A l \in run.leases : l \in run'.leases \/ Items(l, run.month) \subseteq run'.items,
           \A item \in run.items : item \in run'.items \/ Existing(item)'
    PROVE  RunCovers'
<1>1. PICK m : m = run.month /\ m = run'.month
  OBVIOUS
<1>2. ASSUME NEW l PROVE Items(l, m)' = Items(l, m) /\ (Billable(l, m)' <=> Billable(l, m))
  <2>1. Items(l, m)' = Items(l, m)
    BY DEF Items, RentItem, RentAmounts, RecurringItem, MonthlyCharges
  <2> QED BY <2>1 DEF Billable, Known
<1>3. ASSUME NEW item, Existing(item) PROVE Existing(item)'
  BY <1>3 DEF Existing, LeaseTransactions
<1>4. ASSUME NEW l \in Leases, Billable(l, m)' PROVE Covered(l)'
  <2>1. Covered(l)
    BY <1>1, <1>2, <1>4 DEF RunCovers
  <2>2. \/ l \in run.leases
        \/ \A item \in Items(l, m) : Existing(item) \/ item \in run.items
    BY <1>1, <2>1 DEF Covered
  <2>3. \/ l \in run'.leases
        \/ \A item \in Items(l, m) : Existing(item)' \/ item \in run'.items
    BY <1>1, <1>3, <2>2
  <2>4. \/ l \in run'.leases
        \/ \A item \in Items(l, m)' : Existing(item)' \/ item \in run'.items
    BY <1>2, <2>3
  <2> QED BY <1>1, <2>4 DEF Covered
<1> QED BY <1>1, <1>4 DEF RunCovers

(***************************************************************************)
(* The requests, which come while no run is in progress.                   *)
(***************************************************************************)
LEMMA AtRest ==
    ASSUME ChargesInv, TxInv', ChargesTyped', RowsTell', run' = Idle
    PROVE  ChargesInv'
<1>1. ChargesAssumption'
  BY DEF ChargesInv, ChargesAssumption, TransactionsAssumption, LeasesAssumption,
         LeaseChargesAssumption
<1> QED BY <1>1, IdleRun DEF ChargesInv

\* Contracts and setup change, rows do not.
LEMMA Edited ==
    ASSUME ChargesInv, UNCHANGED <<entries, transactions>>, liveRefs' \subseteq Refs,
           ChargesTyped', RecurringKept, run' = Idle
    PROVE  ChargesInv' /\ UNCHANGED BookOf(entries)
<1>1. TxInv' /\ Kept /\ UNCHANGED BookOf(entries)
  BY NothingPosted DEF ChargesInv
<1>2. RowsTell'
  BY <1>1, RowsKept DEF ChargesInv
<1> QED BY <1>1, <1>2, AtRest

LEMMA SameSetup ==
    ASSUME UNCHANGED <<leases, recurring, policies>>
    PROVE  RecurringKept /\ (ChargesTyped => ChargesTyped')
BY DEF RecurringKept, ChargesTyped, IsCharge

LEMMA LeaseStep ==
    ASSUME ChargesInv, NEW l \in Leases, UNCHANGED <<recurring, policies, closed, run>>,
           run = Idle,
           \/ \E terms \in Terms : CreateLease(l, terms) \/ UpdateLease(l, terms)
           \/ \E status \in {"active", "terminated"} : UpdateLeaseStatus(l, status)
           \/ DeleteLease(l)
    PROVE  ChargesInv' /\ UNCHANGED BookOf(entries)
<1>1. /\ leases \in [DOMAIN leases -> TermRecords] /\ liveRefs \subseteq Refs /\ l \in Refs
      /\ Terms \subseteq TermRecords
  BY DEF ChargesInv, ChargesTyped, TxInv, JournalInv, TypeOK, ChargesAssumption,
         TransactionsAssumption, LeasesAssumption
<1>2. UNCHANGED <<entries, transactions>> /\ liveRefs' \subseteq Refs
  BY <1>1 DEF CreateLease, UpdateLease, UpdateLeaseStatus, DeleteLease, SoftDelete, TxVars
<1>3. leases' \in [DOMAIN leases' -> TermRecords]
  <2>1. ASSUME NEW terms \in Terms, CreateLease(l, terms)
        PROVE  leases' \in [DOMAIN leases' -> TermRecords]
    <3>1. leases' \in [DOMAIN leases \cup {l} -> TermRecords]
      BY <1>1, <2>1 DEF CreateLease
    <3> QED BY <3>1
  <2>2. ASSUME NEW terms \in Terms, UpdateLease(l, terms)
        PROVE  leases' \in [DOMAIN leases' -> TermRecords]
    <3>1. leases' \in [DOMAIN leases -> TermRecords]
      BY <1>1, <2>2 DEF UpdateLease
    <3> QED BY <3>1
  <2>3. ASSUME NEW status \in {"active", "terminated"}, UpdateLeaseStatus(l, status)
        PROVE  leases' \in [DOMAIN leases' -> TermRecords]
    <3>1. l \in DOMAIN leases /\ leases' = [leases EXCEPT ![l].status = status]
      BY <2>3 DEF UpdateLeaseStatus, Known
    <3>2. leases[l] \in TermRecords /\ status \in LeaseStatuses
      BY <1>1, <3>1 DEF LeaseStatuses
    <3>3. [leases[l] EXCEPT !.status = status] \in TermRecords
      BY <3>2 DEF TermRecords
    <3>4. leases' \in [DOMAIN leases -> TermRecords]
      BY <1>1, <3>1, <3>3
    <3> QED BY <3>4
  <2>4. CASE DeleteLease(l)
    BY <1>1, <2>4 DEF DeleteLease
  <2> QED BY <2>1, <2>2, <2>3, <2>4
<1>4. ChargesTyped' /\ RecurringKept
  BY <1>3 DEF ChargesInv, ChargesTyped, IsCharge, RecurringKept
<1> QED BY <1>2, <1>4, Edited

LEMMA ContactStep ==
    ASSUME ChargesInv, NEW c \in Refs, DeleteNamed(c), run = Idle,
           UNCHANGED <<recurring, policies, closed, run>>
    PROVE  ChargesInv' /\ UNCHANGED BookOf(entries)
<1>1. liveRefs' \subseteq Refs /\ UNCHANGED <<entries, transactions, leases>>
  BY DEF DeleteNamed, SoftDelete, ChargesInv, TxInv, JournalInv, TypeOK
<1> QED BY <1>1, SameSetup, Edited DEF ChargesInv

LEMMA SetupStep ==
    ASSUME ChargesInv, run = Idle,
           \/ \E l \in Leases, input \in RecurringInputs : AddRecurringCharge(l, input)
           \/ \E c \in DOMAIN recurring : DeleteRecurringCharge(c)
           \/ \E p \in PolicyInputs : CreatePolicy(p) \/ DeletePolicy(p)
           \/ \E input \in RecurringInputs : input.gl # NoAccount /\ CloseAccount(input.gl)
    PROVE  ChargesInv' /\ UNCHANGED BookOf(entries)
<1>1. UNCHANGED <<entries, transactions, liveRefs, leases, run>>
  BY DEF AddRecurringCharge, DeleteRecurringCharge, CreatePolicy, DeletePolicy,
         CloseAccount, TxVars
<1>2. liveRefs' \subseteq Refs
  BY <1>1 DEF ChargesInv, TxInv, JournalInv, TypeOK
<1>3. ASSUME NEW l \in Leases, NEW input \in RecurringInputs, AddRecurringCharge(l, input)
      PROVE  ChargesTyped' /\ RecurringKept
  <2>1. PICK c : c = [input |-> input, lease |-> l, live |-> TRUE]
    OBVIOUS
  <2>2. c.input = input /\ c = [input |-> c.input, lease |-> c.lease, live |-> c.live]
    BY <2>1
  <2>3. /\ recurring' = Append(recurring, c) /\ UNCHANGED <<leases, policies>>
        /\ IsTable(recurring) /\ \A k \in DOMAIN recurring : IsCharge(recurring[k])
    BY <1>3, <2>1 DEF AddRecurringCharge, ChargesInv, ChargesTyped
  <2>4. PICK n \in Nat : n = Len(recurring) /\ DOMAIN recurring = 1 .. n
    BY <2>3, TableRows
  <2>5. /\ IsTable(recurring') /\ DOMAIN recurring' = 1 .. n + 1 /\ recurring'[n + 1] = c
        /\ \A k \in 1 .. n : recurring'[k] = recurring[k]
    BY <2>3, <2>4, TableAppended
  <2>6. \A k \in 1 .. n + 1 : k \in 1 .. n \/ k = n + 1
    BY <2>4
  <2>7. ASSUME NEW k \in DOMAIN recurring' PROVE IsCharge(recurring'[k])
    BY <2>2, <2>3, <2>4, <2>5, <2>6 DEF IsCharge
  <2>8. 1 .. n \subseteq 1 .. n + 1
    BY <2>4
  <2> QED BY <1>1, <2>3, <2>4, <2>5, <2>7, <2>8
          DEF ChargesInv, ChargesTyped, IsCharge, RecurringKept
<1>4. ASSUME NEW c \in DOMAIN recurring, DeleteRecurringCharge(c)
      PROVE  ChargesTyped' /\ RecurringKept
  <2>0. IsTable(recurring) /\ \A k \in DOMAIN recurring : IsCharge(recurring[k])
    BY DEF ChargesInv, ChargesTyped
  <2>1. PICK old, input, l, live :
           /\ old = recurring[c] /\ input \in RecurringInputs
           /\ old = [input |-> input, lease |-> l, live |-> live]
    BY <2>0 DEF IsCharge
  <2>2. ASSUME NEW no
        PROVE  [[input |-> input, lease |-> l, live |-> live] EXCEPT !.live = no]
                 = [input |-> input, lease |-> l, live |-> no]
    OBVIOUS
  <2>3. PICK new : new = [input |-> input, lease |-> l, live |-> FALSE]
    OBVIOUS
  <2>4. recurring' = [recurring EXCEPT ![c] = new]
    <3>1. recurring' = [recurring EXCEPT ![c] = [old EXCEPT !.live = FALSE]]
      BY <1>4, <2>1 DEF DeleteRecurringCharge
    <3>2. [old EXCEPT !.live = FALSE] = new
      BY <2>1, <2>2, <2>3
    <3> QED BY <3>1, <3>2
  <2>5. DOMAIN recurring = 1 .. Len(recurring) /\ recurring = [k \in DOMAIN recurring |-> recurring[k]]
    BY <2>0 DEF IsTable
  <2>6. /\ IsTable(recurring') /\ DOMAIN recurring' = DOMAIN recurring
        /\ recurring'[c] = new
        /\ \A k \in DOMAIN recurring : k # c => recurring'[k] = recurring[k]
    <3>1. IsTable([recurring EXCEPT ![c] = new])
      BY <2>0, TableChanged
    <3> QED BY <2>4, <2>5, <3>1
  <2>7. new.lease = l /\ old.lease = l /\ IsCharge(new)
    BY <2>1, <2>3 DEF IsCharge
  <2>8. ASSUME NEW k \in DOMAIN recurring
        PROVE  recurring'[k].lease = recurring[k].lease /\ IsCharge(recurring'[k])
    BY <2>0, <2>1, <2>6, <2>7
  <2>9. UNCHANGED <<leases, policies>>
    BY <1>4 DEF DeleteRecurringCharge
  <2> QED BY <2>6, <2>8, <2>9 DEF ChargesInv, ChargesTyped, IsCharge, RecurringKept
<1>5. ASSUME UNCHANGED <<leases, recurring>>, policies' \subseteq PolicyInputs
      PROVE  ChargesTyped' /\ RecurringKept
  BY <1>5 DEF ChargesInv, ChargesTyped, IsCharge, RecurringKept
<1>6. ASSUME NEW p \in PolicyInputs, CreatePolicy(p) \/ DeletePolicy(p)
      PROVE  ChargesTyped' /\ RecurringKept
  BY <1>5, <1>6 DEF CreatePolicy, DeletePolicy, ChargesInv, ChargesTyped
<1>7. ASSUME NEW a, CloseAccount(a) PROVE ChargesTyped' /\ RecurringKept
  BY <1>5, <1>7 DEF CloseAccount, ChargesInv, ChargesTyped
<1>8. ChargesTyped' /\ RecurringKept
  BY <1>3, <1>4, <1>6, <1>7
<1> QED BY <1>1, <1>2, <1>8, Edited

\* Rows that bill nothing.
LEMMA OtherRow ==
    ASSUME ChargesInv, TxInv', NEW source, NEW row, Adds(source, row), row.live = TRUE,
           row.reference = NoReference, UNCHANGED <<leases, recurring, policies>>, run' = Idle
    PROVE  ChargesInv'
<1>1. row.reference.kind = "none"
  BY DEF NoReference
<1>2. RowsTell'
  <2>1. IsOf(row.lease, row.reference) /\ ~IsBill(row.reference)
    BY <1>1 DEF IsOf, IsBill
  <2> QED BY <1>1, <2>1, RowAdded DEF ChargesInv
<1> QED BY <1>2, SameSetup, AtRest DEF ChargesInv

LEMMA UseStep ==
    ASSUME ChargesInv, run = Idle, UseTransactions,
           UNCHANGED <<recurring, policies, closed, run>>
    PROVE  ChargesInv' /\ (Ledger!Next \/ UNCHANGED BookOf(entries))
<1>1. ASSUME NEW input \in Inputs, CreateFromRequest(input) PROVE ChargesInv' /\ Ledger!Next
  <2>1. PICK row : row = [type |-> input.type, category |-> input.category,
                          amount |-> Magnitude(input.amount), lease |-> input.lease,
                          reference |-> NoReference, entry |-> Len(entries) + 1,
                          live |-> TRUE]
    OBVIOUS
  <2>2. TxInv' /\ Ledger!Post /\ Adds(input.type, row)
    BY <1>1, <2>1, CreateFromRequestStep DEF ChargesInv
  <2>3. row.live = TRUE /\ row.reference = NoReference
    BY <2>1
  <2> QED BY <2>2, <2>3, OtherRow, NextIs DEF UseTransactions
<1>2. ASSUME NEW t \in DOMAIN transactions, DeleteFromRequest(t)
      PROVE  ChargesInv' /\ (Ledger!Next \/ UNCHANGED BookOf(entries))
  <2>1. TxInv' /\ Deletes(t) /\ (Ledger!Next \/ UNCHANGED BookOf(entries))
    BY <1>2, DeleteTransactionStep DEF ChargesInv
  <2>2. RowsTell'
    BY <2>1, RowDeleted DEF ChargesInv
  <2> QED BY <2>1, <2>2, SameSetup, AtRest DEF UseTransactions, ChargesInv
<1> QED BY <1>1, <1>2 DEF UseTransactions

LEMMA FeeStep ==
    ASSUME ChargesInv, run = Idle, NEW l \in Leases, NEW m \in Months,
           NEW day \in AssessmentDays, ApplyLateFee(l, m, day)
    PROVE  ChargesInv' /\ Ledger!Next
<1>1. PICK p, fee, reference :
        /\ p \in ActivePolicies
        /\ fee = LateFee(p, Overdue(l), day) /\ fee > 0
        /\ reference = [kind |-> "late_fee", key |-> l, month |-> m]
        /\ ~Assessed(reference)
        /\ PostWithRow("late_fee", Transfer(AR, Mapped["late_fee"], fee, l),
                       Row("charge", "late_fee", fee, l, reference))
  BY DEF ApplyLateFee
<1>2. p \in PolicyInputs \cup {OwnPolicy}
  BY <1>1 DEF ActivePolicies, ChargesInv, ChargesTyped
<1>3. fee \in Nat \ {0}
  <2>1. Overdue(l) \in Int
    BY BalanceIs DEF ChargesInv
  <2>2. fee \in Int
    BY <1>1, <1>2, <2>1, FeeIs DEF ChargesInv, ChargesAssumption
  <2> QED BY <1>1, <2>2
<1>4. UNCHANGED <<leases, recurring, policies, liveRefs, run>> /\ liveRefs' \subseteq Refs
  BY DEF ApplyLateFee, Others, ChargesInv, TxInv, JournalInv, TypeOK
<1>5. PICK row : row = [type |-> "charge", category |-> "late_fee", amount |-> fee,
                        lease |-> l, reference |-> reference,
                        entry |-> Len(entries) + 1, live |-> TRUE]
  OBVIOUS
<1>6. "late_fee" \in Sources /\ "charge" \in Types
  BY DEF Sources, DocumentSources, Types
<1>7. TxInv' /\ Ledger!Post /\ Adds("late_fee", row)
  BY <1>1, <1>3, <1>4, <1>5, <1>6, PostRowStep DEF ChargesInv
<1>8. row.live = TRUE /\ row.reference = reference /\ reference.kind = "late_fee"
  BY <1>1, <1>5
<1>9. ASSUME NEW t \in DOMAIN transactions PROVE transactions[t].reference # reference
  <2>1. SUFFICES ASSUME transactions[t].reference = reference PROVE FALSE
    OBVIOUS
  <2>2. PICK i : i = transactions[t].entry /\ i \in DOMAIN entries /\ entries[i].doc = t
    BY DEF ChargesInv, TxInv, MirrorOf
  <2>3. entries[i].source = "late_fee"
    BY <1>8, <2>1, <2>2 DEF ChargesInv, RowsTell, RowTells
  <2>4. t # 0
    <3>1. PICK n \in Nat : DOMAIN transactions = 1 .. n
      BY TableRows DEF ChargesInv, TxInv
    <3> QED BY <3>1
  <2> QED BY <1>1, <2>1, <2>2, <2>3, <2>4 DEF Assessed
<1>10. RowsTell'
  <2>1. IsOf(row.lease, row.reference) /\ ~IsBill(row.reference)
    BY <1>8 DEF IsOf, IsBill
  <2> QED BY <1>4, <1>7, <1>8, <1>9, <2>1, RowAdded DEF ChargesInv
<1> QED BY <1>4, <1>7, <1>10, SameSetup, AtRest, NextIs DEF ChargesInv

LEMMA ConcessionStep ==
    ASSUME ChargesInv, run = Idle, NEW l \in Leases, NEW amount \in CreditAmounts,
           NEW gl \in CreditAccounts, AddCreditConcession(l, amount, gl)
    PROVE  ChargesInv' /\ Ledger!Next
<1>1. amount \in Nat \ {0}
  <2>1. CreditAmounts \subseteq Int
    BY DEF ChargesInv, ChargesAssumption, LeaseChargesAssumption
  <2> QED BY <2>1 DEF AddCreditConcession
<1>2. UNCHANGED <<leases, recurring, policies, liveRefs, run>> /\ liveRefs' \subseteq Refs
  BY DEF AddCreditConcession, Others, ChargesInv, TxInv, JournalInv, TypeOK
<1>3. PICK row : row = [type |-> "refund", category |-> "rent", amount |-> amount,
                        lease |-> l, reference |-> NoReference,
                        entry |-> Len(entries) + 1, live |-> TRUE]
  OBVIOUS
<1>4. "credit_concession" \in Sources /\ "refund" \in Types
  BY DEF Sources, DocumentSources, Types
<1>5. TxInv' /\ Ledger!Post /\ Adds("credit_concession", row)
  BY <1>1, <1>2, <1>3, <1>4, PostRowStep DEF ChargesInv, AddCreditConcession
<1>6. row.live = TRUE /\ row.reference = NoReference
  BY <1>3
<1> QED BY <1>2, <1>5, <1>6, OtherRow, NextIs

LEMMA StartStep ==
    ASSUME ChargesInv, run = Idle, NEW m \in Months, StartRun(m)
    PROVE  ChargesInv' /\ UNCHANGED BookOf(entries)
<1>1. /\ run' = [month |-> m, leases |-> {l \in Leases : Billable(l, m)}, items |-> {},
                 made |-> 0]
      /\ UNCHANGED <<entries, transactions, leases, recurring, policies, closed, liveRefs>>
  BY DEF StartRun, Others
<1>2. /\ run'.month = m /\ run'.leases = {l \in Leases : Billable(l, m)} /\ run'.items = {}
      /\ run' = [month |-> run'.month, leases |-> run'.leases, items |-> run'.items,
                 made |-> run'.made]
  BY <1>1
<1>3. liveRefs' \subseteq Refs
  BY <1>1 DEF ChargesInv, TxInv, JournalInv, TypeOK
<1>4. TxInv' /\ Kept /\ UNCHANGED BookOf(entries)
  BY <1>1, <1>3, NothingPosted DEF ChargesInv
<1>5. ChargesTyped' /\ RecurringKept
  BY <1>1, SameSetup DEF ChargesInv
<1>6. RowsTell'
  BY <1>1, <1>4, <1>5, RowsKept DEF ChargesInv
<1>7. RunTyped'
  <2>1. run'.leases \subseteq DOMAIN leases'
    BY <1>1, <1>2 DEF Billable, Known
  <2> QED BY <1>2, <2>1 DEF RunTyped
<1>8. RunCovers'
  <2>1. ASSUME NEW l, Billable(l, m)' PROVE Billable(l, m)
    BY <1>1, <2>1 DEF Billable, Known
  <2> QED BY <1>2, <2>1 DEF RunCovers, Covered
<1>9. ChargesAssumption'
  BY DEF ChargesInv, ChargesAssumption, TransactionsAssumption, LeasesAssumption,
         LeaseChargesAssumption
<1> QED BY <1>4, <1>5, <1>6, <1>7, <1>8, <1>9 DEF ChargesInv

(***************************************************************************)
(* The steps of a run.                                                     *)
(***************************************************************************)
LEMMA SameRows ==
    ASSUME ChargesInv, UNCHANGED <<entries, transactions, Others>>
    PROVE  /\ TxInv' /\ ChargesTyped' /\ RowsTell' /\ UNCHANGED BookOf(entries)
           /\ \A item : IsItem(item) => IsItem(item)'
<1>1. UNCHANGED <<entries, transactions, leases, recurring, policies, liveRefs>>
  BY DEF Others
<1>2. liveRefs' \subseteq Refs
  BY <1>1 DEF ChargesInv, TxInv, JournalInv, TypeOK
<1>3. TxInv' /\ Kept /\ UNCHANGED BookOf(entries)
  BY <1>1, <1>2, NothingPosted DEF ChargesInv
<1>4. ChargesTyped' /\ RecurringKept
  BY <1>1, SameSetup DEF ChargesInv
<1>5. RowsTell'
  BY <1>1, <1>3, <1>4, RowsKept DEF ChargesInv
<1>6. \A item : IsItem(item) => IsItem(item)'
  BY <1>1 DEF IsItem, IsOf
<1> QED BY <1>3, <1>4, <1>5, <1>6

LEMMA SameAssumption == ChargesAssumption => ChargesAssumption'
BY DEF ChargesAssumption, TransactionsAssumption, LeasesAssumption, LeaseChargesAssumption

LEMMA NextLeaseStep ==
    ASSUME ChargesInv, run # Idle, NextLease
    PROVE  ChargesInv' /\ UNCHANGED BookOf(entries)
<1>1. PICK m, ls, is, k :
        run = [month |-> m, leases |-> ls, items |-> is, made |-> k]
  BY DEF ChargesInv, RunTyped
<1>2. PICK l \in ls : run' = [month |-> m, leases |-> ls \ {l}, items |-> Items(l, m), made |-> k]
  BY <1>1 DEF NextLease
<1>3. run.items = {} /\ UNCHANGED <<entries, transactions, Others>>
  BY DEF NextLease
<1>4. /\ TxInv' /\ ChargesTyped' /\ RowsTell' /\ UNCHANGED BookOf(entries)
      /\ \A item : IsItem(item) => IsItem(item)'
  BY <1>3, SameRows
<1>5. m \in Months /\ ls \subseteq DOMAIN leases
  BY <1>1 DEF ChargesInv, RunTyped
<1>6. RunTyped'
  <2>1. \A item \in Items(l, m) : IsItem(item)'
    BY <1>4, <1>5, ItemsAre DEF ChargesInv
  <2>2. UNCHANGED leases
    BY <1>3 DEF Others
  <2> QED BY <1>2, <1>5, <2>1, <2>2 DEF RunTyped
<1>7. RunCovers'
  <2>1. UNCHANGED <<leases, recurring, liveRefs>> /\ run'.month = run.month
    BY <1>1, <1>2, <1>3 DEF Others
  <2>2. \A x \in run.leases : x \in run'.leases \/ Items(x, run.month) \subseteq run'.items
    BY <1>1, <1>2
  <2>3. \A t \in DOMAIN transactions :
          t \in DOMAIN transactions' /\ transactions'[t] = transactions[t]
    BY <1>3
  <2> QED BY <1>3, <2>1, <2>2, <2>3, RunGoesOn DEF ChargesInv
<1> QED BY <1>4, <1>6, <1>7, SameAssumption DEF ChargesInv

LEMMA SkipItemStep ==
    ASSUME ChargesInv, run # Idle, NEW item \in run.items, SkipItem(item)
    PROVE  ChargesInv' /\ UNCHANGED BookOf(entries)
<1>1. PICK m, ls, is, k :
        run = [month |-> m, leases |-> ls, items |-> is, made |-> k]
  BY DEF ChargesInv, RunTyped
<1>2. run' = [month |-> m, leases |-> ls, items |-> is \ {item}, made |-> k]
  BY <1>1 DEF SkipItem
<1>3. Existing(item) /\ UNCHANGED <<entries, transactions, Others>>
  BY DEF SkipItem
<1>4. /\ TxInv' /\ ChargesTyped' /\ RowsTell' /\ UNCHANGED BookOf(entries)
      /\ \A x : IsItem(x) => IsItem(x)'
  BY <1>3, SameRows
<1>5. m \in Months /\ ls \subseteq DOMAIN leases /\ \A x \in is : IsItem(x)
  BY <1>1 DEF ChargesInv, RunTyped
<1>6. RunTyped'
  <2>1. UNCHANGED leases
    BY <1>3 DEF Others
  <2> QED BY <1>2, <1>4, <1>5, <2>1 DEF RunTyped
<1>7. RunCovers'
  <2>1. UNCHANGED <<leases, recurring, liveRefs>> /\ run'.month = run.month
    BY <1>1, <1>2, <1>3 DEF Others
  <2>2. \A l \in run.leases : l \in run'.leases
    BY <1>1, <1>2
  <2>3. \A t \in DOMAIN transactions :
          t \in DOMAIN transactions' /\ transactions'[t] = transactions[t]
    BY <1>3
  <2>4. Existing(item)'
    BY <1>3 DEF Existing, LeaseTransactions
  <2>5. \A x \in run.items : x \in run'.items \/ x = item
    BY <1>1, <1>2
  <2> QED BY <2>1, <2>2, <2>3, <2>4, <2>5, RunGoesOn DEF ChargesInv
<1> QED BY <1>4, <1>6, <1>7, SameAssumption DEF ChargesInv

LEMMA ChargeItemStep ==
    ASSUME ChargesInv, run # Idle, NEW item \in run.items, ChargeItem(item)
    PROVE  ChargesInv' /\ Ledger!Next
<1>1. PICK m, ls, is, k :
        run = [month |-> m, leases |-> ls, items |-> is, made |-> k]
  BY DEF ChargesInv, RunTyped
<1>2. run' = [month |-> m, leases |-> ls, items |-> is \ {item}, made |-> k + 1]
  BY <1>1 DEF ChargeItem
<1>3. /\ m \in Months /\ ls \subseteq DOMAIN leases /\ \A x \in is : IsItem(x)
      /\ IsItem(item)
  BY <1>1 DEF ChargesInv, RunTyped
<1>4. PICK amount \in item.amounts :
        CreateTransaction("charge", item.category, amount, item.lease, item.reference, item.gl)
  BY DEF ChargeItem
<1>5. UNCHANGED <<leases, recurring, policies, liveRefs>> /\ ~Existing(item)
  BY DEF ChargeItem, Others
<1>6. amount \in Int /\ "charge" \in Types /\ liveRefs' \subseteq Refs
  BY <1>3, <1>5 DEF IsItem, Types, ChargesInv, TxInv, JournalInv, TypeOK
<1>7. PICK row : row = [type |-> "charge", category |-> item.category,
                        amount |-> Magnitude(amount), lease |-> item.lease,
                        reference |-> item.reference, entry |-> Len(entries) + 1,
                        live |-> TRUE]
  OBVIOUS
<1>8. TxInv' /\ Ledger!Post /\ Adds("charge", row)
  BY <1>4, <1>6, <1>7, CreateTransactionStep DEF ChargesInv
<1>9. row.live = TRUE /\ row.lease = item.lease /\ row.reference = item.reference
  BY <1>7
<1>10. IsBill(item.reference) /\ item.reference.kind # "late_fee" /\ IsOf(item.lease, item.reference)
  BY <1>3 DEF IsItem, IsBill
<1>11. ASSUME NEW t \in DOMAIN transactions, transactions[t].reference = item.reference
       PROVE  ~transactions[t].live
  <2>1. IsOf(transactions[t].lease, item.reference)
    BY <1>11 DEF ChargesInv, RowsTell, RowTells
  <2>2. transactions[t].lease = item.lease
    BY <1>10, <2>1 DEF IsOf, IsBill
  <2> QED BY <1>5, <1>11, <2>2 DEF Existing, LeaseTransactions
<1>12. RowsTell'
  <2>1. IsOf(row.lease, row.reference) /\ row.reference.kind # "late_fee"
    BY <1>9, <1>10
  <2>2. \A t \in DOMAIN transactions :
          transactions[t].reference = row.reference
            => /\ IsBill(row.reference) => ~transactions[t].live
               /\ row.reference.kind # "late_fee"
    BY <1>9, <1>11, <2>1
  <2>3. TxInv /\ RowsTell /\ UNCHANGED recurring
    BY <1>5 DEF ChargesInv
  <2> QED BY <1>8, <1>9, <2>1, <2>2, <2>3, RowAdded
<1>13. ChargesTyped'
  BY <1>5, SameSetup DEF ChargesInv
<1>14. RunTyped'
  <2>1. \A x : IsItem(x) => IsItem(x)'
    BY <1>5 DEF IsItem, IsOf
  <2> QED BY <1>2, <1>3, <1>5, <2>1 DEF RunTyped
<1>15. RunCovers'
  <2>1. run'.month = run.month /\ \A l \in run.leases : l \in run'.leases
    BY <1>1, <1>2
  <2>2. PICK t0 : /\ t0 \in DOMAIN transactions' /\ transactions'[t0] = row
                  /\ \A t \in DOMAIN transactions :
                        t \in DOMAIN transactions' /\ transactions'[t] = transactions[t]
    BY <1>8 DEF Adds
  <2>3. Existing(item)'
    BY <1>9, <2>2 DEF Existing, LeaseTransactions
  <2>4. \A x \in run.items : x \in run'.items \/ x = item
    BY <1>1, <1>2
  <2> QED BY <1>5, <2>1, <2>2, <2>3, <2>4, RunGoesOn DEF ChargesInv
<1> QED BY <1>8, <1>12, <1>13, <1>14, <1>15, SameAssumption, NextIs DEF ChargesInv

LEMMA ChargesStep ==
    ChargesInv /\ [ChargesNext]_ChargeVars => ChargesInv' /\ [Ledger!Next]_(BookOf(entries))
<1> SUFFICES ASSUME ChargesInv, [ChargesNext]_ChargeVars
             PROVE  ChargesInv' /\ (Ledger!Next \/ UNCHANGED BookOf(entries))
  OBVIOUS
<1>1. ASSUME run = Idle, ServeRequest
      PROVE  ChargesInv' /\ (Ledger!Next \/ UNCHANGED BookOf(entries))
  <2>1. ASSUME ManageLeases, UNCHANGED <<recurring, policies, closed, run>>
        PROVE  ChargesInv' /\ UNCHANGED BookOf(entries)
    BY <1>1, <2>1, LeaseStep DEF ManageLeases
  <2>2. ASSUME ManageContacts, UNCHANGED <<recurring, policies, closed, run>>
        PROVE  ChargesInv' /\ UNCHANGED BookOf(entries)
    BY <1>1, <2>2, ContactStep DEF ManageContacts
  <2> QED BY <1>1, <2>1, <2>2, UseStep, SetupStep, StartStep, FeeStep, ConcessionStep
          DEF ServeRequest
<1>2. ASSUME run # Idle, RunStep \/ Crash
      PROVE  ChargesInv' /\ (Ledger!Next \/ UNCHANGED BookOf(entries))
  <2>1. ASSUME run' = Idle, UNCHANGED <<entries, transactions, Others>>
        PROVE  ChargesInv' /\ UNCHANGED BookOf(entries)
    BY <2>1, SameRows, AtRest
  <2>2. ASSUME NEW item, AbortRun(item)
        PROVE  ChargesInv' /\ UNCHANGED BookOf(entries)
    BY <2>1, <2>2 DEF AbortRun
  <2>3. ASSUME EndRun \/ Crash
        PROVE  ChargesInv' /\ UNCHANGED BookOf(entries)
    BY <2>1, <2>3 DEF EndRun, Crash
  <2> QED BY <1>2, <2>2, <2>3, NextLeaseStep, SkipItemStep, ChargeItemStep DEF RunStep
<1>3. ASSUME UNCHANGED ChargeVars PROVE ChargesInv' /\ UNCHANGED BookOf(entries)
  <2>1. UNCHANGED <<entries, transactions, Others>> /\ UNCHANGED <<leases, recurring, liveRefs, run>>
    BY <1>3 DEF ChargeVars, Others
  <2>2. TxInv' /\ ChargesTyped' /\ RowsTell' /\ UNCHANGED BookOf(entries)
    BY <2>1, SameRows
  <2>3. RunTyped'
    BY <2>1 DEF ChargesInv, RunTyped, IsItem, IsOf
  <2>4. RunCovers'
    <3>1. CASE run = Idle
      BY <2>1, <3>1, IdleRun
    <3>2. CASE run # Idle
      BY <2>1, <3>2, RunGoesOn DEF ChargesInv
    <3> QED BY <3>1, <3>2
  <2> QED BY <2>2, <2>3, <2>4, SameAssumption DEF ChargesInv
<1> QED BY <1>1, <1>2, <1>3 DEF ChargesNext

LEMMA ChargesInitial == ChargesAssumption /\ ChargesInit => ChargesInv
<1> SUFFICES ASSUME ChargesAssumption, ChargesInit PROVE ChargesInv
  OBVIOUS
<1>1. /\ entries = <<>> /\ transactions = <<>> /\ liveRefs = Refs \ Leases
      /\ leases = [l \in {} |-> <<>>] /\ recurring = <<>> /\ policies = {} /\ run = Idle
  BY DEF ChargesInit, LeasesInit
<1>2. IsTable(<<>>)
  <2>1. <<>> \in Seq({})
    OBVIOUS
  <2> QED BY <2>1, TableOf
<1>3. TxInv
  <2>1. TypeOK
    BY <1>1 DEF TypeOK
  <2>2. JournalInv
    BY <1>1, <2>1 DEF JournalInv, NumbersConsecutive, EntriesValid, ReversalsPaired
  <2>3. Len(entries) <= MaxEntries
    BY <1>1, JournalAssumption
  <2> QED BY <1>1, <1>2, <2>2, <2>3 DEF TxInv, ChargesAssumption
<1>4. ChargesTyped /\ RowsTell
  BY <1>1, <1>2 DEF ChargesTyped, RowsTell, RowsOnce
<1>5. RunTyped /\ RunCovers
  BY <1>1 DEF RunTyped, RunCovers, Idle
<1> QED BY <1>3, <1>4, <1>5 DEF ChargesInv

LEMMA ChargesInvariant == ChargesAssumption /\ ChargesSpec => []ChargesInv
BY ChargesInitial, ChargesStep, PTL DEF ChargesSpec

LEMMA ChargesImply ==
    ChargesInv => ChargesTypeOK /\ BilledOnce /\ FeeOncePerMonth
<1> SUFFICES ASSUME ChargesInv PROVE ChargesTypeOK /\ BilledOnce /\ FeeOncePerMonth
  OBVIOUS
<1>1. ChargesTypeOK
  <2>1. TypeOK /\ \A t \in DOMAIN transactions : MirrorOf(t) /\ IsRow(transactions[t])
    BY DEF ChargesInv, TxInv, JournalInv
  <2>2. TxTypeOK
    BY <2>1 DEF TxTypeOK, MirrorOf, IsRow
  <2> QED BY <2>2 DEF ChargesTypeOK, ChargesInv, ChargesTyped, RunTyped
<1>2. RowsOnce
  BY DEF ChargesInv, RowsTell
<1>3. ASSUME NEW reference \in References, reference.kind \in {"rent", "recurring"}
      PROVE  Cardinality({t \in RowsFor(reference) : transactions[t].live}) <= 1
  <2> DEFINE S == {t \in RowsFor(reference) : transactions[t].live}
  <2>1. \A s, t \in S : s = t
    BY <1>2, <1>3 DEF RowsFor, RowsOnce, Rival, IsBill
  <2> HIDE DEF S
  <2>2. Cardinality(S) <= 1
    BY <2>1, AtMostOne
  <2> QED BY <2>2 DEF S
<1>4. ASSUME NEW reference \in References, reference.kind = "late_fee"
      PROVE  Cardinality(RowsFor(reference)) <= 1
  <2>1. \A s, t \in RowsFor(reference) : s = t
    BY <1>2, <1>4 DEF RowsFor, RowsOnce, Rival
  <2> QED BY <2>1, AtMostOne
<1> QED BY <1>1, <1>3, <1>4 DEF BilledOnce, FeeOncePerMonth

\* However often a month is billed, wherever a run is cut off and whatever is
\* deleted in between, one charge at most is in force for the rent and for each
\* recurring charge of a lease and month, and one late fee was ever posted.
THEOREM OnceCharged == ChargesAssumption /\ ChargesSpec => []ChargesAgree
<1>1. ChargesInv => ChargesAgree
  BY ChargesImply DEF ChargedOnce, ChargesAgree
<1> QED BY <1>1, ChargesInvariant, PTL

\* A run that gets to its end leaves no lease of its month unbilled.
THEOREM RunsBill == ChargesAssumption /\ ChargesSpec => RunBillsEveryLease
<1>1. ChargesInv =>
        [run # Idle /\ EndRun =>
           \A l \in Leases : Billable(l, run.month) =>
               \A item \in Items(l, run.month) : Existing(item)]_ChargeVars
  <2> SUFFICES ASSUME ChargesInv, run # Idle, EndRun, NEW l \in Leases,
                      Billable(l, run.month), NEW item \in Items(l, run.month)
               PROVE  Existing(item)
    OBVIOUS
  <2>1. run.items = {} /\ run.leases = {}
    BY DEF EndRun
  <2>2. Covered(l)
    BY DEF ChargesInv, RunCovers
  <2> QED BY <2>1, <2>2 DEF Covered
<1> QED BY <1>1, ChargesInvariant, PTL DEF RunBillsEveryLease

\* With runs, fees and concessions among the requests, contracts stay of their
\* type, rows and entries mirror each other and the journal implements
\* AppendOnlyLedger.
THEOREM ChargesRefine ==
    ChargesAssumption /\ ChargesSpec =>
       IsAppendOnlyLedger /\ []ChargesTypeOK /\ []RowsMirrorEntries
<1>1. ChargesInit => Ledger!Init
  BY DEF ChargesInit, LeasesInit, Ledger!Init
<1>2. ChargesInv /\ [ChargesNext]_ChargeVars
        => [Ledger!Next]_([i \in DOMAIN entries |->
                     [effect |-> [a \in Accounts |-> Effect(entries[i].lines, a)],
                      undoneBy |-> entries[i].reversedBy]])
  BY ChargesStep DEF BookOf
<1>3. ChargesInv => RowsMirrorEntries
  BY TxImplies DEF ChargesInv
<1> QED BY <1>1, <1>2, <1>3, ChargesInvariant, ChargesImply, PTL
        DEF ChargesSpec, IsAppendOnlyLedger, Ledger!Spec

(***************************************************************************)
(* The deposits of tenants.                                                *)
(***************************************************************************)
\* What a row says was returned to the lease l.
ReturnOf(row, l) ==
    IF row.live /\ row.lease = l /\ row.type = "deposit_return" THEN row.amount ELSE 0

\* No more is held and returned than was recorded, and no more returned where
\* an edit made the deposit negative.
Within(l) ==
    /\ Returned(l) <= recorded[l]
    /\ l \in DOMAIN leases => Held(l) + Returned(l) <= recorded[l]

\* Users leave returns of deposits to the leases.
ReturnsByLease == \A input \in Inputs : input.type # "deposit_return"

TrustAssumption ==
    TransactionsAssumption /\ LeasesAssumption /\ LeaseTrustAssumption /\ ReturnsByLease

TrustInv ==
    /\ TrustAssumption
    /\ TxInv
    /\ leases \in [DOMAIN leases -> TermRecords] /\ DOMAIN leases \subseteq Leases
    /\ recorded \in [Leases -> Nat]
    /\ \A l \in Leases : Within(l)

\* Rows that are added after n rows, of which the last counts.
LEMMA TotalPadded ==
    ASSUME NEW n \in Nat, NEW m \in Nat, n < m, NEW f \in [1 .. n -> Int],
           NEW g \in [1 .. m -> Int], \A i \in 1 .. n : g[i] = f[i],
           \A i \in (n + 1) .. (m - 1) : g[i] = 0
    PROVE  Total(f) \in Int /\ Total(g) = Total(f) + g[m]
<1>1. f \in Seq(Int) /\ Len(f) = n /\ g \in Seq(Int) /\ Len(g) = m
  OBVIOUS
<1>2. PICK r : IsRunning(r, f, n)
  BY <1>1, RunningExists
<1> DEFINE s == [i \in 0 .. m |-> IF i <= n THEN r[i] ELSE IF i < m THEN r[n] ELSE r[n] + g[m]]
<1>3. r \in [0 .. n -> Int] /\ r[0] = 0 /\ \A i \in 1 .. n : r[i] = r[i - 1] + f[i]
  BY <1>2 DEF IsRunning
<1>4. r[n] \in Int /\ g[m] \in Int
  BY <1>3
<1>5. s \in [0 .. m -> Int]
  BY <1>3, <1>4
<1>6. s[0] = 0
  BY <1>3
<1>7. ASSUME NEW i \in 1 .. m PROVE s[i] = s[i - 1] + g[i]
  <2>1. CASE i <= n
    BY <1>3, <2>1
  <2>2. CASE i > n /\ i < m
    <3>1. s[i] = r[n] /\ s[i - 1] = r[n]
      BY <2>2, SMTT(30)
    <3>2. g[i] = 0
      <4>1. i \in (n + 1) .. (m - 1)
        BY <2>2
      <4> QED BY <4>1
    <3> QED BY <1>4, <3>1, <3>2
  <2>3. CASE i = m
    <3>1. s[i] = r[n] + g[m] /\ s[i - 1] = r[n]
      BY <2>3
    <3> QED BY <1>4, <2>3, <3>1
  <2> QED BY <2>1, <2>2, <2>3
<1>8. IsRunning(s, g, m)
  BY <1>5, <1>6, <1>7 DEF IsRunning
<1>9. s[m] = r[n] + g[m]
  OBVIOUS
<1> HIDE DEF s
<1>10. Total(g) = s[m] /\ Total(f) = r[n]
  BY <1>1, <1>2, <1>8, TotalIsRunning
<1> QED BY <1>4, <1>9, <1>10

\* The sum over the rows that were returned to l.
LEMMA ReturnedIs ==
    \A l : Returned(l) = Total([t \in DOMAIN transactions |-> ReturnOf(transactions[t], l)])
<1> SUFFICES ASSUME NEW l
             PROVE  Returned(l)
                      = Total([t \in DOMAIN transactions |-> ReturnOf(transactions[t], l)])
  OBVIOUS
<1> DEFINE rows == OfTypes(LeaseTransactions(l), {"deposit_return"})
<1>1. ASSUME NEW t \in DOMAIN transactions
      PROVE  ReturnOf(transactions[t], l) = (IF t \in rows THEN transactions[t].amount ELSE 0)
  BY DEF ReturnOf, OfTypes, LeaseTransactions
<1>2. [t \in DOMAIN transactions |-> ReturnOf(transactions[t], l)]
        = [t \in DOMAIN transactions |-> IF t \in rows THEN transactions[t].amount ELSE 0]
  <2> HIDE DEF rows
  <2> QED BY <1>1
<1> QED BY <1>2 DEF Returned, TotalOf

LEMMA ReturnedNext ==
    \A l : Returned(l)' = Total([t \in DOMAIN transactions' |-> ReturnOf(transactions'[t], l)])
<1>1. (\A l : Returned(l)
               = Total([t \in DOMAIN transactions |-> ReturnOf(transactions[t], l)]))'
  BY ReturnedIs, PTL
<1> QED BY <1>1

LEMMA ReturnIs == ASSUME NEW row, IsRow(row), NEW l PROVE ReturnOf(row, l) \in Nat
BY DEF ReturnOf, IsRow

\* Rows that are added, of which the last may be a return.
LEMMA ReturnedMore ==
    ASSUME TxInv, TxInv', NEW l, NEW n \in Nat, NEW m \in Nat, n < m,
           DOMAIN transactions = 1 .. n, DOMAIN transactions' = 1 .. m,
           \A t \in 1 .. n : transactions'[t] = transactions[t],
           \A t \in (n + 1) .. (m - 1) : transactions'[t].type # "deposit_return"
    PROVE  Returned(l) \in Int /\ Returned(l)' = Returned(l) + ReturnOf(transactions'[m], l)
<1> DEFINE f == [t \in DOMAIN transactions |-> ReturnOf(transactions[t], l)]
           g == [t \in DOMAIN transactions' |-> ReturnOf(transactions'[t], l)]
<1>1. /\ \A t \in DOMAIN transactions : ReturnOf(transactions[t], l) \in Int
      /\ \A t \in DOMAIN transactions' : ReturnOf(transactions'[t], l) \in Int
  BY ReturnIs DEF TxInv
<1>2. f \in [1 .. n -> Int] /\ Returned(l) = Total(f)
  BY <1>1, ReturnedIs
<1>3. g \in [1 .. m -> Int] /\ Returned(l)' = Total(g)
  BY <1>1, ReturnedNext
<1>4. \A t \in 1 .. n : g[t] = f[t]
  OBVIOUS
<1>5. \A t \in (n + 1) .. (m - 1) : g[t] = 0
  BY DEF ReturnOf
<1>6. g[m] = ReturnOf(transactions'[m], l)
  OBVIOUS
<1> HIDE DEF f, g
<1>7. /\ f \in [1 .. n -> Int] /\ g \in [1 .. m -> Int]
      /\ \A t \in 1 .. n : g[t] = f[t]
      /\ \A t \in (n + 1) .. (m - 1) : g[t] = 0
  BY <1>2, <1>3, <1>4, <1>5
<1>8. Total(f) \in Int /\ Total(g) = Total(f) + g[m]
  BY <1>7, TotalPadded
<1> QED BY <1>2, <1>3, <1>6, <1>8

\* A row that is deleted returns nothing.
LEMMA ReturnedLess ==
    ASSUME TxInv, TxInv', NEW l, NEW d \in DOMAIN transactions, Deletes(d)
    PROVE  Returned(l) \in Int /\ Returned(l)' \in Int /\ Returned(l)' <= Returned(l)
<1> DEFINE f == [t \in DOMAIN transactions |-> ReturnOf(transactions[t], l)]
           g == [t \in DOMAIN transactions' |-> ReturnOf(transactions'[t], l)]
<1>0. PICK n \in Nat : DOMAIN transactions = 1 .. n /\ DOMAIN transactions' = 1 .. n
  BY TableRows DEF TxInv, Deletes
<1>1. /\ \A t \in DOMAIN transactions : ReturnOf(transactions[t], l) \in Nat
      /\ \A t \in DOMAIN transactions' : ReturnOf(transactions'[t], l) \in Nat
  BY ReturnIs DEF TxInv
<1>2. f \in [1 .. n -> Nat] /\ Returned(l) = Total(f)
  BY <1>0, <1>1, ReturnedIs
<1>3. g \in [1 .. n -> Nat] /\ Returned(l)' = Total(g)
  BY <1>0, <1>1, ReturnedNext
<1>4. ReturnOf(transactions'[d], l) = 0
  <2>1. transactions'[d].live = FALSE
    BY DEF Deletes
  <2> QED BY <2>1 DEF ReturnOf
<1>5. g = [f EXCEPT ![d] = 0]
  <2>1. \A t \in 1 .. n : g[t] = IF t = d THEN 0 ELSE f[t]
    BY <1>0, <1>4 DEF Deletes
  <2> HIDE DEF f, g
  <2> QED BY <1>0, <1>2, <1>3, <2>1
<1> HIDE DEF f, g
<1>6. PICK x \in Nat, y \in Int : x = f[d] /\ y = 0 - x
  BY <1>0, <1>2
<1>7. /\ f \in Seq(Int) /\ Len(f) = n /\ g \in Seq(Int) /\ Len(g) = Len(f)
      /\ d \in 1 .. Len(f) /\ \A i \in 1 .. Len(f) : i # d => g[i] = f[i]
  BY <1>0, <1>2, <1>3, <1>5
<1>8. g[d] = f[d] + y
  BY <1>0, <1>2, <1>5, <1>6
<1>9. Total(f) \in Int /\ Total(g) = Total(f) + y
  BY <1>7, <1>8, TotalUpdate, TotalType
<1> QED BY <1>2, <1>3, <1>6, <1>9

\* One row that is added.
LEMMA ReturnedOne ==
    ASSUME TxInv, TxInv', NEW source, NEW row, Adds(source, row), NEW l
    PROVE  /\ Returned(l) \in Int /\ Returned(l)' = Returned(l) + ReturnOf(row, l)
           /\ ReturnOf(row, l) \in Nat
<1>1. PICK n \in Nat, m \in Nat :
        /\ n = Len(transactions) /\ m = n + 1 /\ n < m /\ DOMAIN transactions = 1 .. n
        /\ (n + 1) .. (m - 1) = {}
  <2>1. PICK n \in Nat : n = Len(transactions) /\ DOMAIN transactions = 1 .. n
    BY TableRows DEF TxInv
  <2> QED BY <2>1
<1>2. /\ DOMAIN transactions' = 1 .. n \cup {m} /\ transactions'[m] = row
      /\ \A t \in 1 .. n : transactions'[t] = transactions[t]
  BY <1>1 DEF Adds
<1>3. 1 .. n \cup {m} = 1 .. m
  BY <1>1
<1>4. IsRow(row)
  BY <1>2 DEF TxInv
<1>5. Returned(l) \in Int /\ Returned(l)' = Returned(l) + ReturnOf(transactions'[m], l)
  BY <1>1, <1>2, <1>3, ReturnedMore
<1> QED BY <1>2, <1>4, <1>5, ReturnIs

LEMMA ReturnedSame ==
    ASSUME TxInv, UNCHANGED transactions, NEW l
    PROVE  Returned(l) \in Int /\ Returned(l)' = Returned(l)
<1>1. Returned(l)' = Returned(l)
  BY ReturnedIs, ReturnedNext
<1>2. PICK f : f = [t \in DOMAIN transactions |-> ReturnOf(transactions[t], l)]
  OBVIOUS
<1>3. PICK n \in Nat : DOMAIN transactions = 1 .. n
  BY TableRows DEF TxInv
<1>4. f \in [1 .. n -> Int]
  BY <1>2, <1>3, ReturnIs DEF TxInv
<1>5. Returned(l) = Total(f)
  BY <1>2, ReturnedIs
<1> QED BY <1>1, <1>4, <1>5, TotalOfRows

LEMMA MaxOfTwo ==
    ASSUME NEW a \in Int, NEW b \in Int
    PROVE  Max({a, b}) = IF a >= b THEN a ELSE b
<1> DEFINE m == IF a >= b THEN a ELSE b
<1>1. m \in {a, b} /\ \A y \in {a, b} : m >= y
  OBVIOUS
<1>2. \A x \in {a, b} : (\A y \in {a, b} : x >= y) => x = m
  OBVIOUS
<1> QED BY <1>1, <1>2 DEF Max

LEMMA TrustFacts ==
    ASSUME TrustInv
    PROVE  /\ \A l \in DOMAIN leases : leases[l] \in TermRecords /\ Held(l) \in Int
           /\ \A l \in Leases : recorded[l] \in Nat
           /\ liveRefs \subseteq Refs /\ Leases \subseteq Refs /\ Terms \subseteq TermRecords
BY DEF TrustInv, TxInv, JournalInv, TypeOK, Held, TermRecords, TrustAssumption,
       TransactionsAssumption, LeasesAssumption

LEMMA SameTrustAssumption == TrustAssumption => TrustAssumption'
BY DEF TrustAssumption, TransactionsAssumption, LeasesAssumption, LeaseTrustAssumption,
       ReturnsByLease

\* The deposit of l becomes h and c cents of it were returned.
LEMMA DepositChanged ==
    ASSUME TrustInv, TxInv', NEW l \in DOMAIN leases, NEW h \in Int, NEW c \in Int,
           leases' \in [DOMAIN leases -> TermRecords], leases'[l].held = h,
           \A x \in DOMAIN leases : x # l => leases'[x] = leases[x],
           \A x \in Leases :
              Returned(x) \in Int /\ Returned(x)' = Returned(x) + IF x = l THEN c ELSE 0,
           UNCHANGED recorded, c >= 0, h + c <= Held(l) \/ (c = 0 /\ h <= 0),
           c <= Held(l) \/ c = 0
    PROVE  TrustInv'
<1>1. ASSUME NEW x \in Leases PROVE Within(x)'
  <2>1. Within(x) /\ recorded[x] \in Nat /\ recorded'[x] = recorded[x]
    BY TrustFacts DEF TrustInv
  <2>2. PICK r, rr, k : r = Returned(x) /\ rr = Returned(x)' /\ k = recorded[x]
    OBVIOUS
  <2>3. CASE x = l
    <3>1. PICK old : old = Held(l) /\ old \in Int
      BY TrustFacts
    <3>2. r \in Int /\ rr = r + c /\ r <= k /\ old + r <= k /\ k \in Nat
      BY <2>1, <2>2, <2>3, <3>1 DEF Within
    <3>3. rr <= k /\ h + rr <= k
      BY <3>1, <3>2
    <3> QED BY <2>1, <2>2, <2>3, <3>3 DEF Within, Held
  <2>4. CASE x # l
    <3>1. rr = r
      BY <2>2, <2>4
    <3> QED BY <2>1, <2>2, <2>4, <3>1 DEF Within, Held
  <2> QED BY <2>3, <2>4
<1>2. DOMAIN leases' = DOMAIN leases
  OBVIOUS
<1> QED BY <1>1, <1>2, SameTrustAssumption DEF TrustInv

\* Contracts stay, and no more is returned.
LEMMA NothingReturned ==
    ASSUME TrustInv, TxInv', UNCHANGED <<leases, recorded>>,
           \A x \in Leases :
              Returned(x) \in Int /\ Returned(x)' \in Int /\ Returned(x)' <= Returned(x)
    PROVE  TrustInv'
<1>1. ASSUME NEW x \in Leases PROVE Within(x)'
  <2>1. PICK r, rr, k : r = Returned(x) /\ rr = Returned(x)' /\ k = recorded[x]
    OBVIOUS
  <2>2. k \in Nat /\ r \in Int /\ rr \in Int /\ rr <= r /\ r <= k
    BY <2>1, TrustFacts DEF TrustInv, Within
  <2>3. rr <= k
    BY <2>2
  <2>4. ASSUME x \in DOMAIN leases PROVE Held(x) + rr <= k
    <3>1. PICK h \in Int : h = Held(x)
      BY <2>4, TrustFacts
    <3>2. h + r <= k
      BY <2>1, <2>4, <3>1 DEF TrustInv, Within
    <3> QED BY <2>2, <3>1, <3>2
  <2> QED BY <2>1, <2>3, <2>4 DEF Within, Held
<1> QED BY <1>1, SameTrustAssumption DEF TrustInv

LEMMA EnterStep ==
    ASSUME TrustInv, NEW l \in Leases, NEW terms \in Terms,
           CreateLease(l, terms) \/ UpdateLease(l, terms),
           recorded' =
             [recorded EXCEPT ![l] =
                @ + Max({0, terms.held - (IF l \in DOMAIN leases THEN Held(l) ELSE 0)})]
    PROVE  TrustInv'
<1>1. /\ leases \in [DOMAIN leases -> TermRecords] /\ DOMAIN leases \subseteq Leases
      /\ liveRefs \subseteq Refs /\ l \in Refs /\ terms \in TermRecords /\ terms.held \in Int
      /\ recorded \in [Leases -> Nat]
  BY TrustFacts DEF TrustInv, TermRecords
<1>2. /\ UNCHANGED <<entries, transactions>> /\ liveRefs' \subseteq Refs
      /\ leases' \in [DOMAIN leases \cup {l} -> TermRecords] /\ leases'[l] = terms
      /\ \A x \in DOMAIN leases : x # l => leases'[x] = leases[x]
  <2>1. CASE CreateLease(l, terms)
    BY <1>1, <2>1 DEF CreateLease
  <2>2. CASE UpdateLease(l, terms)
    BY <1>1, <2>2 DEF UpdateLease, Known, TxVars
  <2> QED BY <2>1, <2>2
<1>3. TxInv'
  BY <1>2, NothingPosted DEF TrustInv
<1>4. PICK old \in Int : old = IF l \in DOMAIN leases THEN Held(l) ELSE 0
  BY TrustFacts
<1>5. PICK more \in Nat : more = Max({0, terms.held - old}) /\ more >= terms.held - old
  <2>1. PICK d \in Int : d = terms.held - old
    BY <1>1, <1>4
  <2>2. Max({0, d}) = IF 0 >= d THEN 0 ELSE d
    BY MaxOfTwo
  <2> QED BY <2>1, <2>2
<1>6. recorded' = [recorded EXCEPT ![l] = recorded[l] + more]
  BY <1>4, <1>5
<1>7. recorded' \in [Leases -> Nat]
  BY <1>1, <1>6
<1>8. ASSUME NEW x \in Leases PROVE Within(x)'
  <2>1. Returned(x) \in Int /\ Returned(x)' = Returned(x)
    BY <1>2, ReturnedSame DEF TrustInv
  <2>2. PICK r, k : r = Returned(x) /\ k = recorded[x]
    OBVIOUS
  <2>3. Within(x) /\ r <= k /\ k \in Nat /\ r \in Int
    BY <1>1, <2>1, <2>2 DEF TrustInv, Within
  <2>4. CASE x # l
    <3>1. recorded'[x] = k
      BY <1>1, <1>6, <2>2, <2>4
    <3> QED BY <1>2, <2>1, <2>2, <2>3, <2>4, <3>1 DEF Within, Held
  <2>5. CASE x = l
    <3>1. recorded'[x] = k + more
      BY <1>1, <1>6, <2>2, <2>5
    <3>2. old + r <= k
      <4>1. CASE l \in DOMAIN leases
        BY <1>4, <2>2, <2>3, <2>5, <4>1 DEF Within
      <4>2. CASE l \notin DOMAIN leases
        BY <1>4, <2>3, <4>2
      <4> QED BY <4>1, <4>2
    <3>3. r <= k + more /\ terms.held + r <= k + more
      BY <1>1, <1>5, <2>3, <3>2
    <3> QED BY <1>2, <2>1, <2>2, <2>5, <3>1, <3>3 DEF Within, Held
  <2> QED BY <2>4, <2>5
<1>9. leases' \in [DOMAIN leases' -> TermRecords] /\ DOMAIN leases' \subseteq Leases
  BY <1>1, <1>2
<1> QED BY <1>3, <1>7, <1>8, <1>9, SameTrustAssumption DEF TrustInv

LEMMA RefundStep ==
    ASSUME TrustInv, NEW l \in Leases, NEW amount \in RefundAmounts, RefundDeposit(l, amount)
    PROVE  TrustInv' /\ Ledger!Post
<1>1. /\ l \in DOMAIN leases /\ amount \in Nat \ {0} /\ amount <= Held(l) /\ Held(l) \in Int
      /\ leases \in [DOMAIN leases -> TermRecords] /\ liveRefs' \subseteq Refs
      /\ leases' = [leases EXCEPT ![l].held = Held(l) - amount] /\ UNCHANGED recorded
  BY TrustFacts DEF RefundDeposit, Known, TrustInv, TrustAssumption, LeaseTrustAssumption, Held
<1>2. PICK reference : reference = [kind |-> "deposit_refund", key |-> l, month |-> 0]
  OBVIOUS
<1>3. PICK row : row = [type |-> "deposit_return", category |-> "security_deposit",
                        amount |-> amount, lease |-> l, reference |-> reference,
                        entry |-> Len(entries) + 1, live |-> TRUE]
  OBVIOUS
<1>4. "deposit_refund" \in Sources /\ "deposit_return" \in Types
  BY DEF Sources, DocumentSources, Types
<1>5. TxInv' /\ Ledger!Post /\ Adds("deposit_refund", row)
  BY <1>1, <1>2, <1>3, <1>4, PostRowStep DEF TrustInv, RefundDeposit, RefundRow
<1>6. ASSUME NEW x \in Leases
      PROVE  Returned(x) \in Int /\ Returned(x)' = Returned(x) + IF x = l THEN amount ELSE 0
  <2>1. ReturnOf(row, x) = IF x = l THEN amount ELSE 0
    BY <1>3 DEF ReturnOf
  <2> QED BY <1>5, <2>1, ReturnedOne DEF TrustInv
<1>7. PICK h \in Int : h = Held(l) - amount
  BY <1>1
<1>8. /\ leases' \in [DOMAIN leases -> TermRecords] /\ leases'[l].held = h
      /\ \A x \in DOMAIN leases : x # l => leases'[x] = leases[x]
  <2>1. [leases[l] EXCEPT !.held = h] \in TermRecords
        /\ [leases[l] EXCEPT !.held = h].held = h
    BY <1>1, <1>7 DEF TermRecords
  <2>2. leases' = [leases EXCEPT ![l] = [leases[l] EXCEPT !.held = h]]
    BY <1>1, <1>7
  <2> QED BY <1>1, <2>1, <2>2
<1>9. PICK c \in Int : c = amount
  BY <1>1
<1>10. c >= 0 /\ (h + c <= Held(l) \/ (c = 0 /\ h <= 0)) /\ (c <= Held(l) \/ c = 0)
  BY <1>1, <1>7, <1>9
<1>11. \A x \in Leases :
          Returned(x) \in Int /\ Returned(x)' = Returned(x) + IF x = l THEN c ELSE 0
  BY <1>6, <1>9
<1>12. /\ leases' \in [DOMAIN leases -> TermRecords] /\ l \in DOMAIN leases
       /\ UNCHANGED recorded
  BY <1>1, <1>8
<1> QED BY <1>5, <1>8, <1>10, <1>11, <1>12, DepositChanged

LEMMA OverpaymentStep ==
    ASSUME TrustInv, NEW l \in Leases, NEW amount \in RefundAmounts,
           ReturnOverpayment(l, amount)
    PROVE  TrustInv' /\ Ledger!Post
<1>1. /\ amount \in Nat \ {0} /\ liveRefs' \subseteq Refs /\ UNCHANGED <<leases, recorded>>
  BY TrustFacts DEF ReturnOverpayment, TrustInv, TrustAssumption, LeaseTrustAssumption
<1>2. PICK reference : reference = [kind |-> "deposit_refund", key |-> l, month |-> 0]
  OBVIOUS
<1>3. PICK row : row = [type |-> "refund", category |-> "rent", amount |-> amount,
                        lease |-> l, reference |-> reference,
                        entry |-> Len(entries) + 1, live |-> TRUE]
  OBVIOUS
<1>4. "refund" \in Sources /\ "refund" \in Types
  BY DEF Sources, DocumentSources, Types
<1>5. TxInv' /\ Ledger!Post /\ Adds("refund", row)
  BY <1>1, <1>2, <1>3, <1>4, PostRowStep DEF TrustInv, ReturnOverpayment, RefundRow
<1>6. ASSUME NEW x \in Leases
      PROVE  Returned(x) \in Int /\ Returned(x)' \in Int /\ Returned(x)' <= Returned(x)
  <2>1. ReturnOf(row, x) = 0
    BY <1>3 DEF ReturnOf
  <2> QED BY <1>5, <2>1, ReturnedOne DEF TrustInv
<1> QED BY <1>1, <1>5, <1>6, NothingReturned

LEMMA TrustUseStep ==
    ASSUME TrustInv, UseTransactions, UNCHANGED recorded
    PROVE  TrustInv'
<1>1. ASSUME NEW input \in Inputs, CreateFromRequest(input) PROVE TrustInv'
  <2>1. PICK row : row = [type |-> input.type, category |-> input.category,
                          amount |-> Magnitude(input.amount), lease |-> input.lease,
                          reference |-> NoReference, entry |-> Len(entries) + 1,
                          live |-> TRUE]
    OBVIOUS
  <2>2. TxInv' /\ Adds(input.type, row)
    BY <1>1, <2>1, CreateFromRequestStep DEF TrustInv
  <2>3. \A x : ReturnOf(row, x) = 0
    BY <2>1 DEF ReturnOf, TrustInv, TrustAssumption, ReturnsByLease
  <2>4. ASSUME NEW x \in Leases
        PROVE  Returned(x) \in Int /\ Returned(x)' \in Int /\ Returned(x)' <= Returned(x)
    BY <2>2, <2>3, ReturnedOne DEF TrustInv
  <2> QED BY <2>2, <2>4, NothingReturned DEF UseTransactions
<1>2. ASSUME NEW t \in DOMAIN transactions, DeleteFromRequest(t) PROVE TrustInv'
  <2>1. TxInv' /\ Deletes(t)
    BY <1>2, DeleteTransactionStep DEF TrustInv
  <2>2. ASSUME NEW x \in Leases
        PROVE  Returned(x) \in Int /\ Returned(x)' \in Int /\ Returned(x)' <= Returned(x)
    BY <2>1, ReturnedLess DEF TrustInv
  <2> QED BY <2>1, <2>2, NothingReturned DEF UseTransactions
<1> QED BY <1>1, <1>2 DEF UseTransactions

Deduction(amount) == [type |-> "deposit_deduction", category |-> "repairs", amount |-> amount]
Refund(amount) == [type |-> "deposit_return", category |-> "security_deposit", amount |-> amount]
DispositionRecords ==
    [type : {"deposit_deduction", "deposit_return"},
     category : {"repairs", "security_deposit"}, amount : Int]

\* The last transaction of a disposition may return what is held, and the
\* others deduct.
LEMMA DispositionIs ==
    ASSUME TrustInv, NEW l \in DOMAIN leases, NEW deductions \in DeductionLists,
           NEW inputs, inputs = DispositionInputs(l, deductions)
    PROVE  /\ inputs \in Seq(DispositionRecords)
           /\ \A k \in 1 .. Len(inputs) - 1 : inputs[k].type = "deposit_deduction"
           /\ \A k \in 1 .. Len(inputs) :
                 inputs[k].type = "deposit_return" => inputs[k].amount <= Held(l)
<1>1. PICK d \in Nat : deductions \in [1 .. d -> Int]
  <2>1. deductions \in Seq(Int)
    BY DEF TrustInv, TrustAssumption, LeaseTrustAssumption
  <2> QED BY <2>1
<1>2. \A k \in 1 .. d : Magnitude(deductions[k]) \in Nat
  BY <1>1 DEF Magnitude
<1>3. Deducted(deductions) \in Nat
  <2> DEFINE f == [k \in DOMAIN deductions |-> Magnitude(deductions[k])]
  <2>1. f \in [1 .. d -> Nat]
    BY <1>1, <1>2
  <2> HIDE DEF f
  <2>2. f \in Seq(Nat)
    BY <2>1
  <2>3. Total(f) \in Nat
    BY <2>2, TotalOfNaturals
  <2> QED BY <2>3 DEF Deducted, f
<1>4. PICK h \in Int : h = Held(l)
  BY TrustFacts
<1>5. PICK x \in Int : x = FinalRefund(l, deductions) /\ (x > 0 => x <= h)
  <2>1. PICK balance \in Int : balance = LeaseBalance(l)
    BY BalanceIs DEF TrustInv
  <2>2. PICK unpaid \in Nat : unpaid = Unpaid(l)
    <3>1. Max({0, balance}) = IF 0 >= balance THEN 0 ELSE balance
      BY MaxOfTwo
    <3> QED BY <2>1, <3>1 DEF Unpaid
  <2>3. PICK deducted \in Nat, rest \in Int :
           deducted = Deducted(deductions) /\ rest = h - unpaid - deducted
    BY <1>3
  <2>4. Max({0, rest}) = IF 0 >= rest THEN 0 ELSE rest
    BY MaxOfTwo
  <2>5. FinalRefund(l, deductions) = Max({0, rest})
    BY <1>4, <2>2, <2>3 DEF FinalRefund
  <2> QED BY <2>3, <2>4, <2>5
<1>6. PICK a : a = [k \in DOMAIN deductions |-> Deduction(Magnitude(deductions[k]))]
  OBVIOUS
<1>7. PICK b : b = IF x > 0 THEN << Refund(x) >> ELSE << >>
  OBVIOUS
<1>8. inputs = a \o b
  BY <1>5, <1>6, <1>7 DEF DispositionInputs, Deduction, Refund
<1>9. /\ a \in Seq(DispositionRecords) /\ Len(a) = d
      /\ \A k \in 1 .. d : a[k].type = "deposit_deduction"
  <2>1. \A k \in 1 .. d :
           /\ Deduction(Magnitude(deductions[k])) \in DispositionRecords
           /\ Deduction(Magnitude(deductions[k])).type = "deposit_deduction"
    BY <1>2 DEF Deduction, DispositionRecords
  <2>2. a \in [1 .. d -> DispositionRecords] /\ \A k \in 1 .. d : a[k].type = "deposit_deduction"
    BY <1>1, <1>6, <2>1
  <2> QED BY <2>2
<1>10. /\ b \in Seq(DispositionRecords) /\ Len(b) \in {0, 1}
       /\ Len(b) = 1 => b[1].amount <= h
  <2>1. Refund(x) \in DispositionRecords /\ Refund(x).amount = x
    BY <1>5 DEF Refund, DispositionRecords
  <2>2. CASE x > 0
    <3>1. b = << Refund(x) >>
      BY <1>7, <2>2
    <3> QED BY <1>5, <2>1, <2>2, <3>1
  <2>3. CASE ~(x > 0)
    <3>1. b = << >>
      BY <1>7, <2>3
    <3> QED BY <3>1
  <2> QED BY <2>2, <2>3
<1> HIDE DEF DispositionRecords
<1>11. PICK m \in Nat : m = Len(b) /\ m \in {0, 1}
  BY <1>10
<1>12. /\ inputs \in Seq(DispositionRecords) /\ Len(inputs) = d + m
       /\ \A j \in 1 .. d + m : inputs[j] = IF j <= d THEN a[j] ELSE b[j - d]
  <2>1. PICK S : S = DispositionRecords
    OBVIOUS
  <2>2. a \in Seq(S) /\ b \in Seq(S)
    BY <1>9, <1>10, <2>1
  <2>3. /\ a \o b \in Seq(S) /\ Len(a \o b) = Len(a) + Len(b)
        /\ \A j \in 1 .. Len(a) + Len(b) :
              (a \o b)[j] = IF j <= Len(a) THEN a[j] ELSE b[j - Len(a)]
    BY <2>2, Joined
  <2>4. Len(a) = d /\ Len(b) = m
    BY <1>9, <1>11
  <2> QED BY <1>8, <2>1, <2>3, <2>4
<1>13. ASSUME NEW k \in 1 .. d + m
       PROVE  /\ k <= d + m - 1 => k <= d
              /\ k > d => m = 1 /\ k - d = 1
  BY <1>11
<1>14. ASSUME NEW k \in 1 .. d + m, k <= d + m - 1
       PROVE  inputs[k].type = "deposit_deduction"
  <2>1. k <= d /\ k \in 1 .. d
    BY <1>13, <1>14
  <2>2. inputs[k] = a[k]
    BY <1>12, <2>1
  <2> QED BY <1>9, <2>1, <2>2
<1>15. ASSUME NEW k \in 1 .. d + m, inputs[k].type = "deposit_return"
       PROVE  inputs[k].amount <= Held(l)
  <2>1. k > d
    BY <1>9, <1>12, <1>15
  <2>2. inputs[k] = b[1] /\ m = 1
    <3>1. m = 1 /\ k - d = 1
      BY <1>13, <2>1
    <3>2. inputs[k] = b[k - d]
      BY <1>12, <2>1
    <3> QED BY <3>1, <3>2
  <2>3. b[1].amount <= h
    <3>1. Len(b) = 1
      BY <1>11, <2>2
    <3>2. Len(b) = 1 => b[1].amount <= h
      BY <1>10
    <3> QED BY <3>1, <3>2
  <2> QED BY <1>4, <2>2, <2>3
<1>16. Len(inputs) = d + m /\ inputs \in Seq(DispositionRecords)
  BY <1>12
<1>17. \A k \in 1 .. Len(inputs) - 1 : inputs[k].type = "deposit_deduction"
  <2>1. ASSUME NEW k \in 1 .. (d + m) - 1 PROVE inputs[k].type = "deposit_deduction"
    <3>1. k \in 1 .. d + m /\ k <= d + m - 1
      BY <2>1
    <3> QED BY <1>14, <3>1
  <2> QED BY <1>16, <2>1
<1>18. \A k \in 1 .. Len(inputs) :
          inputs[k].type = "deposit_return" => inputs[k].amount <= Held(l)
  BY <1>15, <1>16
<1> QED BY <1>16, <1>17, <1>18

\* The entry of the transaction k of a disposition.
LEMMA DispositionEntry ==
    ASSUME TxInv, NEW l \in Leases, NEW input \in DispositionRecords, NEW k \in Nat,
           input.amount > 0, NEW e, e = EntryOf(input, k, l), Valid(e.lines)
    PROVE  /\ e \in Entries /\ e.number = Len(entries) + k /\ e.source = input.type
           /\ e.doc = Len(transactions) + k /\ Valid(e.lines)
           /\ Debits(e.lines) = input.amount /\ e.reversedBy = 0
           /\ e.lines = Transfer(DebitAccount(input.type, input.category),
                                 CreditAccount(input.type, input.category, NoAccount),
                                 input.amount, l)
<1>1. /\ input.type \in Types /\ input.type \in Sources /\ input.amount \in Nat
      /\ l \in Refs \cup {NoRef}
  BY DEF DispositionRecords, Types, Sources, DocumentSources, TxInv, TransactionsAssumption
<1>2. PICK n \in Nat : n = Len(entries) /\ NextNumber = n + 1
  BY NextNumberIs DEF TxInv, JournalInv, TypeOK
<1>3. PICK t \in Nat : t = Len(transactions)
  BY TableRows DEF TxInv
<1>4. PICK lines :
         lines = Transfer(DebitAccount(input.type, input.category),
                          CreditAccount(input.type, input.category, NoAccount),
                          input.amount, l)
  OBVIOUS
<1>5. lines \in Seq(LineInputs) /\ Debits(lines) = input.amount
  BY <1>1, <1>4, AccountsAre, TransferIs DEF TxInv
<1>6. e = [number |-> n + k, source |-> input.type, doc |-> t + k, lines |-> lines,
           reversedBy |-> 0]
  <2>1. NextNumber + k - 1 = n + k
    BY <1>2
  <2>2. e = [[number |-> NextNumber, source |-> input.type, doc |-> t + k, lines |-> lines,
              reversedBy |-> 0] EXCEPT !.number = NextNumber + k - 1]
    BY <1>3, <1>4 DEF EntryOf, NewEntry
  <2> QED BY <2>1, <2>2
<1>7. Valid(lines) /\ lines \in Seq(Lines)
  <2>1. e.lines = lines
    BY <1>6
  <2>2. Valid(lines)
    BY <2>1
  <2> QED BY <1>5, <2>2, ValidLines
<1>8. e \in Entries
  <2>1. n + k \in Nat /\ t + k \in Nat
    BY <1>2, <1>3
  <2> QED BY <1>1, <1>6, <1>7, <2>1 DEF Entries
<1> QED BY <1>2, <1>3, <1>4, <1>5, <1>6, <1>7, <1>8

\* The entry of one transaction of a disposition.
Pays(e, input, l) ==
    /\ e.source = input.type /\ e.reversedBy = 0
    /\ e.lines = Transfer(DebitAccount(input.type, input.category),
                          CreditAccount(input.type, input.category, NoAccount),
                          input.amount, l)

\* What a disposition makes of the two tables.
LEMMA DispositionPosted ==
    ASSUME TxInv, NEW l \in Leases, NEW inputs \in Seq(DispositionRecords),
           PostDisposition(l, inputs), UNCHANGED liveRefs
    PROVE  /\ TxInv' /\ Kept
           /\ DOMAIN transactions = 1 .. Len(transactions)
           /\ DOMAIN transactions' = 1 .. Len(transactions) + Len(inputs)
           /\ \A t \in 1 .. Len(transactions) : transactions'[t] = transactions[t]
           /\ \A k \in 1 .. Len(inputs) :
                 transactions'[Len(transactions) + k]
                   = [type |-> inputs[k].type, category |-> inputs[k].category,
                      amount |-> inputs[k].amount, lease |-> l, reference |-> NoReference,
                      entry |-> Len(entries) + k, live |-> TRUE]
           /\ DOMAIN entries' = 1 .. Len(entries) + Len(inputs)
           /\ \A i \in 1 .. Len(entries) : entries'[i] = entries[i]
           /\ \A k \in 1 .. Len(inputs) : Pays(entries'[Len(entries) + k], inputs[k], l)
<1>1. PICK n \in Nat, t0 \in Nat, q \in Nat :
         /\ n = Len(entries) /\ t0 = Len(transactions) /\ q = Len(inputs)
         /\ DOMAIN entries = 1 .. n /\ DOMAIN transactions = 1 .. t0
         /\ DOMAIN inputs = 1 .. q /\ entries \in Seq(Entries) /\ IsTable(transactions)
  BY TableRows DEF TxInv, JournalInv, TypeOK
<1>2. PICK es : es = [k \in DOMAIN inputs |-> EntryOf(inputs[k], k, l)]
  OBVIOUS
<1>3. PICK rs : rs = [k \in DOMAIN inputs |->
            [Row(inputs[k].type, inputs[k].category, inputs[k].amount, l, NoReference)
             EXCEPT !.entry = Len(entries) + k]]
  OBVIOUS
<1>4. /\ n + q <= MaxEntries
      /\ \A k \in 1 .. q : inputs[k].amount > 0 /\ MayPost(es[k].lines, FALSE)
      /\ entries' = entries \o es /\ transactions' = transactions \o rs
  BY <1>1, <1>2, <1>3 DEF PostDisposition
<1>5. ASSUME NEW k \in 1 .. q
      PROVE  /\ es[k] \in Entries /\ es[k].number = n + k /\ es[k].source = inputs[k].type
             /\ es[k].doc = t0 + k /\ Valid(es[k].lines)
             /\ Debits(es[k].lines) = inputs[k].amount /\ es[k].reversedBy = 0
             /\ Pays(es[k], inputs[k], l)
  <2>1. PICK input, e : input = inputs[k] /\ e = es[k]
    OBVIOUS
  <2>2. e = EntryOf(input, k, l) /\ input \in DispositionRecords /\ k \in Nat
    BY <1>1, <1>2, <2>1
  <2>3. input.amount > 0
    BY <1>4, <2>1
  <2>4. Valid(e.lines)
    <3>1. MayPost(e.lines, FALSE)
      BY <1>4, <2>1, Zenon
    <3>2. liveRefs \subseteq Refs
      BY DEF TxInv, JournalInv, TypeOK
    <3> QED BY <3>1, <3>2, MayPostIsValid
  <2>5. /\ e \in Entries /\ e.number = Len(entries) + k /\ e.source = input.type
        /\ e.doc = Len(transactions) + k /\ Valid(e.lines)
        /\ Debits(e.lines) = input.amount /\ e.reversedBy = 0
        /\ Pays(e, input, l)
    BY <2>2, <2>3, <2>4, DispositionEntry DEF Pays
  <2> QED BY <1>1, <2>1, <2>5
<1>6. ASSUME NEW k \in 1 .. q
      PROVE  /\ rs[k] = [type |-> inputs[k].type, category |-> inputs[k].category,
                         amount |-> inputs[k].amount, lease |-> l,
                         reference |-> NoReference, entry |-> n + k, live |-> TRUE]
             /\ IsRow(rs[k]) /\ rs[k].amount = inputs[k].amount /\ rs[k].entry = n + k
             /\ rs[k].live = TRUE
  <2>1. PICK ty, ca, am : ty = inputs[k].type /\ ca = inputs[k].category /\ am = inputs[k].amount
    OBVIOUS
  <2>2. ASSUME NEW en, NEW no, NEW yes
        PROVE  [[type |-> ty, category |-> ca, amount |-> am, lease |-> l,
                 reference |-> NoReference, entry |-> en, live |-> yes] EXCEPT !.entry = no]
                  = [type |-> ty, category |-> ca, amount |-> am, lease |-> l,
                     reference |-> NoReference, entry |-> no, live |-> yes]
    OBVIOUS
  <2>3. rs[k] = [[type |-> ty, category |-> ca, amount |-> am, lease |-> l,
                 reference |-> NoReference, entry |-> n + 1, live |-> TRUE]
                 EXCEPT !.entry = n + k]
    BY <1>1, <1>3, <2>1 DEF Row
  <2>4. rs[k] = [type |-> ty, category |-> ca, amount |-> am, lease |-> l,
                 reference |-> NoReference, entry |-> n + k, live |-> TRUE]
    BY <2>2, <2>3
  <2>5. ty \in Types /\ am \in Nat \ {0}
    <3>1. inputs[k] \in DispositionRecords
      BY <1>1
    <3>2. am > 0
      BY <1>4, <2>1
    <3> QED BY <2>1, <3>1, <3>2 DEF DispositionRecords, Types
  <2> QED BY <2>1, <2>4, <2>5 DEF IsRow
<1>7. /\ entries' \in Seq(Entries) /\ Len(entries') = n + q
      /\ \A i \in 1 .. n : entries'[i] = entries[i]
      /\ \A k \in 1 .. q : entries'[n + k] = es[k]
  <2>1. es \in Seq(Entries) /\ Len(es) = q
    BY <1>1, <1>2, <1>5
  <2>2. /\ entries' \in Seq(Entries) /\ Len(entries') = n + q
        /\ \A j \in 1 .. n + q : entries'[j] = IF j <= n THEN entries[j] ELSE es[j - n]
    <3>1. entries \in Seq(Entries) /\ Len(entries) = n
      BY <1>1
    <3>2. PICK both : both = entries \o es
      OBVIOUS
    <3>3. /\ both \in Seq(Entries) /\ Len(both) = Len(entries) + Len(es)
          /\ \A j \in 1 .. Len(entries) + Len(es) :
                both[j] = IF j <= Len(entries) THEN entries[j] ELSE es[j - Len(entries)]
      BY <2>1, <3>1, <3>2, Joined
    <3>4. entries' = both
      BY <1>4, <3>2
    <3> QED BY <2>1, <3>1, <3>3, <3>4
  <2>3. ASSUME NEW k \in 1 .. q
        PROVE  n + k \in 1 .. n + q /\ ~(n + k <= n) /\ n + k - n = k
    OBVIOUS
  <2>4. ASSUME NEW i \in 1 .. n PROVE i \in 1 .. n + q /\ i <= n
    OBVIOUS
  <2> QED BY <2>2, <2>3, <2>4
<1>8. /\ IsTable(transactions') /\ DOMAIN transactions' = 1 .. t0 + q
      /\ \A t \in 1 .. t0 : transactions'[t] = transactions[t]
      /\ \A k \in 1 .. q : transactions'[t0 + k] = rs[k]
  <2>1. PICK S : S = {rs[k] : k \in 1 .. q}
    OBVIOUS
  <2>2. rs \in [1 .. q -> S]
    BY <1>1, <1>3, <2>1
  <2>3. IsTable(rs) /\ Len(rs) = q
    BY <2>2, TableFrom
  <2>4. /\ IsTable(transactions') /\ Len(transactions') = t0 + q
        /\ \A j \in 1 .. t0 + q :
              transactions'[j] = IF j <= t0 THEN transactions[j] ELSE rs[j - t0]
    BY <1>1, <1>4, <2>3, TableJoined
  <2>5. ASSUME NEW k \in 1 .. q
        PROVE  t0 + k \in 1 .. t0 + q /\ ~(t0 + k <= t0) /\ t0 + k - t0 = k
    OBVIOUS
  <2>6. ASSUME NEW i \in 1 .. t0 PROVE i \in 1 .. t0 + q /\ i <= t0
    OBVIOUS
  <2> QED BY <2>4, <2>5, <2>6, TableRows
<1>9. ASSUME NEW b \in Nat, NEW j \in 1 .. b + q, j \notin 1 .. b
      PROVE  \E k \in 1 .. q : j = b + k
  <2>1. j - b \in 1 .. q /\ j = b + (j - b)
    BY <1>9
  <2> QED BY <2>1
<1>10. ASSUME NEW k \in 1 .. q
       PROVE  /\ n + k \in 1 .. n + q /\ t0 + k \in 1 .. t0 + q /\ t0 + k # 0
              /\ inputs[k].type # "reversal"
  <2>1. inputs[k] \in DispositionRecords
    BY <1>1
  <2> QED BY <2>1 DEF DispositionRecords
<1>11. DOMAIN entries' = 1 .. n + q /\ 1 .. n \subseteq 1 .. n + q /\ 1 .. t0 \subseteq 1 .. t0 + q
  BY <1>7
<1>12. JournalInv'
  <2>1. PICK m \in Nat : m = n + q /\ n <= m
    OBVIOUS
  <2>2. ASSUME NEW i \in (n + 1) .. m
        PROVE  /\ entries'[i].number = i /\ Valid(entries'[i].lines)
               /\ entries'[i].reversedBy = 0 /\ ~IsReversal(i)'
    <3>1. PICK k \in 1 .. q : i = n + k
      <4>1. i - n \in 1 .. q /\ i = n + (i - n)
        BY <2>1
      <4> QED BY <4>1
    <3>2. es[k].number = i /\ Valid(es[k].lines) /\ es[k].reversedBy = 0
      BY <1>5, <3>1
    <3>3. entries'[i] = es[k] /\ es[k].source # "reversal"
      BY <1>5, <1>7, <1>10, <3>1
    <3> QED BY <3>2, <3>3 DEF IsReversal
  <2>3. liveRefs' \subseteq Refs /\ JournalInv
    BY DEF TxInv, JournalInv, TypeOK
  <2> QED BY <1>1, <1>7, <2>1, <2>2, <2>3, AddedPreserve
<1>13. Kept
  <2>1. Len(entries') <= MaxEntries
    BY <1>4, <1>7
  <2> QED BY <1>1, <1>7, <1>11, <2>1 DEF Kept
<1>14. ASSUME NEW t \in DOMAIN transactions' PROVE MirrorOf(t)' /\ IsRow(transactions'[t])
  <2>1. CASE t \in 1 .. t0
    <3>1. MirrorOf(t) /\ IsRow(transactions[t]) /\ transactions'[t] = transactions[t]
      BY <1>1, <1>8, <2>1 DEF TxInv
    <3> QED BY <1>13, <3>1 DEF MirrorOf, Kept
  <2>2. CASE t \notin 1 .. t0
    <3>1. PICK k \in 1 .. q : t = t0 + k
      BY <1>8, <1>9, <2>2
    <3>2. PICK i : i = n + k
      OBVIOUS
    <3>3. /\ transactions'[t] = rs[k] /\ transactions'[t].entry = i
          /\ transactions'[t].amount = inputs[k].amount /\ transactions'[t].live = TRUE
          /\ IsRow(transactions'[t])
      BY <1>6, <1>8, <3>1, <3>2
    <3>4. /\ i \in DOMAIN entries' /\ entries'[i].doc = t /\ entries'[i].source # "reversal"
          /\ Debits(entries'[i].lines) = inputs[k].amount
      BY <1>5, <1>7, <1>10, <1>11, <3>1, <3>2
    <3> QED BY <3>3, <3>4 DEF MirrorOf
  <2> QED BY <2>1, <2>2
<1>15. ASSUME NEW i \in DOMAIN entries' PROVE EntryOfRow(i)'
  <2>1. CASE i \in 1 .. n
    <3>1. EntryOfRow(i) /\ entries'[i] = entries[i]
      BY <1>1, <1>7, <2>1 DEF TxInv
    <3> QED BY <1>1, <1>8, <1>11, <3>1 DEF EntryOfRow
  <2>2. CASE i \notin 1 .. n
    <3>1. PICK k \in 1 .. q : i = n + k
      BY <1>9, <1>11, <2>2
    <3>2. entries'[i].doc = t0 + k /\ transactions'[t0 + k].entry = i
      BY <1>5, <1>6, <1>7, <1>8, <3>1
    <3> QED BY <1>8, <1>10, <3>1, <3>2 DEF EntryOfRow
  <2> QED BY <2>1, <2>2
<1>16. TxInv'
  BY <1>8, <1>12, <1>13, <1>14, <1>15 DEF TxInv, TransactionsAssumption, Kept
<1>17. \A k \in 1 .. q :
         transactions'[t0 + k]
           = [type |-> inputs[k].type, category |-> inputs[k].category,
              amount |-> inputs[k].amount, lease |-> l, reference |-> NoReference,
              entry |-> n + k, live |-> TRUE]
  BY <1>6, <1>8, Zenon
<1>18. ASSUME NEW k \in 1 .. q PROVE Pays(entries'[n + k], inputs[k], l)
  BY <1>5, <1>7
<1>19. DOMAIN entries' = 1 .. n + q /\ \A i \in 1 .. n : entries'[i] = entries[i]
  BY <1>7, <1>11
<1> QED BY <1>1, <1>8, <1>13, <1>16, <1>17, <1>18, <1>19

LEMMA DispositionStep ==
    ASSUME TrustInv, NEW l \in Leases, NEW deductions \in DeductionLists,
           ProcessDepositDisposition(l, deductions)
    PROVE  TrustInv'
<1>1. PICK inputs : inputs = DispositionInputs(l, deductions)
  OBVIOUS
<1>2. /\ l \in DOMAIN leases /\ PostDisposition(l, inputs) /\ UNCHANGED <<liveRefs, recorded>>
      /\ leases' = [leases EXCEPT ![l].held = 0, ![l].status = "terminated"]
      /\ leases \in [DOMAIN leases -> TermRecords]
  BY <1>1 DEF ProcessDepositDisposition, Known, TrustInv
<1>3. /\ inputs \in Seq(DispositionRecords)
      /\ \A k \in 1 .. Len(inputs) - 1 : inputs[k].type = "deposit_deduction"
      /\ \A k \in 1 .. Len(inputs) :
            inputs[k].type = "deposit_return" => inputs[k].amount <= Held(l)
  BY <1>1, <1>2, DispositionIs
<1>4. PICK n \in Nat, q \in Nat, m \in Nat :
         n = Len(transactions) /\ q = Len(inputs) /\ m = n + q
  <2>1. Len(transactions) \in Nat /\ Len(inputs) \in Nat
    BY <1>3, TableRows DEF TxInv, TrustInv
  <2> QED BY <2>1
<1>5. /\ TxInv' /\ DOMAIN transactions = 1 .. n /\ DOMAIN transactions' = 1 .. m
      /\ \A t \in 1 .. n : transactions'[t] = transactions[t]
      /\ \A k \in 1 .. q :
            /\ transactions'[n + k].type = inputs[k].type
            /\ transactions'[n + k].amount = inputs[k].amount
            /\ transactions'[n + k].lease = l /\ transactions'[n + k].live = TRUE
  <2>1. TxInv /\ UNCHANGED liveRefs
    BY <1>2 DEF TrustInv
  <2>2. /\ TxInv'
        /\ DOMAIN transactions = 1 .. Len(transactions)
        /\ DOMAIN transactions' = 1 .. Len(transactions) + Len(inputs)
        /\ \A t \in 1 .. Len(transactions) : transactions'[t] = transactions[t]
        /\ \A k \in 1 .. Len(inputs) :
              transactions'[Len(transactions) + k]
                = [type |-> inputs[k].type, category |-> inputs[k].category,
                   amount |-> inputs[k].amount, lease |-> l, reference |-> NoReference,
                   entry |-> Len(entries) + k, live |-> TRUE]
    BY <1>2, <1>3, <2>1, DispositionPosted
  <2>3. ASSUME NEW k \in 1 .. q
        PROVE  LET row == transactions'[n + k]
               IN  /\ row.type = inputs[k].type /\ row.amount = inputs[k].amount
                   /\ row.lease = l /\ row.live = TRUE
    <3>1. transactions'[n + k]
            = [type |-> inputs[k].type, category |-> inputs[k].category,
               amount |-> inputs[k].amount, lease |-> l, reference |-> NoReference,
               entry |-> Len(entries) + k, live |-> TRUE]
      BY <1>4, <2>2
    <3> QED BY <3>1
  <2>4. /\ DOMAIN transactions = 1 .. n /\ DOMAIN transactions' = 1 .. m
        /\ \A t \in 1 .. n : transactions'[t] = transactions[t]
    BY <1>4, <2>2
  <2> QED BY <2>2, <2>3, <2>4
<1>6. PICK c \in Int :
         /\ c = (IF q > 0 /\ inputs[q].type = "deposit_return" THEN inputs[q].amount ELSE 0)
         /\ c >= 0 /\ (c <= Held(l) \/ c = 0)
  <2>1. CASE q > 0 /\ inputs[q].type = "deposit_return"
    <3>1. q \in 1 .. q
      BY <1>4, <2>1
    <3>2. inputs[q] \in DispositionRecords
      BY <1>3, <1>4, <3>1
    <3>3. inputs[q].amount \in Int
      BY <3>2 DEF DispositionRecords
    <3>4. inputs[q].amount <= Held(l)
      BY <1>3, <1>4, <2>1, <3>1
    <3>5. IsRow(transactions'[n + q])
      <4>1. n + q \in 1 .. m
        BY <1>4, <3>1
      <4> QED BY <1>5, <4>1 DEF TxInv
    <3>6. inputs[q].amount >= 0
      <4>1. transactions'[n + q].amount \in Nat
        BY <3>5 DEF IsRow
      <4>2. transactions'[n + q].amount = inputs[q].amount
        BY <1>5, <3>1
      <4> QED BY <4>1, <4>2
    <3> QED BY <2>1, <3>3, <3>4, <3>6
  <2>2. CASE ~(q > 0 /\ inputs[q].type = "deposit_return")
    BY <2>2
  <2> QED BY <2>1, <2>2
<1>7. ASSUME NEW x \in Leases
      PROVE  Returned(x) \in Int /\ Returned(x)' = Returned(x) + IF x = l THEN c ELSE 0
  <2>0. TxInv /\ TxInv'
    BY <1>5 DEF TrustInv
  <2>1. CASE q = 0
    <3>1. m = n /\ c = 0
      BY <1>4, <1>6, <2>1
    <3>2. transactions' = transactions
      BY <1>5, <2>0, <3>1 DEF TxInv, IsTable
    <3>3. Returned(x) \in Int /\ Returned(x)' = Returned(x)
      BY <2>0, <3>2, ReturnedSame
    <3> QED BY <3>1, <3>3
  <2>2. CASE q # 0
    <3>1. n < m /\ q \in 1 .. q /\ m = n + q /\ q > 0
      BY <1>4, <2>2
    <3>2. ASSUME NEW t \in (n + 1) .. (m - 1)
          PROVE  transactions'[t].type # "deposit_return"
      <4>1. PICK k \in 1 .. q - 1 : t = n + k /\ k \in 1 .. q
        <5>1. t - n \in 1 .. q - 1 /\ t = n + (t - n) /\ t - n \in 1 .. q
          BY <1>4
        <5> QED BY <5>1
      <4>2. transactions'[t].type = inputs[k].type /\ inputs[k].type = "deposit_deduction"
        BY <1>3, <1>4, <1>5, <4>1
      <4> QED BY <4>2
    <3>3. /\ Returned(x) \in Int
          /\ Returned(x)' = Returned(x) + ReturnOf(transactions'[m], x)
      BY <1>5, <2>0, <3>1, <3>2, ReturnedMore
    <3>4. /\ transactions'[m].type = inputs[q].type /\ transactions'[m].lease = l
          /\ transactions'[m].amount = inputs[q].amount /\ transactions'[m].live = TRUE
      BY <1>5, <3>1
    <3>5. ReturnOf(transactions'[m], x) = IF x = l THEN c ELSE 0
      BY <1>6, <3>1, <3>4 DEF ReturnOf
    <3> QED BY <3>3, <3>5
  <2> QED BY <2>1, <2>2
<1>8. /\ leases' \in [DOMAIN leases -> TermRecords] /\ leases'[l].held = 0
      /\ \A x \in DOMAIN leases : x # l => leases'[x] = leases[x]
  <2>1. PICK old : old = leases[l] /\ old \in TermRecords
    BY <1>2
  <2>2. PICK new : new = [old EXCEPT !.held = 0, !.status = "terminated"]
    OBVIOUS
  <2>3. new \in TermRecords /\ new.held = 0
    <3>1. new = [status |-> "terminated", first |-> old.first, last |-> old.last,
                 days |-> old.days, rent |-> old.rent, held |-> 0]
      BY <2>1, <2>2 DEF TermRecords
    <3>2. "terminated" \in LeaseStatuses
      BY DEF LeaseStatuses
    <3> QED BY <2>1, <3>1, <3>2 DEF TermRecords
  <2>4. leases' = [leases EXCEPT ![l] = new]
    BY <1>2, <2>1, <2>2
  <2> QED BY <1>2, <2>3, <2>4
<1>9. PICK h \in Int : h = 0
  OBVIOUS
<1>10. /\ h + c <= Held(l) \/ (c = 0 /\ h <= 0)
  BY <1>6, <1>9
<1> QED BY <1>2, <1>5, <1>6, <1>7, <1>8, <1>9, <1>10, DepositChanged

LEMMA DeletedStep ==
    ASSUME TrustInv, NEW l \in Leases, DeleteLease(l), UNCHANGED recorded
    PROVE  TrustInv'
<1>1. UNCHANGED <<entries, transactions, leases>> /\ liveRefs' \subseteq Refs
  BY TrustFacts DEF DeleteLease, SoftDelete
<1>2. TxInv /\ TxInv'
  BY <1>1, NothingPosted DEF TrustInv
<1>3. ASSUME NEW x \in Leases
      PROVE  Returned(x) \in Int /\ Returned(x)' \in Int /\ Returned(x)' <= Returned(x)
  BY <1>1, <1>2, ReturnedSame
<1> QED BY <1>1, <1>2, <1>3, NothingReturned

LEMMA TrustStep == TrustInv /\ [TrustNext]_TrustVars => TrustInv'
<1> SUFFICES ASSUME TrustInv, [TrustNext]_TrustVars PROVE TrustInv'
  OBVIOUS
<1>1. CASE EnterContract
  BY <1>1, EnterStep DEF EnterContract
<1>2. CASE \E l \in Leases : DeleteLease(l) /\ UNCHANGED recorded
  BY <1>2, DeletedStep
<1>3. CASE UseTransactions /\ UNCHANGED recorded
  BY <1>3, TrustUseStep
<1>4. CASE \E l \in Leases, amount \in RefundAmounts :
              RefundDeposit(l, amount) \/ ReturnOverpayment(l, amount)
  BY <1>4, RefundStep, OverpaymentStep
<1>5. CASE \E l \in Leases, deductions \in DeductionLists :
              ProcessDepositDisposition(l, deductions)
  BY <1>5, DispositionStep
<1>6. CASE UNCHANGED TrustVars
  <2>1. UNCHANGED <<entries, transactions, leases, recorded>> /\ liveRefs' \subseteq Refs
    BY <1>6, TrustFacts DEF TrustVars
  <2>2. TxInv /\ TxInv'
    BY <2>1, NothingPosted DEF TrustInv
  <2>3. ASSUME NEW x \in Leases
        PROVE  Returned(x) \in Int /\ Returned(x)' \in Int /\ Returned(x)' <= Returned(x)
    BY <2>1, <2>2, ReturnedSame
  <2> QED BY <2>1, <2>2, <2>3, NothingReturned
<1> QED BY <1>1, <1>2, <1>3, <1>4, <1>5, <1>6 DEF TrustNext

LEMMA TrustInitial == TrustAssumption /\ TrustInit => TrustInv
<1> SUFFICES ASSUME TrustAssumption, TrustInit PROVE TrustInv
  OBVIOUS
<1>1. /\ entries = <<>> /\ transactions = <<>> /\ liveRefs = Refs \ Leases
      /\ leases = [l \in {} |-> <<>>] /\ recorded = [l \in Leases |-> 0]
  BY DEF TrustInit, LeasesInit
<1>2. TxInv
  <2>1. JournalInv
    BY <1>1, JournalAssumption DEF JournalInv, TypeOK, NumbersConsecutive, EntriesValid,
       ReversalsPaired, IsReversal
  <2>2. IsTable(transactions)
    <3>1. \A S : <<>> \in Seq(S)
      OBVIOUS
    <3> QED BY <1>1, <3>1 DEF IsTable
  <2>3. Len(entries) <= MaxEntries
    BY <1>1, JournalAssumption
  <2> QED BY <1>1, <2>1, <2>2, <2>3 DEF TxInv, TrustAssumption
<1>3. ASSUME NEW l \in Leases PROVE Within(l)
  <2>1. PICK f : f = [t \in DOMAIN transactions |-> ReturnOf(transactions[t], l)]
    OBVIOUS
  <2>2. f = << >>
    BY <1>1, <2>1
  <2>3. Returned(l) = 0
    BY <2>1, <2>2, ReturnedIs, TotalEmpty
  <2>4. recorded[l] = 0 /\ DOMAIN leases = {}
    BY <1>1
  <2> QED BY <2>3, <2>4 DEF Within
<1> QED BY <1>1, <1>2, <1>3 DEF TrustInv

LEMMA TrustInvariant == TrustAssumption /\ TrustSpec => []TrustInv
BY TrustInitial, TrustStep, PTL DEF TrustSpec

LEMMA TrustImplies ==
    TrustInv => NeverReturnedTwice /\ RowsMirrorEntries /\ EntriesBalanced /\ ReversalsPaired
                  /\ AlwaysReversible
<1> SUFFICES ASSUME TrustInv
             PROVE  NeverReturnedTwice /\ RowsMirrorEntries /\ EntriesBalanced
                      /\ ReversalsPaired /\ AlwaysReversible
  OBVIOUS
<1>1. TxInv /\ JournalInv
  BY DEF TrustInv, TxInv
<1>2. NeverReturnedTwice
  BY DEF TrustInv, Within, NeverReturnedTwice
<1> QED BY <1>1, <1>2, TxImplies, JournalImplies

\* No deposit is returned twice: whatever the order of refunds, dispositions,
\* deletions of transactions and edits of the contract, what is held and what
\* was returned is never more than what was entered on the contract.
THEOREM ReturnedOnce == TrustAssumption /\ TrustSpec => []NeverReturnedTwice
BY TrustInvariant, TrustImplies, PTL

\* Deposits that are not negative when they are entered on a contract.
NoneNegative == \A terms \in Terms : terms.held >= 0
HeldInv == TrustInv /\ NoneNegative /\ \A l \in DOMAIN leases : Held(l) >= 0

LEMMA HeldStep == HeldInv /\ [TrustNext]_TrustVars => HeldInv'
<1> SUFFICES ASSUME HeldInv, [TrustNext]_TrustVars PROVE HeldInv'
  OBVIOUS
<1>1. /\ TrustInv' /\ NoneNegative'
      /\ leases \in [DOMAIN leases -> TermRecords] /\ \A x \in DOMAIN leases : leases[x].held >= 0
  BY TrustStep DEF HeldInv, NoneNegative, Held, TrustInv
<1> SUFFICES \A x \in DOMAIN leases' : leases'[x].held >= 0
  BY <1>1 DEF HeldInv, Held
<1>2. ASSUME NEW l \in DOMAIN leases, NEW new, new.held >= 0,
             leases' = [leases EXCEPT ![l] = new]
      PROVE  \A x \in DOMAIN leases' : leases'[x].held >= 0
  BY <1>1, <1>2
<1>3. ASSUME UNCHANGED leases PROVE \A x \in DOMAIN leases' : leases'[x].held >= 0
  BY <1>1, <1>3
<1>4. CASE EnterContract
  <2>1. PICK l \in Leases, terms \in Terms : CreateLease(l, terms) \/ UpdateLease(l, terms)
    BY <1>4 DEF EnterContract
  <2>2. terms.held >= 0
    BY DEF HeldInv, NoneNegative
  <2>3. CASE CreateLease(l, terms)
    BY <1>1, <2>2, <2>3 DEF CreateLease
  <2>4. CASE UpdateLease(l, terms)
    BY <1>2, <2>2, <2>4 DEF UpdateLease, Known
  <2> QED BY <2>1, <2>3, <2>4
<1>5. ASSUME NEW l, DeleteLease(l) PROVE UNCHANGED leases
  BY <1>5 DEF DeleteLease
<1>6. ASSUME UseTransactions PROVE UNCHANGED leases
  BY <1>6 DEF UseTransactions
<1>7. ASSUME NEW l, NEW amount \in RefundAmounts, RefundDeposit(l, amount)
      PROVE  \A x \in DOMAIN leases' : leases'[x].held >= 0
  <2>1. /\ l \in DOMAIN leases /\ amount <= leases[l].held /\ amount \in Int
        /\ leases' = [leases EXCEPT ![l].held = @ - amount]
    BY <1>7 DEF RefundDeposit, Known, Held, HeldInv, TrustInv, TrustAssumption,
                LeaseTrustAssumption
  <2>2. PICK old : old = leases[l] /\ old \in TermRecords
    BY <1>1, <2>1
  <2>3. PICK new : new = [old EXCEPT !.held = old.held - amount]
    OBVIOUS
  <2>4. new.held = old.held - amount /\ old.held \in Int
    BY <2>2, <2>3 DEF TermRecords
  <2>5. new.held >= 0
    BY <2>1, <2>2, <2>4
  <2>6. leases' = [leases EXCEPT ![l] = new]
    BY <2>1, <2>2, <2>3
  <2> QED BY <1>2, <2>1, <2>5, <2>6
<1>8. ASSUME NEW l, NEW amount, ReturnOverpayment(l, amount) PROVE UNCHANGED leases
  BY <1>8 DEF ReturnOverpayment
<1>9. ASSUME NEW l, NEW deductions, ProcessDepositDisposition(l, deductions)
      PROVE  \A x \in DOMAIN leases' : leases'[x].held >= 0
  <2>1. /\ l \in DOMAIN leases
        /\ leases' = [leases EXCEPT ![l].held = 0, ![l].status = "terminated"]
    BY <1>9 DEF ProcessDepositDisposition, Known
  <2>2. PICK old : old = leases[l] /\ old \in TermRecords
    BY <1>1, <2>1
  <2>3. PICK new : new = [old EXCEPT !.held = 0, !.status = "terminated"]
    OBVIOUS
  <2>4. new.held = 0
    <3>1. new = [status |-> "terminated", first |-> old.first, last |-> old.last,
                 days |-> old.days, rent |-> old.rent, held |-> 0]
      BY <2>2, <2>3 DEF TermRecords
    <3> QED BY <3>1
  <2>5. leases' = [leases EXCEPT ![l] = new]
    BY <2>1, <2>2, <2>3
  <2>6. new.held >= 0
    BY <2>4
  <2> QED BY <1>2, <2>1, <2>5, <2>6
<1>10. CASE UNCHANGED TrustVars
  BY <1>3, <1>10 DEF TrustVars
<1> QED BY <1>3, <1>4, <1>5, <1>6, <1>7, <1>8, <1>9, <1>10 DEF TrustNext

\* A deposit is not returned twice and none becomes negative, where users enter
\* none that is: rows, contracts and the history keep their types.
THEOREM DepositsHold ==
    TrustAssumption /\ NoneNegative /\ TrustSpec => []DepositsAgree
<1>1. TrustAssumption /\ NoneNegative /\ TrustInit => HeldInv
  BY TrustInitial DEF HeldInv, TrustInit, LeasesInit
<1>2. HeldInv => DepositsAgree
  <2>1. ASSUME HeldInv PROVE TrustTypeOK
    <3>1. TypeOK /\ \A t \in DOMAIN transactions : MirrorOf(t) /\ IsRow(transactions[t])
      BY <2>1 DEF HeldInv, TrustInv, TxInv, JournalInv
    <3>2. TxTypeOK
      BY <3>1 DEF TxTypeOK, MirrorOf, IsRow
    <3> QED BY <2>1, <3>2 DEF TrustTypeOK, HeldInv, TrustInv
  <2> QED BY <2>1, TrustImplies DEF HeldInv, DepositsAgree
<1> QED BY <1>1, <1>2, HeldStep, PTL DEF TrustSpec

\* Refunds and dispositions, which write several entries at once, leave rows
\* and entries each other's mirror and the ledger balanced and reversible.
THEOREM DepositsMirrored ==
    TrustAssumption /\ TrustSpec
      => [](RowsMirrorEntries /\ EntriesBalanced /\ ReversalsPaired /\ AlwaysReversible)
BY TrustInvariant, TrustImplies, PTL

(***************************************************************************)
(* What tenants owe: the receivable of a lease and its rows.               *)
(***************************************************************************)
\* The receivable is no account that callers choose for the other side, and
\* no category but its own is mapped to it.
ReceivableApart ==
    /\ \A c \in DOMAIN Mapped \ {"accounts_receivable"} : Mapped[c] # AR
    /\ \A input \in Inputs : input.category # "accounts_receivable"
ChargesApart ==
    /\ "late_fee" \in DOMAIN Mapped
    /\ \A input \in RecurringInputs :
          input.category # "accounts_receivable" /\ input.gl # AR
    /\ AR \notin CreditAccounts

\* What a row adds to the receivable of its lease, by the source of its entry.
Share(type, amount, source) ==
    CASE type = "charge" -> amount
      [] type \in {"payment", "deposit_deduction"} -> -amount
      [] type = "refund" -> IF source = "credit_concession" THEN -amount ELSE amount
      [] OTHER -> 0

\* An entry in force that puts on the receivable what its row says.
Carries(row, e) ==
    /\ e.reversedBy = 0
    /\ \A x \in Leases :
          NetOf(e.lines, {AR}, x)
            = IF row.lease = x THEN Share(row.type, row.amount, e.source) ELSE 0
RowStands(t) == transactions[t].live => Carries(transactions[t], entries[transactions[t].entry])
Standing == LeaseLedgerFollowsRows /\ \A t \in DOMAIN transactions : RowStands(t)

NetOn(i, x) == NetOf(entries[i].lines, {AR}, x)
Part(row, source, x) == IF row.live /\ row.lease = x THEN Share(row.type, row.amount, source) ELSE 0
PartOf(t, x) == Part(transactions[t], entries[transactions[t].entry].source, x)

\* The sums that are compared, row by row.
SameTotals(x) ==
    Total([i \in DOMAIN entries |-> NetOn(i, x)])
      = Total([t \in DOMAIN transactions |-> PartOf(t, x)])

AllSame == \A x \in Leases : SameTotals(x)

LEMMA FollowsIs == LeaseLedgerFollowsRows <=> AllSame
<1>1. ASSUME NEW x \in Leases
      PROVE  SameTotals(x) <=>
                NetReceivable(x) = Total([t \in DOMAIN transactions |->
                                            IF t \in LeaseTransactions(x) THEN OnBalance(t) ELSE 0])
  <2>1. NetReceivable(x) = Total([i \in DOMAIN entries |-> NetOn(i, x)])
    BY DEF NetReceivable, NetOn
  <2>2. ASSUME NEW t \in DOMAIN transactions
        PROVE  PartOf(t, x) = IF t \in LeaseTransactions(x) THEN OnBalance(t) ELSE 0
    <3>1. t \in LeaseTransactions(x) <=> transactions[t].live /\ transactions[t].lease = x
      BY DEF LeaseTransactions
    <3>2. OnBalance(t) = Share(transactions[t].type, transactions[t].amount,
                              entries[transactions[t].entry].source)
      BY DEF OnBalance, Share
    <3> QED BY <3>1, <3>2, Zenon DEF PartOf, Part
  <2>3. [t \in DOMAIN transactions |-> PartOf(t, x)]
          = [t \in DOMAIN transactions |-> IF t \in LeaseTransactions(x) THEN OnBalance(t) ELSE 0]
    BY <2>2, Zenon
  <2> QED BY <2>1, <2>3, Zenon DEF SameTotals
<1> QED BY <1>1, Zenon DEF LeaseLedgerFollowsRows, AllSame

\* Two tables of n and of m rows that grow by the same q rows have the same
\* totals when they had.
Grow(f, g, f2, g2, n, m, q) ==
    /\ f \in [1 .. n -> Int] /\ g \in [1 .. m -> Int]
    /\ f2 \in [1 .. n + q -> Int] /\ g2 \in [1 .. m + q -> Int]
    /\ \A i \in 1 .. n : f2[i] = f[i]
    /\ \A i \in 1 .. m : g2[i] = g[i]
    /\ \A k \in 1 .. q : f2[n + k] = g2[m + k]
    /\ Total(f) = Total(g)

LEMMA TotalsGrow ==
    ASSUME NEW n \in Nat, NEW m \in Nat, NEW q \in Nat, NEW f, NEW g, NEW f2, NEW g2,
           Grow(f, g, f2, g2, n, m, q)
    PROVE  Total(f2) = Total(g2)
<1>0. /\ f \in [1 .. n -> Int] /\ g \in [1 .. m -> Int]
      /\ f2 \in [1 .. n + q -> Int] /\ g2 \in [1 .. m + q -> Int]
      /\ \A i \in 1 .. n : f2[i] = f[i]
      /\ \A i \in 1 .. m : g2[i] = g[i]
      /\ \A k \in 1 .. q : f2[n + k] = g2[m + k]
      /\ Total(f) = Total(g)
  BY DEF Grow
<1>1. /\ f \in Seq(Int) /\ Len(f) = n /\ f2 \in Seq(Int) /\ Len(f2) = n + q
      /\ g \in Seq(Int) /\ Len(g) = m /\ g2 \in Seq(Int) /\ Len(g2) = m + q
  <2>1. n + q \in Nat /\ m + q \in Nat
    OBVIOUS
  <2>2. ASSUME NEW k \in Nat, NEW h \in [1 .. k -> Int] PROVE h \in Seq(Int) /\ Len(h) = k
    OBVIOUS
  <2> QED BY <1>0, <2>1, <2>2
<1>2. PICK r : IsRunning(r, f2, n + q)
  BY <1>1, RunningExists
<1>3. PICK s0 : IsRunning(s0, g, m)
  BY <1>1, RunningExists
<1>4. /\ r \in [0 .. n + q -> Int] /\ r[0] = 0
      /\ \A i \in 1 .. n + q : r[i] = r[i - 1] + f2[i]
  BY <1>2 DEF IsRunning
<1>5. s0 \in [0 .. m -> Int] /\ s0[0] = 0 /\ \A i \in 1 .. m : s0[i] = s0[i - 1] + g[i]
  BY <1>3 DEF IsRunning
<1>6. Total(f) = r[n]
  <2>1. PICK p : p = [i \in 0 .. n |-> r[i]]
    OBVIOUS
  <2>2. p \in [0 .. n -> Int] /\ p[0] = 0
    BY <1>4, <2>1
  <2>3. ASSUME NEW i \in 1 .. n PROVE p[i] = p[i - 1] + f[i]
    <3>1. i \in 1 .. n + q /\ i - 1 \in 0 .. n /\ i \in 0 .. n
      OBVIOUS
    <3> QED BY <1>0, <1>4, <2>1, <3>1
  <2>4. IsRunning(p, f, n)
    BY <2>2, <2>3 DEF IsRunning
  <2> QED BY <1>1, <2>1, <2>4, TotalIsRunning
<1>7. Total(g) = s0[m] /\ Total(f2) = r[n + q]
  BY <1>1, <1>2, <1>3, TotalIsRunning
<1>8. PICK s : s = [j \in 0 .. m + q |-> IF j <= m THEN s0[j] ELSE r[n + (j - m)]]
  OBVIOUS
<1>9. s0[m] = r[n]
  BY <1>0, <1>6, <1>7
<1>10. s \in [0 .. m + q -> Int] /\ s[0] = 0
  <2>1. ASSUME NEW j \in 0 .. m + q
        PROVE  (IF j <= m THEN s0[j] ELSE r[n + (j - m)]) \in Int
    <3>1. CASE j <= m
      BY <1>5, <3>1
    <3>2. CASE ~(j <= m)
      <4>1. n + (j - m) \in 0 .. n + q
        BY <3>2
      <4> QED BY <1>4, <3>2, <4>1
    <3> QED BY <3>1, <3>2
  <2>2. s \in [0 .. m + q -> Int]
    BY <1>8, <2>1
  <2>3. 0 \in 0 .. m + q /\ 0 <= m
    OBVIOUS
  <2> QED BY <1>5, <1>8, <2>2, <2>3
<1>11. ASSUME NEW j \in 1 .. m + q PROVE s[j] = s[j - 1] + g2[j]
  <2>1. CASE j <= m
    <3>1. j \in 1 .. m /\ j - 1 \in 0 .. m + q /\ j \in 0 .. m + q /\ j - 1 <= m
      BY <2>1
    <3>2. s[j] = s0[j] /\ s[j - 1] = s0[j - 1]
      BY <1>8, <2>1, <3>1
    <3> QED BY <1>0, <1>5, <3>1, <3>2
  <2>2. CASE ~(j <= m)
    <3>1. PICK k \in 1 .. q : j = m + k
      <4>1. j - m \in 1 .. q /\ j = m + (j - m)
        BY <2>2
      <4> QED BY <4>1
    <3>2. s[j] = r[n + k]
      <4>1. j \in 0 .. m + q /\ n + (j - m) = n + k
        BY <3>1
      <4> QED BY <1>8, <2>2, <4>1
    <3>3. s[j - 1] = r[n + k - 1]
      <4>1. j - 1 \in 0 .. m + q
        OBVIOUS
      <4>2. CASE k = 1
        <5>1. j - 1 = m /\ n + k - 1 = n
          BY <3>1, <4>2
        <5> QED BY <1>8, <1>9, <4>1, <5>1
      <4>3. CASE k # 1
        <5>1. ~(j - 1 <= m) /\ n + (j - 1 - m) = n + k - 1
          BY <3>1, <4>3
        <5> QED BY <1>8, <4>1, <5>1
      <4> QED BY <4>2, <4>3
    <3>4. r[n + k] = r[n + k - 1] + f2[n + k]
      <4>1. n + k \in 1 .. n + q
        OBVIOUS
      <4> QED BY <1>4, <4>1
    <3>5. g2[j] = f2[n + k]
      BY <1>0, <3>1
    <3> QED BY <3>2, <3>3, <3>4, <3>5
  <2> QED BY <2>1, <2>2
<1>12. IsRunning(s, g2, m + q)
  BY <1>10, <1>11 DEF IsRunning
<1>13. Total(g2) = s[m + q]
  BY <1>1, <1>12, TotalIsRunning
<1>14. s[m + q] = r[n + q]
  <2>1. CASE q = 0
    BY <1>8, <1>9, <2>1
  <2>2. CASE q # 0
    <3>1. ~(m + q <= m) /\ m + q \in 0 .. m + q /\ n + (m + q - m) = n + q
      BY <2>2
    <3> QED BY <1>8, <3>1
  <2> QED BY <2>1, <2>2
<1> QED BY <1>7, <1>13, <1>14

\* What lines put on an account is an integer, the opposite for a reversal.
LEMMA SwapNet ==
    ASSUME NEW lines \in Seq(LineInputs), NEW S, NEW x
    PROVE  NetOf(lines, S, x) \in Int /\ NetOf(Swap(lines), S, x) = -NetOf(lines, S, x)
<1> DEFINE f == [k \in DOMAIN lines |->
                   IF lines[k].account \in S /\ lines[k].ref = x
                   THEN lines[k].debit - lines[k].credit ELSE 0]
           g == [k \in DOMAIN Swap(lines) |->
                   IF Swap(lines)[k].account \in S /\ Swap(lines)[k].ref = x
                   THEN Swap(lines)[k].debit - Swap(lines)[k].credit ELSE 0]
<1>1. PICK n \in Nat : DOMAIN lines = 1 .. n /\ DOMAIN Swap(lines) = 1 .. n
  BY SwapLines
<1>2. \A k \in 1 .. n : lines[k].debit \in Int /\ lines[k].credit \in Int
  BY <1>1, LineFields
<1>3. f \in [1 .. n -> Int]
  BY <1>1, <1>2
<1>4. ASSUME NEW k \in 1 .. n PROVE g[k] = -f[k] /\ g[k] \in Int
  <2>1. /\ Swap(lines)[k].account = lines[k].account /\ Swap(lines)[k].ref = lines[k].ref
        /\ Swap(lines)[k].debit = lines[k].credit
        /\ Swap(lines)[k].credit = lines[k].debit
    BY <1>1, SwapLines
  <2> QED BY <1>1, <1>2, <2>1
<1>5. g \in [1 .. n -> Int]
  <2>1. g = [k \in 1 .. n |-> g[k]]
    BY <1>1
  <2> HIDE DEF g
  <2> QED BY <1>4, <2>1
<1>6. NetOf(lines, S, x) = Total(f) /\ NetOf(Swap(lines), S, x) = Total(g)
  BY DEF NetOf
<1> HIDE DEF f, g
<1>7. f \in Seq(Int) /\ g \in Seq(Int) /\ Len(f) = n /\ Len(g) = n
  BY <1>3, <1>5
<1>8. Total(g) = -Total(f)
  BY <1>4, <1>7, TotalNegate
<1>9. Total(f) \in Int
  BY <1>7, TotalType
<1> QED BY <1>6, <1>8, <1>9

\* What the two lines of a transaction put on an account.
LEMMA TransferNet ==
    ASSUME NEW debit, NEW credit, NEW amount \in Nat, NEW lease, NEW S, NEW x
    PROVE  NetOf(Transfer(debit, credit, amount, lease), S, x)
             = IF lease = x
               THEN (IF debit \in S THEN amount ELSE 0) - (IF credit \in S THEN amount ELSE 0)
               ELSE 0
<1> DEFINE d == [account |-> debit, debit |-> amount, credit |-> 0, ref |-> lease]
           c == [account |-> credit, debit |-> 0, credit |-> amount, ref |-> lease]
           lines == Transfer(debit, credit, amount, lease)
           f == [k \in DOMAIN lines |->
                   IF lines[k].account \in S /\ lines[k].ref = x
                   THEN lines[k].debit - lines[k].credit ELSE 0]
<1>1. lines = <<d, c>>
  BY DEF Transfer
<1>2. /\ d.account = debit /\ d.debit = amount /\ d.credit = 0 /\ d.ref = lease
      /\ c.account = credit /\ c.debit = 0 /\ c.credit = amount /\ c.ref = lease
  OBVIOUS
<1> HIDE DEF d, c, lines
<1>3. DOMAIN lines = 1 .. 2 /\ lines[1] = d /\ lines[2] = c
  BY <1>1
<1>4. PICK v, w : v = f[1] /\ w = f[2]
  OBVIOUS
<1>5. /\ v = IF lease = x /\ debit \in S THEN amount ELSE 0
      /\ w = IF lease = x /\ credit \in S THEN -amount ELSE 0
  BY <1>2, <1>3, <1>4
<1>6. v \in Int /\ w \in Int
  BY <1>5
<1>7. f = [k \in 1 .. 2 |-> IF k = 1 THEN v ELSE w]
  <2>1. DOMAIN f = 1 .. 2 /\ f = [k \in 1 .. 2 |-> f[k]]
    BY <1>3
  <2> HIDE DEF f
  <2>2. \A k \in 1 .. 2 : k = 1 \/ k = 2
    OBVIOUS
  <2>3. \A k \in 1 .. 2 : f[k] = IF k = 1 THEN v ELSE w
    BY <1>4, <2>2
  <2> QED BY <2>1, <2>3
<1>8. NetOf(lines, S, x) = Total(f)
  BY DEF NetOf
<1>9. f = Append(Append(<< >>, v), w)
  <2> HIDE DEF f
  <2> QED BY <1>6, <1>7
<1> HIDE DEF f
<1>10. Total(f) = 0 + v + w
  <2>1. << >> \in Seq(Int) /\ Append(<< >>, v) \in Seq(Int)
    BY <1>6
  <2>2. Total(Append(<< >>, v)) = 0 + v
    BY <1>6, <2>1, TotalAppend, TotalEmpty
  <2>3. Total(Append(Append(<< >>, v), w)) = Total(Append(<< >>, v)) + w
    BY <1>6, <2>1, TotalAppend
  <2> QED BY <1>9, <2>2, <2>3
<1>11. Total(f) = IF lease = x
                 THEN (IF debit \in S THEN amount ELSE 0) - (IF credit \in S THEN amount ELSE 0)
                 ELSE 0
  BY <1>5, <1>10
<1> QED BY <1>8, <1>11 DEF lines

\* So what the entry of a row puts on the receivable is the share of the row.
LEMMA CarriedBy ==
    ASSUME NEW debit, NEW credit, NEW amount \in Nat, NEW lease, NEW row, NEW source,
           row.lease = lease, NEW e, e.reversedBy = 0, e.source = source,
           e.lines = Transfer(debit, credit, amount, lease),
           Share(row.type, row.amount, source) = (IF debit = AR THEN amount ELSE 0)
                                  - (IF credit = AR THEN amount ELSE 0)
    PROVE  Carries(row, e)
<1> SUFFICES ASSUME NEW x \in Leases
             PROVE  NetOf(e.lines, {AR}, x)
            = IF row.lease = x THEN Share(row.type, row.amount, e.source) ELSE 0
  BY DEF Carries
<1>1. NetOf(e.lines, {AR}, x)
        = IF lease = x
          THEN (IF debit = AR THEN amount ELSE 0) - (IF credit = AR THEN amount ELSE 0)
          ELSE 0
  BY TransferNet
<1> QED BY <1>1

LEMMA ShareIs ==
    ASSUME NEW row, IsRow(row), NEW source PROVE Share(row.type, row.amount, source) \in Int
BY DEF IsRow, Share

LEMMA PartIs == ASSUME NEW row, IsRow(row), NEW source, NEW x PROVE Part(row, source, x) \in Int
BY ShareIs DEF Part

\* Rows that are left and entries in force are added together.
LEMMA StandGrow ==
    ASSUME TxInv, Standing, NEW n \in Nat, NEW m \in Nat, NEW q \in Nat,
           n = Len(entries), m = Len(transactions),
           DOMAIN entries' = 1 .. n + q, DOMAIN transactions' = 1 .. m + q,
           \A i \in 1 .. n : entries'[i] = entries[i],
           \A t \in 1 .. m : transactions'[t] = transactions[t],
           \A k \in 1 .. q :
              /\ IsRow(transactions'[m + k]) /\ transactions'[m + k].live = TRUE
              /\ transactions'[m + k].entry = n + k
              /\ Carries(transactions'[m + k], entries'[n + k])
    PROVE  Standing'
<1>1. DOMAIN entries = 1 .. n /\ DOMAIN transactions = 1 .. m
  BY TableRows DEF TxInv, JournalInv, TypeOK
<1>2. ASSUME NEW i \in 1 .. n, NEW x
      PROVE  NetOn(i, x)' = NetOn(i, x) /\ NetOn(i, x) \in Int
  <2>1. entries[i].lines \in Seq(LineInputs)
    BY <1>1, EntryFields DEF TxInv, JournalInv
  <2>2. NetOf(entries[i].lines, {AR}, x) \in Int
    BY <2>1, SwapNet
  <2> QED BY <2>2 DEF NetOn
<1>3. ASSUME NEW t \in 1 .. m
      PROVE  /\ transactions'[t] = transactions[t] /\ transactions[t].entry \in 1 .. n
             /\ entries'[transactions[t].entry] = entries[transactions[t].entry]
             /\ IsRow(transactions[t])
  BY <1>1 DEF TxInv, MirrorOf
<1>4. ASSUME NEW t \in 1 .. m, NEW x
      PROVE  PartOf(t, x)' = PartOf(t, x) /\ PartOf(t, x) \in Int
  BY <1>3, PartIs DEF PartOf
<1>5. ASSUME NEW k \in 1 .. q, NEW x \in Leases
      PROVE  NetOn(n + k, x)' = PartOf(m + k, x)' /\ PartOf(m + k, x)' \in Int
  <2>1. PICK row, e : row = transactions'[m + k] /\ e = entries'[n + k]
    OBVIOUS
  <2>2. IsRow(row) /\ row.live = TRUE /\ row.entry = n + k /\ Carries(row, e)
    BY <2>1
  <2>3. NetOn(n + k, x)' = NetOf(e.lines, {AR}, x)
    BY <2>1 DEF NetOn
  <2>4. PartOf(m + k, x)' = Part(row, e.source, x)
    BY <2>1, <2>2 DEF PartOf
  <2>5. Part(row, e.source, x) \in Int
    BY <2>2, PartIs
  <2>6. NetOf(e.lines, {AR}, x) = Part(row, e.source, x)
    BY <2>2, Zenon DEF Carries, Part
  <2> QED BY <2>3, <2>4, <2>5, <2>6
<1>6. ASSUME NEW b \in Nat, NEW j \in 1 .. b + q, j \notin 1 .. b
      PROVE  \E k \in 1 .. q : j = b + k
  <2>1. j - b \in 1 .. q /\ j = b + (j - b)
    BY <1>6
  <2> QED BY <2>1
<1>7. ASSUME NEW x \in Leases PROVE SameTotals(x)'
  <2>1. PICK f, g, f2, g2 :
           /\ f = [i \in 1 .. n |-> NetOn(i, x)] /\ g = [t \in 1 .. m |-> PartOf(t, x)]
           /\ f2 = [i \in 1 .. n + q |-> NetOn(i, x)']
           /\ g2 = [t \in 1 .. m + q |-> PartOf(t, x)']
    OBVIOUS
  <2>2. f \in [1 .. n -> Int] /\ g \in [1 .. m -> Int]
    BY <1>2, <1>4, <2>1
  <2>3. ASSUME NEW i \in 1 .. n + q PROVE NetOn(i, x)' \in Int
    <3>1. CASE i \in 1 .. n
      BY <1>2, <3>1
    <3>2. CASE i \notin 1 .. n
      <4>1. PICK k \in 1 .. q : i = n + k
        BY <1>6, <3>2
      <4> QED BY <1>5, <4>1
    <3> QED BY <3>1, <3>2
  <2>4. ASSUME NEW t \in 1 .. m + q PROVE PartOf(t, x)' \in Int
    <3>1. CASE t \in 1 .. m
      BY <1>4, <3>1
    <3>2. CASE t \notin 1 .. m
      <4>1. PICK k \in 1 .. q : t = m + k
        BY <1>6, <3>2
      <4> QED BY <1>5, <4>1
    <3> QED BY <3>1, <3>2
  <2>5. f2 \in [1 .. n + q -> Int] /\ g2 \in [1 .. m + q -> Int]
    BY <2>1, <2>3, <2>4
  <2>6. ASSUME NEW i \in 1 .. n PROVE f2[i] = f[i]
    <3>1. i \in 1 .. n + q
      OBVIOUS
    <3> QED BY <1>2, <2>1, <3>1
  <2>7. ASSUME NEW t \in 1 .. m PROVE g2[t] = g[t]
    <3>1. t \in 1 .. m + q
      OBVIOUS
    <3> QED BY <1>4, <2>1, <3>1
  <2>8. ASSUME NEW k \in 1 .. q PROVE f2[n + k] = g2[m + k]
    <3>1. n + k \in 1 .. n + q /\ m + k \in 1 .. m + q
      OBVIOUS
    <3> QED BY <1>5, <2>1, <3>1
  <2>9. Total(f) = Total(g)
    <3>1. SameTotals(x)
      BY FollowsIs DEF Standing, AllSame
    <3> QED BY <1>1, <2>1, <3>1 DEF SameTotals
  <2>10. Total(f2) = Total(g2)
    <3>1. /\ \A i \in 1 .. n : f2[i] = f[i]
          /\ \A i \in 1 .. m : g2[i] = g[i]
          /\ \A k \in 1 .. q : f2[n + k] = g2[m + k]
      BY <2>6, <2>7, <2>8
    <3>2. Grow(f, g, f2, g2, n, m, q)
      BY <2>2, <2>5, <2>9, <3>1 DEF Grow
    <3> QED BY <3>2, TotalsGrow
  <2> QED BY <2>1, <2>10 DEF SameTotals
<1>8. ASSUME NEW t \in 1 .. m + q PROVE RowStands(t)'
  <2>1. CASE t \in 1 .. m
    <3>1. RowStands(t)
      BY <1>1, <2>1 DEF Standing
    <3> QED BY <1>3, <2>1, <3>1 DEF RowStands
  <2>2. CASE t \notin 1 .. m
    <3>1. PICK k \in 1 .. q : t = m + k
      BY <1>6, <2>2
    <3> QED BY <3>1 DEF RowStands
  <2> QED BY <2>1, <2>2
<1>9. LeaseLedgerFollowsRows'
  <2>1. LeaseLedgerFollowsRows' <=> AllSame'
    BY FollowsIs, PTL
  <2>2. AllSame'
    BY <1>7 DEF AllSame
  <2> QED BY <2>1, <2>2
<1> QED BY <1>8, <1>9 DEF Standing

\* A row that is deleted takes its entry out of force.
LEMMA StandDelete ==
    ASSUME TxInv, Standing, NEW t \in DOMAIN transactions, DeleteFromRequest(t), Deletes(t)
    PROVE  Standing'
<1>1. PICK i, row, e : i = transactions[t].entry /\ row = transactions[t] /\ e = entries[i]
  OBVIOUS
<1>2. /\ row.live /\ Carries(row, e) /\ IsRow(row) /\ e.reversedBy = 0
      /\ i \in DOMAIN entries /\ e.doc = t /\ e.lines \in Seq(LineInputs)
  <2>1. row.live
    BY <1>1 DEF Deletes
  <2>2. IsRow(row) /\ i \in DOMAIN entries /\ e.doc = t
    BY <1>1 DEF TxInv, MirrorOf
  <2>3. Carries(row, e)
    BY <1>1, <2>1 DEF Standing, RowStands
  <2>4. e.lines \in Seq(LineInputs)
    BY <1>1, <2>2, EntryFields DEF TxInv, JournalInv
  <2> QED BY <2>1, <2>2, <2>3, <2>4 DEF Carries
<1>3. ReverseEntry(i)
  <2>1. i # 0
    BY <1>2 DEF TxInv, JournalInv, TypeOK
  <2> QED BY <1>1, <1>2, <2>1 DEF DeleteFromRequest, DeleteTransaction, Posted
<1>4. PICK n \in Nat :
         /\ n = Len(entries) /\ DOMAIN entries = 1 .. n /\ DOMAIN entries' = 1 .. n + 1
         /\ entries'[n + 1].lines = Swap(e.lines)
         /\ \A k \in 1 .. n : /\ entries'[k].lines = entries[k].lines
                              /\ entries'[k].source = entries[k].source
         /\ \A k \in 1 .. n : k # i => entries'[k] = entries[k]
  <2>1. PICK n : n = Len(entries)
    OBVIOUS
  <2>2. /\ n \in Nat /\ DOMAIN entries = 1 .. n /\ DOMAIN entries' = 1 .. (n + 1)
        /\ entries'[n + 1] = [number |-> n + 1, source |-> "reversal", doc |-> i,
                              lines |-> Swap(entries[i].lines), reversedBy |-> 0]
        /\ \A k \in 1 .. n : /\ entries'[k].lines = entries[k].lines
                             /\ entries'[k].source = entries[k].source
        /\ \A k \in 1 .. n : k # i => entries'[k] = entries[k]
    BY <1>3, <2>1, ReversalWrites DEF TxInv
  <2>3. entries'[n + 1].lines = Swap(e.lines)
    BY <1>1, <2>2
  <2> QED BY <2>1, <2>2, <2>3
<1>5. PICK m \in Nat : DOMAIN transactions = 1 .. m /\ DOMAIN transactions' = 1 .. m
  BY TableRows DEF TxInv, Deletes
<1>6. ~transactions'[t].live /\ \A s \in DOMAIN transactions : s # t => transactions'[s] = transactions[s]
  BY DEF Deletes
<1>7. ASSUME NEW s \in DOMAIN transactions
      PROVE  /\ IsRow(transactions[s]) /\ transactions[s].entry \in 1 .. n
             /\ entries[transactions[s].entry].doc = s
  BY <1>4 DEF TxInv, MirrorOf
<1>8. ASSUME NEW x \in Leases PROVE SameTotals(x)'
  <2>1. PICK f, g, f2, g2 :
           /\ f = [k \in 1 .. n |-> NetOn(k, x)] /\ g = [s \in 1 .. m |-> PartOf(s, x)]
           /\ f2 = [k \in 1 .. n + 1 |-> NetOn(k, x)'] /\ g2 = [s \in 1 .. m |-> PartOf(s, x)']
    OBVIOUS
  <2>2. PICK d \in Int : d = NetOf(e.lines, {AR}, x) /\ NetOf(Swap(e.lines), {AR}, x) = -d
    BY <1>2, SwapNet
  <2>3. ASSUME NEW k \in 1 .. n PROVE NetOn(k, x)' = NetOn(k, x) /\ NetOn(k, x) \in Int
    <3>1. entries[k].lines \in Seq(LineInputs)
      BY <1>4, EntryFields DEF TxInv, JournalInv
    <3>2. NetOf(entries[k].lines, {AR}, x) \in Int
      BY <3>1, SwapNet
    <3> QED BY <1>4, <3>2 DEF NetOn
  <2>4. NetOn(n + 1, x)' = -d
    BY <1>4, <2>2 DEF NetOn
  <2>5. f \in [1 .. n -> Int] /\ f2 \in [1 .. n + 1 -> Int] /\ f2[n + 1] = -d
        /\ \A k \in 1 .. n : f2[k] = f[k]
    <3>1. ASSUME NEW k \in 1 .. n + 1 PROVE NetOn(k, x)' \in Int
      <4>1. k \in 1 .. n \/ k = n + 1
        OBVIOUS
      <4>2. CASE k \in 1 .. n
        BY <2>3, <4>2
      <4>3. CASE k = n + 1
        BY <2>4, <4>3
      <4> QED BY <4>1, <4>2, <4>3
    <3>2. n + 1 \in 1 .. n + 1 /\ \A k \in 1 .. n : k \in 1 .. n + 1
      OBVIOUS
    <3> QED BY <2>1, <2>3, <2>4, <3>1, <3>2
  <2>6. Total(f2) = Total(f) - d /\ Total(f) \in Int
    <3>1. PICK n1 \in Nat : n1 = n + 1 /\ n < n1
      OBVIOUS
    <3>2. /\ f2 \in [1 .. n1 -> Int] /\ f2[n1] = -d
          /\ \A k \in (n + 1) .. (n1 - 1) : f2[k] = 0
      BY <2>5, <3>1
    <3>3. Total(f) \in Int /\ Total(f2) = Total(f) + f2[n1]
      BY <2>5, <3>1, <3>2, TotalPadded
    <3> QED BY <3>2, <3>3
  <2>7. ASSUME NEW s \in 1 .. m, s # t PROVE PartOf(s, x)' = PartOf(s, x) /\ PartOf(s, x) \in Int
    <3>1. /\ transactions'[s] = transactions[s] /\ IsRow(transactions[s])
          /\ entries'[transactions[s].entry].source = entries[transactions[s].entry].source
      BY <1>4, <1>5, <1>6, <1>7, <2>7
    <3> QED BY <3>1, PartIs DEF PartOf
  <2>8. PartOf(t, x)' = 0
    BY <1>6 DEF PartOf, Part
  <2>9. PartOf(t, x) = d
    <3>1. PartOf(t, x) = Part(row, e.source, x)
      BY <1>1 DEF PartOf
    <3>2. NetOf(e.lines, {AR}, x) = Part(row, e.source, x)
      BY <1>2, Zenon DEF Carries, Part
    <3> QED BY <2>2, <3>1, <3>2
  <2>10. g \in Seq(Int) /\ Len(g) = m /\ g2 \in Seq(Int) /\ Len(g2) = m
    <3>1. \A s \in 1 .. m : PartOf(s, x) \in Int /\ PartOf(s, x)' \in Int
      BY <2>7, <2>8, <2>9
    <3> QED BY <2>1, <3>1
  <2>11. t \in 1 .. m /\ g2[t] = g[t] + (-d) /\ \A s \in 1 .. m : s # t => g2[s] = g[s]
    <3>1. t \in 1 .. m /\ g2[t] = 0 /\ g[t] = d
      BY <1>5, <2>1, <2>8, <2>9
    <3>2. \A s \in 1 .. m : s # t => g2[s] = g[s]
      BY <2>1, <2>7
    <3> QED BY <3>1, <3>2
  <2>12. Total(g2) = Total(g) + (-d)
    <3>1. Len(g2) = Len(g) /\ t \in 1 .. Len(g) /\ -d \in Int
          /\ \A s \in 1 .. Len(g) : s # t => g2[s] = g[s]
      BY <2>10, <2>11
    <3> QED BY <2>10, <2>11, <3>1, TotalUpdate
  <2>13. Total(f) = Total(g)
    <3>1. SameTotals(x)
      BY FollowsIs DEF Standing, AllSame
    <3> QED BY <1>4, <1>5, <2>1, <3>1 DEF SameTotals
  <2>14. Total(f2) = Total(g2)
    BY <2>6, <2>12, <2>13
  <2> QED BY <1>4, <1>5, <2>1, <2>14 DEF SameTotals
<1>9. ASSUME NEW s \in DOMAIN transactions' PROVE RowStands(s)'
  <2>1. CASE s = t
    BY <1>6, <2>1 DEF RowStands
  <2>2. CASE s # t
    <3>1. s \in DOMAIN transactions
      BY <1>5
    <3>2. transactions'[s] = transactions[s] /\ transactions[s].entry # i
      BY <1>1, <1>2, <1>6, <1>7, <2>2, <3>1
    <3>3. entries'[transactions[s].entry] = entries[transactions[s].entry]
      BY <1>4, <1>7, <3>1, <3>2
    <3> QED BY <3>1, <3>2, <3>3 DEF Standing, RowStands
  <2> QED BY <2>1, <2>2
<1>10. LeaseLedgerFollowsRows'
  <2>1. LeaseLedgerFollowsRows' <=> AllSame'
    BY FollowsIs, PTL
  <2>2. AllSame'
    BY <1>8 DEF AllSame
  <2> QED BY <2>1, <2>2
<1> QED BY <1>9, <1>10 DEF Standing

\* A row that is posted as its type says, with the entry that moves its share.
LEMMA StandPost ==
    ASSUME TxInv, Standing, NEW source, NEW type \in Types,
           NEW debit, NEW credit, NEW amount \in Nat \ {0}, NEW lease, NEW category,
           NEW reference,
           PostWithRow(source, Transfer(debit, credit, amount, lease),
                       Row(type, category, amount, lease, reference)),
           Share(type, amount, source) = (IF debit = AR THEN amount ELSE 0)
                                           - (IF credit = AR THEN amount ELSE 0)
    PROVE  Standing'
<1>1. PICK n, m, lines, row :
         /\ n = Len(entries) /\ m = Len(transactions)
         /\ lines = Transfer(debit, credit, amount, lease)
         /\ row = Row(type, category, amount, lease, reference)
  OBVIOUS
<1>2. PostEntry(source, m + 1, lines) /\ transactions' = Append(transactions, row)
  BY <1>1 DEF PostWithRow
<1>3. TypeOK /\ IsTable(transactions)
  BY DEF TxInv, JournalInv
<1>4. n \in Nat /\ m \in Nat /\ DOMAIN entries = 1 .. n
  BY <1>1, <1>3, TableRows DEF TypeOK
<1>5. /\ DOMAIN entries' = DOMAIN entries \cup {n + 1}
      /\ entries'[n + 1].source = source /\ entries'[n + 1].lines = lines
      /\ entries'[n + 1].reversedBy = 0 /\ \A i \in DOMAIN entries : entries'[i] = entries[i]
  BY <1>1, <1>2, <1>3, PostKeeps
<1>6. /\ DOMAIN transactions' = 1 .. m + 1 /\ transactions'[m + 1] = row
      /\ \A t \in 1 .. m : transactions'[t] = transactions[t]
  BY <1>1, <1>2, <1>3, TableAppended
<1>7. row = [type |-> type, category |-> category, amount |-> amount, lease |-> lease,
             reference |-> reference, entry |-> n + 1, live |-> TRUE]
  BY <1>1 DEF Row
<1>8. /\ IsRow(row) /\ row.live = TRUE /\ row.entry = n + 1 /\ row.lease = lease
      /\ row.type = type /\ row.amount = amount
  BY <1>7 DEF IsRow
<1>9. Carries(row, entries'[n + 1])
  <2>1. PICK e : e = entries'[n + 1]
    OBVIOUS
  <2>2. /\ e.reversedBy = 0 /\ e.source = source
        /\ e.lines = Transfer(debit, credit, amount, lease)
    BY <1>1, <1>5, <2>1
  <2>3. /\ row.lease = lease /\ amount \in Nat
        /\ Share(row.type, row.amount, source)
             = (IF debit = AR THEN amount ELSE 0) - (IF credit = AR THEN amount ELSE 0)
    BY <1>8
  <2>4. Carries(row, e)
    BY <2>2, <2>3, CarriedBy
  <2> QED BY <2>1, <2>4
<1>10. 1 .. n + 1 = 1 .. n \cup {n + 1}
  BY <1>4
<1>11. ASSUME NEW k \in 1 .. 1
       PROVE  /\ IsRow(transactions'[m + k]) /\ transactions'[m + k].live = TRUE
              /\ transactions'[m + k].entry = n + k
              /\ Carries(transactions'[m + k], entries'[n + k])
  <2>1. m + k = m + 1 /\ n + k = n + 1
    BY <1>4
  <2> QED BY <1>6, <1>8, <1>9, <2>1
<1>12. DOMAIN entries' = 1 .. n + 1 /\ \A i \in 1 .. n : entries'[i] = entries[i]
  BY <1>4, <1>5, <1>10
<1>13. 1 \in Nat
  OBVIOUS
<1> QED BY <1>1, <1>4, <1>6, <1>11, <1>12, <1>13, StandGrow

\* What types of transactions put on the receivable.
LEMMA SidesAre ==
    ASSUME TransactionsAssumption, ReceivableApart, NEW type \in Types, NEW amount \in Nat,
           NEW category, category # "accounts_receivable", NEW gl, gl # AR
    PROVE  Share(type, amount, type)
             = (IF DebitAccount(type, category) = AR THEN amount ELSE 0)
                 - (IF CreditAccount(type, category, gl) = AR THEN amount ELSE 0)
<1>1. \A c \in Required : c # "accounts_receivable" => Mapped[c] # AR
  BY DEF TransactionsAssumption, ReceivableApart
<1>2. /\ Mapped["operating_bank"] # AR /\ Mapped["trust_bank"] # AR
      /\ Mapped["security_deposit"] # AR /\ Mapped["rent"] # AR /\ Mapped["repairs"] # AR
  BY <1>1 DEF Required
<1>3. MappedOr(category, "rent") # AR /\ MappedOr(category, "repairs") # AR
  BY <1>2 DEF MappedOr, ReceivableApart
<1>4. PICK debit, credit :
         debit = DebitAccount(type, category) /\ credit = CreditAccount(type, category, gl)
  OBVIOUS
<1>5. CASE type = "charge"
  <2>1. debit = AR /\ credit # AR
    BY <1>3, <1>4, <1>5 DEF DebitAccount, CreditAccount
  <2>2. Share(type, amount, type) = amount
    BY <1>5 DEF Share
  <2> QED BY <1>4, <2>1, <2>2
<1>6. CASE type = "payment"
  <2>1. debit # AR /\ credit = AR
    BY <1>2, <1>4, <1>6 DEF DebitAccount, CreditAccount
  <2>2. Share(type, amount, type) = -amount
    BY <1>6 DEF Share
  <2> QED BY <1>4, <2>1, <2>2
<1>7. CASE type = "deposit_deduction"
  <2>1. debit # AR /\ credit = AR
    BY <1>2, <1>4, <1>7 DEF DebitAccount, CreditAccount
  <2>2. Share(type, amount, type) = -amount
    BY <1>7 DEF Share
  <2> QED BY <1>4, <2>1, <2>2
<1>8. CASE type = "refund"
  <2>1. debit = AR /\ credit # AR
    BY <1>2, <1>4, <1>8 DEF DebitAccount, CreditAccount
  <2>2. Share(type, amount, type) = amount
    BY <1>8 DEF Share
  <2> QED BY <1>4, <2>1, <2>2
<1>9. CASE type \in {"expense", "deposit_inflow", "deposit_return"}
  <2>1. Share(type, amount, type) = 0
    BY <1>9 DEF Share
  <2>2. debit # AR
    BY <1>2, <1>3, <1>4, <1>9 DEF DebitAccount
  <2>3. credit # AR
    BY <1>2, <1>4, <1>9 DEF CreditAccount
  <2> QED BY <1>4, <2>1, <2>2, <2>3
<1> QED BY <1>5, <1>6, <1>7, <1>8, <1>9 DEF Types

LEMMA StandSame ==
    ASSUME Standing, UNCHANGED <<entries, transactions>> PROVE Standing'
<1>1. AllSame'
  <2>1. AllSame
    BY FollowsIs DEF Standing
  <2> QED BY <2>1 DEF AllSame, SameTotals, NetOn, PartOf
<1>2. LeaseLedgerFollowsRows'
  <2>1. LeaseLedgerFollowsRows' <=> AllSame'
    BY FollowsIs, PTL
  <2> QED BY <1>1, <2>1
<1>3. \A t \in DOMAIN transactions' : RowStands(t)'
  BY DEF Standing, RowStands
<1> QED BY <1>2, <1>3 DEF Standing

LEMMA StandEmpty ==
    ASSUME entries = << >>, transactions = << >> PROVE Standing
<1>1. ASSUME NEW x \in Leases PROVE SameTotals(x)
  <2>1. PICK f, g : /\ f = [i \in DOMAIN entries |-> NetOn(i, x)]
                    /\ g = [t \in DOMAIN transactions |-> PartOf(t, x)]
    OBVIOUS
  <2>2. f = << >> /\ g = << >>
    BY <2>1
  <2> QED BY <2>1, <2>2 DEF SameTotals
<1>2. LeaseLedgerFollowsRows
  BY <1>1, FollowsIs DEF AllSame
<1> QED BY <1>2 DEF Standing

LEMMA NoAccountIs == ASSUME TransactionsAssumption PROVE NoAccount # AR
<1>1. AR \in Accounts /\ NoAccount \notin AccountIds
  BY DEF TransactionsAssumption, Required, AR
<1> QED BY <1>1 DEF AccountIds

LEMMA StandCreate ==
    ASSUME TxInv, Standing, ReceivableApart, NEW type \in Types, NEW category,
           category # "accounts_receivable", NEW amount \in Int, NEW lease, NEW reference,
           NEW gl, gl # AR,
           CreateTransaction(type, category, amount, lease, reference, gl)
    PROVE  Standing'
<1>1. PICK a, debit, credit :
         /\ a = Magnitude(amount) /\ debit = DebitAccount(type, category)
         /\ credit = CreditAccount(type, category, gl)
  OBVIOUS
<1>2. a \in Nat \ {0}
  BY <1>1 DEF CreateTransaction, Magnitude
<1>3. PostWithRow(type, Transfer(debit, credit, a, lease),
                  Row(type, category, a, lease, reference))
  BY <1>1 DEF CreateTransaction
<1>4. a \in Nat /\ TransactionsAssumption
  BY <1>2 DEF TxInv
<1>5. Share(type, a, type)
        = (IF debit = AR THEN a ELSE 0) - (IF credit = AR THEN a ELSE 0)
  BY <1>1, <1>4, SidesAre
<1> QED BY <1>2, <1>3, <1>5, StandPost

\* The requests that post and delete single transactions.
LEMMA StandUse == ASSUME TxInv, Standing, ReceivableApart, UseTransactions PROVE Standing'
<1>1. ASSUME NEW input \in Inputs, CreateFromRequest(input) PROVE Standing'
  <2>1. input.type \in Types /\ input.amount \in Int /\ input.category # "accounts_receivable"
    BY DEF TxInv, TransactionsAssumption, ReceivableApart
  <2>2. CreateTransaction(input.type, input.category, input.amount, input.lease,
                          NoReference, NoAccount)
    BY <1>1 DEF CreateFromRequest
  <2>3. NoAccount # AR
    BY NoAccountIs DEF TxInv
  <2> QED BY <2>1, <2>2, <2>3, StandCreate
<1>2. ASSUME NEW t \in DOMAIN transactions, DeleteFromRequest(t) PROVE Standing'
  BY <1>2, DeleteTransactionStep, StandDelete
<1> QED BY <1>1, <1>2 DEF UseTransactions

\* Accounts that are mapped to other categories are not the receivable.
LEMMA OthersApart ==
    ASSUME TransactionsAssumption, ReceivableApart
    PROVE  /\ MappedOr("concessions", "rent") # AR
           /\ Mapped["security_deposit"] # AR /\ Mapped["trust_bank"] # AR
           /\ Mapped["operating_bank"] # AR
<1>1. \A c \in Required : c # "accounts_receivable" => Mapped[c] # AR
  BY DEF TransactionsAssumption, ReceivableApart
<1> QED BY <1>1 DEF Required, MappedOr, ReceivableApart

\* A disposition: the deductions pay what the tenant owes, the return does not
\* touch the receivable.
LEMMA StandDisposition ==
    ASSUME TxInv, Standing, ReceivableApart, NEW l \in Leases,
           NEW inputs \in Seq(DispositionRecords), PostDisposition(l, inputs),
           UNCHANGED liveRefs
    PROVE  Standing'
<1>1. PICK n \in Nat, m \in Nat, q \in Nat :
         n = Len(entries) /\ m = Len(transactions) /\ q = Len(inputs)
  BY TableRows DEF TxInv, JournalInv, TypeOK
<1>2. /\ TxInv'
      /\ DOMAIN transactions' = 1 .. m + q
      /\ \A t \in 1 .. m : transactions'[t] = transactions[t]
      /\ \A k \in 1 .. q :
            transactions'[m + k]
              = [type |-> inputs[k].type, category |-> inputs[k].category,
                 amount |-> inputs[k].amount, lease |-> l, reference |-> NoReference,
                 entry |-> n + k, live |-> TRUE]
      /\ DOMAIN entries' = 1 .. n + q
      /\ \A i \in 1 .. n : entries'[i] = entries[i]
      /\ \A k \in 1 .. q : Pays(entries'[n + k], inputs[k], l)
  BY <1>1, DispositionPosted
<1>3. ASSUME NEW k \in 1 .. q
      PROVE  /\ IsRow(transactions'[m + k]) /\ transactions'[m + k].live = TRUE
             /\ transactions'[m + k].entry = n + k
             /\ Carries(transactions'[m + k], entries'[n + k])
  <2>1. PICK input, row, e :
           input = inputs[k] /\ row = transactions'[m + k] /\ e = entries'[n + k]
    OBVIOUS
  <2>2. PICK type, category, amount :
           type = input.type /\ category = input.category /\ amount = input.amount
    OBVIOUS
  <2>3. row = [type |-> type, category |-> category, amount |-> amount, lease |-> l,
               reference |-> NoReference, entry |-> n + k, live |-> TRUE]
    BY <1>2, <2>1, <2>2
  <2>4. /\ row.type = type /\ row.amount = amount /\ row.lease = l /\ row.live = TRUE
        /\ row.entry = n + k
    BY <2>3
  <2>5. m + k \in DOMAIN transactions'
    BY <1>2
  <2>6. IsRow(row)
    BY <1>2, <2>1, <2>5 DEF TxInv
  <2>7. amount \in Nat
    BY <2>4, <2>6 DEF IsRow
  <2>8. type \in Types /\ category # "accounts_receivable"
    <3>1. input \in DispositionRecords
      BY <1>1, <2>1
    <3> QED BY <2>2, <3>1 DEF DispositionRecords, Types
  <2>9. PICK debit, credit :
           /\ debit = DebitAccount(type, category)
           /\ credit = CreditAccount(type, category, NoAccount)
    OBVIOUS
  <2>10. Share(type, amount, type)
           = (IF debit = AR THEN amount ELSE 0) - (IF credit = AR THEN amount ELSE 0)
    <3>1. TransactionsAssumption /\ NoAccount # AR
      BY NoAccountIs DEF TxInv
    <3> QED BY <2>7, <2>8, <2>9, <3>1, SidesAre
  <2>11. e.source = type /\ e.reversedBy = 0 /\ e.lines = Transfer(debit, credit, amount, l)
    <3>1. Pays(e, input, l)
      BY <1>2, <2>1
    <3> QED BY <2>2, <2>9, <3>1 DEF Pays
  <2>12. Carries(row, e)
    <3>1. row.lease = l /\ e.reversedBy = 0 /\ e.source = type
          /\ e.lines = Transfer(debit, credit, amount, l)
      BY <2>4, <2>11
    <3>2. Share(row.type, row.amount, type)
            = (IF debit = AR THEN amount ELSE 0) - (IF credit = AR THEN amount ELSE 0)
      BY <2>4, <2>10
    <3> QED BY <2>7, <3>1, <3>2, CarriedBy
  <2> QED BY <2>1, <2>4, <2>6, <2>12
<1>4. /\ DOMAIN entries' = 1 .. n + q /\ DOMAIN transactions' = 1 .. m + q
      /\ \A i \in 1 .. n : entries'[i] = entries[i]
      /\ \A t \in 1 .. m : transactions'[t] = transactions[t]
  BY <1>2
<1>5. n = Len(entries) /\ m = Len(transactions)
  BY <1>1
<1> QED BY <1>3, <1>4, <1>5, StandGrow

\* The receivable and the rows of leases, while deposits are refunded and
\* disposed of.
TrustStanding == TrustInv /\ ReceivableApart /\ Standing

LEMMA StandRefund ==
    ASSUME TrustStanding, NEW l \in Leases, NEW amount \in RefundAmounts,
           RefundDeposit(l, amount) \/ ReturnOverpayment(l, amount)
    PROVE  Standing'
<1>1. TxInv /\ TransactionsAssumption /\ ReceivableApart /\ Standing
  BY DEF TrustStanding, TrustInv, TxInv
<1>2. amount \in Nat \ {0}
  BY DEF RefundDeposit, ReturnOverpayment, TrustStanding, TrustInv, TrustAssumption,
         LeaseTrustAssumption
<1>3. PICK reference : reference = [kind |-> "deposit_refund", key |-> l, month |-> 0]
  OBVIOUS
<1>4. PICK owed, trust, bank :
         /\ owed = Mapped["security_deposit"] /\ trust = Mapped["trust_bank"]
         /\ bank = Mapped["operating_bank"]
  OBVIOUS
<1>5. owed # AR /\ trust # AR /\ bank # AR
  BY <1>1, <1>4, OthersApart
<1>6. CASE RefundDeposit(l, amount)
  <2>1. PostWithRow("deposit_refund", Transfer(owed, trust, amount, l),
                    Row("deposit_return", "security_deposit", amount, l, reference))
    BY <1>3, <1>4, <1>6 DEF RefundDeposit, RefundRow
  <2>2. "deposit_return" \in Types
    BY DEF Types
  <2>3. Share("deposit_return", amount, "deposit_refund") = 0
    BY DEF Share
  <2>4. Share("deposit_return", amount, "deposit_refund")
          = (IF owed = AR THEN amount ELSE 0) - (IF trust = AR THEN amount ELSE 0)
    BY <1>5, <2>3
  <2> QED BY <1>1, <1>2, <2>1, <2>2, <2>4, StandPost
<1>7. CASE ReturnOverpayment(l, amount)
  <2>1. PostWithRow("refund", Transfer(AR, bank, amount, l),
                    Row("refund", "rent", amount, l, reference))
    BY <1>3, <1>4, <1>7 DEF ReturnOverpayment, RefundRow
  <2>2. "refund" \in Types
    BY DEF Types
  <2>3. Share("refund", amount, "refund") = amount
    BY DEF Share
  <2>4. Share("refund", amount, "refund")
          = (IF AR = AR THEN amount ELSE 0) - (IF bank = AR THEN amount ELSE 0)
    BY <1>2, <1>5, <2>3
  <2> QED BY <1>1, <1>2, <2>1, <2>2, <2>4, StandPost
<1> QED BY <1>6, <1>7

LEMMA TrustStanded == TrustStanding /\ [TrustNext]_TrustVars => TrustStanding'
<1> SUFFICES ASSUME TrustStanding, [TrustNext]_TrustVars PROVE TrustStanding'
  OBVIOUS
<1>1. TrustInv' /\ TxInv /\ TrustInv /\ ReceivableApart /\ Standing
  BY TrustStep DEF TrustStanding, TrustInv
<1>0. ReceivableApart'
  BY <1>1 DEF ReceivableApart
<1> SUFFICES Standing'
  BY <1>1, <1>0 DEF TrustStanding
<1>2. CASE EnterContract
  <2>1. UNCHANGED <<entries, transactions>>
    BY <1>2 DEF EnterContract, CreateLease, UpdateLease, TxVars
  <2> QED BY <1>1, <2>1, StandSame
<1>3. CASE \E l \in Leases : DeleteLease(l) /\ UNCHANGED recorded
  <2>1. UNCHANGED <<entries, transactions>>
    BY <1>3 DEF DeleteLease, SoftDelete
  <2> QED BY <1>1, <2>1, StandSame
<1>4. CASE UseTransactions /\ UNCHANGED recorded
  BY <1>1, <1>4, StandUse
<1>5. CASE \E l \in Leases, amount \in RefundAmounts :
              RefundDeposit(l, amount) \/ ReturnOverpayment(l, amount)
  BY <1>5, StandRefund
<1>6. CASE \E l \in Leases, deductions \in DeductionLists :
              ProcessDepositDisposition(l, deductions)
  <2>1. PICK l \in Leases, deductions \in DeductionLists :
           ProcessDepositDisposition(l, deductions)
    BY <1>6
  <2>2. PICK inputs : inputs = DispositionInputs(l, deductions)
    OBVIOUS
  <2>3. l \in DOMAIN leases /\ PostDisposition(l, inputs) /\ UNCHANGED liveRefs
    BY <2>1, <2>2 DEF ProcessDepositDisposition, Known
  <2>4. inputs \in Seq(DispositionRecords)
    BY <1>1, <2>2, <2>3, DispositionIs
  <2> QED BY <1>1, <2>3, <2>4, StandDisposition
<1>7. CASE UNCHANGED TrustVars
  BY <1>1, <1>7, StandSame DEF TrustVars
<1> QED BY <1>2, <1>3, <1>4, <1>5, <1>6, <1>7 DEF TrustNext

\* Whatever is charged, paid, refunded, disposed of and deleted, the ledger's
\* receivable from a lease is what the single entries of the lease say, under
\* the condition that nobody posts to the receivable itself.
THEOREM LedgerOfDeposits ==
    TrustAssumption /\ ReceivableApart /\ TrustSpec => []LeaseLedgerFollowsRows
<1>1. TrustAssumption /\ ReceivableApart /\ TrustInit => TrustStanding
  BY TrustInitial, StandEmpty DEF TrustInit, LeasesInit, TrustStanding
<1>2. TrustStanding => LeaseLedgerFollowsRows
  BY DEF TrustStanding, Standing
<1> QED BY <1>1, <1>2, TrustStanded, PTL DEF TrustSpec

\* The receivable and the rows of leases, while tenants are charged.
ItemsApart ==
    \A item \in run.items : item.category # "accounts_receivable" /\ item.gl # AR
ChargesStanding == ChargesInv /\ ReceivableApart /\ ChargesApart /\ ItemsApart /\ Standing

LEMMA StandFee ==
    ASSUME ChargesStanding, NEW l \in Leases, NEW m \in Months, NEW day \in AssessmentDays,
           ApplyLateFee(l, m, day)
    PROVE  Standing'
<1>1. TxInv /\ TransactionsAssumption /\ ReceivableApart /\ Standing /\ ChargesInv
  BY DEF ChargesStanding, ChargesInv, TxInv
<1>2. PICK p, fee, reference, late :
        /\ p \in ActivePolicies /\ late = Mapped["late_fee"]
        /\ fee = LateFee(p, Overdue(l), day) /\ fee > 0
        /\ reference = [kind |-> "late_fee", key |-> l, month |-> m]
        /\ PostWithRow("late_fee", Transfer(AR, late, fee, l),
                       Row("charge", "late_fee", fee, l, reference))
  BY DEF ApplyLateFee
<1>3. fee \in Nat \ {0}
  <2>1. p \in PolicyInputs \cup {OwnPolicy}
    BY <1>1, <1>2 DEF ActivePolicies, ChargesInv, ChargesTyped
  <2>2. Overdue(l) \in Int
    BY <1>1, BalanceIs
  <2>3. fee \in Int
    BY <1>1, <1>2, <2>1, <2>2, FeeIs DEF ChargesInv, ChargesAssumption
  <2> QED BY <1>2, <2>3
<1>4. late # AR
  BY <1>1, <1>2 DEF ChargesStanding, ChargesApart, ReceivableApart
<1>5. Share("charge", fee, "late_fee") = fee
  BY DEF Share
<1>6. Share("charge", fee, "late_fee")
        = (IF AR = AR THEN fee ELSE 0) - (IF late = AR THEN fee ELSE 0)
  BY <1>3, <1>4, <1>5
<1>7. "charge" \in Types
  BY DEF Types
<1> QED BY <1>1, <1>2, <1>3, <1>6, <1>7, StandPost

LEMMA StandConcession ==
    ASSUME ChargesStanding, NEW l \in Leases, NEW amount \in CreditAmounts,
           NEW gl \in CreditAccounts, AddCreditConcession(l, amount, gl)
    PROVE  Standing'
<1>1. TxInv /\ TransactionsAssumption /\ ReceivableApart /\ Standing
  BY DEF ChargesStanding, ChargesInv, TxInv
<1>2. amount \in Nat \ {0}
  BY DEF AddCreditConcession, ChargesStanding, ChargesInv, ChargesAssumption,
         LeaseChargesAssumption
<1>3. PICK income :
        income = IF gl = NoAccount THEN MappedOr("concessions", "rent") ELSE gl
  OBVIOUS
<1>4. income # AR
  BY <1>1, <1>3, OthersApart DEF ChargesStanding, ChargesApart
<1>5. PostWithRow("credit_concession", Transfer(income, AR, amount, l),
                  Row("refund", "rent", amount, l, NoReference))
  BY <1>3 DEF AddCreditConcession
<1>6. Share("refund", amount, "credit_concession") = -amount
  BY DEF Share
<1>7. Share("refund", amount, "credit_concession")
        = (IF income = AR THEN amount ELSE 0) - (IF AR = AR THEN amount ELSE 0)
  BY <1>2, <1>4, <1>6
<1>8. "refund" \in Types
  BY DEF Types
<1> QED BY <1>1, <1>2, <1>5, <1>7, <1>8, StandPost

LEMMA StandCharge ==
    ASSUME ChargesStanding, NEW item \in run.items, ChargeItem(item)
    PROVE  Standing'
<1>1. TxInv /\ ReceivableApart /\ Standing
  BY DEF ChargesStanding, ChargesInv
<1>2. item.category # "accounts_receivable" /\ item.gl # AR
  BY DEF ChargesStanding, ItemsApart
<1>3. PICK amount \in item.amounts :
        CreateTransaction("charge", item.category, amount, item.lease, item.reference, item.gl)
  BY DEF ChargeItem
<1>4. amount \in Int /\ "charge" \in Types
  BY <1>3 DEF ChargesStanding, ChargesInv, RunTyped, IsItem, Types
<1> QED BY <1>1, <1>2, <1>3, <1>4, StandCreate

\* The items of a lease: its rent, and what users attached to it.
LEMMA ItemsOfLease ==
    ASSUME ChargesStanding, NEW l, NEW m, NEW item \in Items(l, m)
    PROVE  item.category # "accounts_receivable" /\ item.gl # AR
<1>1. CASE item = RentItem(l, m)
  <2>1. item.category = "rent" /\ item.gl = NoAccount
    BY <1>1 DEF RentItem
  <2>2. NoAccount # AR
    BY NoAccountIs DEF ChargesStanding, ChargesInv, TxInv
  <2> QED BY <2>1, <2>2
<1>2. ASSUME NEW c \in MonthlyCharges(l), item = RecurringItem(c, m)
      PROVE  item.category # "accounts_receivable" /\ item.gl # AR
  <2>1. item.category = recurring[c].input.category /\ item.gl = recurring[c].input.gl
    BY <1>2 DEF RecurringItem
  <2>2. recurring[c].input \in RecurringInputs
    BY DEF MonthlyCharges, ChargesStanding, ChargesInv, ChargesTyped, IsCharge
  <2> QED BY <2>1, <2>2 DEF ChargesStanding, ChargesApart
<1> QED BY <1>1, <1>2 DEF Items

LEMMA StandServe ==
    ASSUME ChargesStanding, run = Idle, ServeRequest
    PROVE  Standing' /\ run'.items = {}
<1>1. run.items = {}
  BY DEF Idle
<1>2. Standing /\ TxInv /\ ReceivableApart
  BY DEF ChargesStanding, ChargesInv
<1>3. CASE (ManageLeases \/ ManageContacts \/ UseTransactions)
             /\ UNCHANGED <<recurring, policies, closed, run>>
  <2>1. CASE UseTransactions
    BY <1>1, <1>2, <1>3, <2>1, StandUse
  <2>2. CASE ManageLeases \/ ManageContacts
    <3>1. UNCHANGED <<entries, transactions>>
      BY <2>2 DEF ManageLeases, ManageContacts, CreateLease, UpdateLease, UpdateLeaseStatus,
                  DeleteLease, DeleteNamed, SoftDelete, TxVars
    <3> QED BY <1>1, <1>2, <1>3, <3>1, StandSame
  <2> QED BY <1>3, <2>1, <2>2
<1>4. ASSUME NEW l \in Leases, NEW m \in Months, NEW day \in AssessmentDays,
             ApplyLateFee(l, m, day)
      PROVE  Standing' /\ run'.items = {}
  BY <1>1, <1>4, StandFee DEF ApplyLateFee
<1>5. ASSUME NEW l \in Leases, NEW amount \in CreditAmounts,
             NEW gl \in CreditAccounts, AddCreditConcession(l, amount, gl)
      PROVE  Standing' /\ run'.items = {}
  BY <1>1, <1>5, StandConcession DEF AddCreditConcession
<1>6. ASSUME NEW m \in Months, StartRun(m) PROVE Standing' /\ run'.items = {}
  <2>1. UNCHANGED <<entries, transactions>> /\ run'.items = {}
    BY <1>6 DEF StartRun
  <2> QED BY <1>2, <2>1, StandSame
<1>7. ASSUME UNCHANGED <<entries, transactions, run>> PROVE Standing' /\ run'.items = {}
  BY <1>1, <1>2, <1>7, StandSame
<1>8. ASSUME NEW l, NEW input, AddRecurringCharge(l, input)
      PROVE  Standing' /\ run'.items = {}
  BY <1>7, <1>8 DEF AddRecurringCharge, TxVars
<1>9. ASSUME NEW c, DeleteRecurringCharge(c) PROVE Standing' /\ run'.items = {}
  BY <1>7, <1>9 DEF DeleteRecurringCharge, TxVars
<1>10. ASSUME NEW p, CreatePolicy(p) \/ DeletePolicy(p) PROVE Standing' /\ run'.items = {}
  BY <1>7, <1>10 DEF CreatePolicy, DeletePolicy, TxVars
<1>11. ASSUME NEW a, CloseAccount(a) PROVE Standing' /\ run'.items = {}
  BY <1>7, <1>11 DEF CloseAccount, TxVars
<1> QED BY <1>3, <1>4, <1>5, <1>6, <1>8, <1>9, <1>10, <1>11 DEF ServeRequest

LEMMA ChargesStanded == ChargesStanding /\ [ChargesNext]_ChargeVars => ChargesStanding'
<1> SUFFICES ASSUME ChargesStanding, [ChargesNext]_ChargeVars PROVE ChargesStanding'
  OBVIOUS
<1>1. ChargesInv' /\ ChargesInv /\ ReceivableApart /\ ChargesApart /\ ItemsApart /\ Standing
  BY ChargesStep DEF ChargesStanding
<1>2. ReceivableApart' /\ ChargesApart'
  BY <1>1 DEF ReceivableApart, ChargesApart
<1> SUFFICES Standing' /\ ItemsApart'
  BY <1>1, <1>2 DEF ChargesStanding
<1>3. CASE run = Idle /\ ServeRequest
  BY <1>3, StandServe DEF ItemsApart
<1>4. PICK m, ls, is, k :
        run = [month |-> m, leases |-> ls, items |-> is, made |-> k]
  BY <1>1 DEF ChargesInv, RunTyped
<1>5. ASSUME UNCHANGED <<entries, transactions>>, run'.items \subseteq run.items
      PROVE  Standing' /\ ItemsApart'
  BY <1>1, <1>5, StandSame DEF ItemsApart
<1>6. CASE NextLease
  <2>1. PICK l : run'.items = Items(l, m)
    BY <1>4, <1>6 DEF NextLease
  <2>2. ItemsApart'
    BY <2>1, ItemsOfLease DEF ItemsApart
  <2>3. Standing'
    BY <1>1, <1>6, StandSame DEF NextLease
  <2> QED BY <2>2, <2>3
<1>7. ASSUME NEW item \in run.items, SkipItem(item) PROVE Standing' /\ ItemsApart'
  <2>1. run'.items \subseteq run.items
    BY <1>4, <1>7 DEF SkipItem
  <2> QED BY <1>5, <1>7, <2>1 DEF SkipItem
<1>8. ASSUME NEW item \in run.items, ChargeItem(item) PROVE Standing' /\ ItemsApart'
  <2>1. run'.items \subseteq run.items
    BY <1>4, <1>8 DEF ChargeItem
  <2>2. ItemsApart'
    BY <1>1, <2>1 DEF ItemsApart
  <2> QED BY <1>8, <2>2, StandCharge
<1>9. ASSUME run' = Idle, UNCHANGED <<entries, transactions>> PROVE Standing' /\ ItemsApart'
  BY <1>1, <1>9, StandSame DEF ItemsApart, Idle
<1>10. ASSUME NEW item, AbortRun(item) PROVE Standing' /\ ItemsApart'
  BY <1>9, <1>10 DEF AbortRun
<1>11. CASE EndRun \/ Crash
  BY <1>9, <1>11 DEF EndRun, Crash
<1>12. CASE UNCHANGED ChargeVars
  BY <1>5, <1>12 DEF ChargeVars
<1> QED BY <1>3, <1>6, <1>7, <1>8, <1>10, <1>11, <1>12 DEF ChargesNext, RunStep

\* Whatever is billed, assessed, conceded, deleted and cut off by a crash, the
\* ledger's receivable from a lease is what the single entries of the lease
\* say, under the condition that nobody posts to the receivable itself.
THEOREM LedgerOfCharges ==
    ChargesAssumption /\ ReceivableApart /\ ChargesApart /\ ChargesSpec
      => []LeaseLedgerFollowsRows
<1>1. ChargesAssumption /\ ReceivableApart /\ ChargesApart /\ ChargesInit => ChargesStanding
  BY ChargesInitial, StandEmpty
     DEF ChargesInit, LeasesInit, ChargesStanding, ItemsApart, Idle
<1>2. ChargesStanding => LeaseLedgerFollowsRows
  BY DEF ChargesStanding, Standing
<1> QED BY <1>1, <1>2, ChargesStanded, PTL DEF ChargesSpec

(***************************************************************************)
(* Rows that are older than the journal, and their backfill.               *)
(***************************************************************************)
\* A row that has an entry and the entry mirror each other, as rows do that
\* were never without; amounts of the old table may be 0.
BFInv ==
    /\ TransactionsAssumption
    /\ JournalInv /\ Len(entries) <= MaxEntries
    /\ IsTable(transactions) /\ \A t \in DOMAIN transactions : HasColumns(transactions[t])
    /\ \A t \in DOMAIN transactions : Posted(t) => MirrorOf(t)
    /\ \A i \in DOMAIN entries : EntryOfRow(i)

\* The rows that are due have the places from 1 to their number, each its own.
LEMMA PlacesAre ==
    ASSUME IsTable(transactions)
    PROVE  LET q == Cardinality(Due)
           IN  /\ q \in Nat
               /\ \A t \in Due : Place(t) \in 1 .. q
               /\ \A s, t \in Due : Place(s) = Place(t) => s = t
               /\ \A k \in 1 .. q : \E t \in Due : Place(t) = k
<1> DEFINE q == Cardinality(Due)
           upTo(t) == {s \in Due : s <= t}
           f == [t \in Due |-> Place(t)]
<1>1. PICK m \in Nat : DOMAIN transactions = 1 .. m
  BY TableRows
<1>2. Due \subseteq 1 .. m /\ IsFiniteSet(1 .. m)
  BY <1>1, FS_Interval DEF Due
<1>3. IsFiniteSet(Due) /\ q \in Nat
  BY <1>2, FS_Subset, FS_CardinalityType
<1>4. ASSUME NEW t \in Due
      PROVE  IsFiniteSet(upTo(t)) /\ Place(t) = Cardinality(upTo(t)) /\ Place(t) \in 1 .. q
  <2>1. upTo(t) \in SUBSET Due /\ t \in upTo(t)
    BY <1>2
  <2>2. IsFiniteSet(upTo(t)) /\ Cardinality(upTo(t)) <= q
    BY <1>3, <2>1, FS_Subset
  <2>3. Cardinality(upTo(t)) \in Nat /\ Cardinality(upTo(t)) # 0
    BY <2>1, <2>2, FS_CardinalityType, FS_EmptySet
  <2>4. Place(t) = Cardinality(upTo(t))
    BY DEF Place
  <2> HIDE DEF q, upTo
  <2> QED BY <1>3, <2>2, <2>3, <2>4
<1>5. ASSUME NEW s \in Due, NEW t \in Due, s < t PROVE Place(s) # Place(t)
  <2>1. ASSUME NEW x \in Due, x <= s PROVE x <= t
    BY <1>2, <1>5, <2>1
  <2>2. t <= t /\ ~(t <= s)
    BY <1>2, <1>5
  <2>3. upTo(s) \in SUBSET upTo(t) /\ t \in upTo(t) /\ t \notin upTo(s)
    BY <2>1, <2>2
  <2> HIDE DEF upTo
  <2>4. Cardinality(upTo(s)) # Cardinality(upTo(t))
    BY <1>4, <2>3, FS_Subset
  <2> QED BY <1>4, <2>4
<1>6. ASSUME NEW s \in Due, NEW t \in Due, Place(s) = Place(t) PROVE s = t
  <2>1. s = t \/ s < t \/ t < s
    BY <1>2
  <2> QED BY <1>5, <1>6, <2>1
<1>7. f \in Injection(Due, 1 .. q)
  BY <1>4, <1>6 DEF Injection, IsInjective
<1>8. IsFiniteSet(1 .. q) /\ Cardinality(1 .. q) = q
  <2> HIDE DEF q
  <2> QED BY <1>3, FS_Interval
<1>9. f \in Surjection(Due, 1 .. q)
  <2> HIDE DEF f
  <2> QED BY <1>7, <1>8, FS_Injection
<1>10. ASSUME NEW k \in 1 .. q PROVE \E t \in Due : Place(t) = k
  BY <1>9 DEF Surjection
<1> QED BY <1>3, <1>4, <1>6, <1>10

\* The row whose turn it is.
LEMMA TurnOf ==
    ASSUME IsTable(transactions), NEW t \in Due
    PROVE  (CHOOSE row \in Due : Place(row) = Place(t)) = t
<1>1. \A s \in Due : Place(s) = Place(t) => s = t
  BY PlacesAre
<1> QED BY <1>1

\* What a backfill makes of the two tables.
Filled(n, q) ==
    /\ DOMAIN entries' = 1 .. n + q /\ \A i \in 1 .. n : entries'[i] = entries[i]
    /\ \A t \in Due :
          /\ Place(t) \in 1 .. q
          /\ entries'[n + Place(t)]
               = [number |-> n + Place(t), source |-> transactions[t].type, doc |-> t,
                  lines |-> LegacyLines(transactions[t]), reversedBy |-> 0]
          /\ Valid(LegacyLines(transactions[t]))
          /\ Debits(LegacyLines(transactions[t])) = transactions[t].amount
          /\ transactions'[t]
               = [type |-> transactions[t].type, category |-> transactions[t].category,
                  amount |-> transactions[t].amount, lease |-> transactions[t].lease,
                  reference |-> transactions[t].reference, entry |-> n + Place(t),
                  live |-> TRUE]
    /\ \A k \in 1 .. q : \E t \in Due : Place(t) = k
    /\ DOMAIN transactions' = DOMAIN transactions
    /\ \A t \in DOMAIN transactions \ Due : transactions'[t] = transactions[t]

\* The entry of a row that is due.
LEMMA LegacyEntry ==
    ASSUME BFInv, NEW t \in Due, MayPost(LegacyLines(transactions[t]), TRUE)
    PROVE  /\ Valid(LegacyLines(transactions[t]))
           /\ Debits(LegacyLines(transactions[t])) = transactions[t].amount
           /\ LegacyLines(transactions[t]) \in Seq(Lines)
           /\ transactions[t].type \in Types
<1>1. PICK type, category, amount, lease, debit, credit, lines :
         /\ type = transactions[t].type /\ category = transactions[t].category
         /\ amount = transactions[t].amount /\ lease = transactions[t].lease
         /\ debit = DebitAccount(type, category)
         /\ credit = CreditAccount(type, category, NoAccount)
         /\ lines = LegacyLines(transactions[t])
  OBVIOUS
<1>2. lines = Transfer(debit, credit, amount, lease)
  BY <1>1 DEF LegacyLines
<1>3. type \in Types /\ amount \in Nat /\ liveRefs \subseteq Refs /\ TransactionsAssumption
  BY <1>1 DEF BFInv, HasColumns, Due, JournalInv, TypeOK
<1>4. Valid(lines)
  <2>1. MayPost(lines, TRUE)
    BY <1>1
  <2> QED BY <1>3, <2>1, MayPostIsValid
<1>5. lease \in {NoRef} \cup Refs
  <2>1. PICK d : d = [account |-> debit, debit |-> amount, credit |-> 0, ref |-> lease]
    OBVIOUS
  <2>2. d.ref = lease /\ 1 \in DOMAIN lines /\ lines[1] = d
    BY <1>2, <2>1 DEF Transfer
  <2> QED BY <1>4, <2>2 DEF Valid
<1>6. debit \in Accounts /\ credit \in Accounts
  BY <1>1, <1>3, AccountsAre
<1>7. lines \in Seq(LineInputs) /\ Debits(lines) = amount
  BY <1>2, <1>3, <1>5, <1>6, TransferIs
<1>8. lines \in Seq(Lines)
  BY <1>4, <1>7, ValidLines
<1> QED BY <1>1, <1>3, <1>4, <1>7, <1>8

LEMMA BackfillWrites ==
    ASSUME BFInv, BackfillRows
    PROVE  /\ JournalInv' /\ Kept /\ IsTable(transactions')
           /\ Cardinality(Due) \in Nat /\ Filled(Len(entries), Cardinality(Due))
<1>1. PICK n \in Nat, q \in Nat :
         /\ n = Len(entries) /\ q = Cardinality(Due) /\ DOMAIN entries = 1 .. n
         /\ entries \in Seq(Entries) /\ IsTable(transactions)
         /\ \A t \in Due : Place(t) \in 1 .. q
         /\ \A k \in 1 .. q : \E t \in Due : Place(t) = k
  <2>1. IsTable(transactions) /\ entries \in Seq(Entries)
    BY DEF BFInv, JournalInv, TypeOK
  <2> QED BY <2>1, PlacesAre
<1>2. PICK es : es = [k \in 1 .. q |-> BackfilledEntry(k)]
  OBVIOUS
<1>3. /\ n + q <= MaxEntries /\ \A t \in Due : MayPost(LegacyLines(transactions[t]), TRUE)
      /\ entries' = entries \o es /\ UNCHANGED liveRefs
      /\ transactions' =
           [t \in DOMAIN transactions |->
              IF t \in Due THEN [transactions[t] EXCEPT !.entry = n + Place(t)]
              ELSE transactions[t]]
  BY <1>1, <1>2 DEF BackfillRows
<1>4. ASSUME NEW t \in Due
      PROVE  /\ transactions[t].type \in Types /\ t \in Nat
             /\ Valid(LegacyLines(transactions[t]))
             /\ Debits(LegacyLines(transactions[t])) = transactions[t].amount
             /\ LegacyLines(transactions[t]) \in Seq(Lines)
  <2>1. MayPost(LegacyLines(transactions[t]), TRUE)
    BY <1>3, Zenon
  <2>2. PICK m \in Nat : DOMAIN transactions = 1 .. m
    BY <1>1, TableRows
  <2>3. t \in Nat
    BY <2>2 DEF Due
  <2> QED BY <2>1, <2>3, LegacyEntry
<1>5. ASSUME NEW t \in Due
      PROVE  /\ es[Place(t)]
                  = [number |-> n + Place(t), source |-> transactions[t].type, doc |-> t,
                     lines |-> LegacyLines(transactions[t]), reversedBy |-> 0]
             /\ es[Place(t)] \in Entries
  <2>1. PICK k \in 1 .. q : k = Place(t)
    BY <1>1
  <2>2. es[k] = [NewEntry(transactions[t].type, t, LegacyLines(transactions[t]))
                   EXCEPT !.number = NextNumber + k - 1]
    BY <1>1, <1>2, <2>1, TurnOf DEF BackfilledEntry
  <2>3. NextNumber = n + 1
    BY <1>1, NextNumberIs DEF BFInv, JournalInv
  <2>4. PICK so, li : so = transactions[t].type /\ li = LegacyLines(transactions[t])
    OBVIOUS
  <2>5. es[k] = [[number |-> n + 1, source |-> so, doc |-> t, lines |-> li,
                  reversedBy |-> 0] EXCEPT !.number = n + 1 + k - 1]
    BY <2>2, <2>3, <2>4 DEF NewEntry
  <2>6. n + 1 + k - 1 = n + k
    OBVIOUS
  <2>7. es[k] = [number |-> n + k, source |-> so, doc |-> t, lines |-> li, reversedBy |-> 0]
    BY <2>5, <2>6
  <2>8. so \in Sources /\ li \in Seq(Lines) /\ t \in Nat
    BY <1>4, <2>4 DEF Types, Sources, DocumentSources
  <2>9. es[k] \in Entries
    BY <2>7, <2>8 DEF Entries
  <2> QED BY <2>1, <2>4, <2>7, <2>9
<1>6. ASSUME NEW k \in 1 .. q PROVE es[k] \in Entries
  <2>1. PICK t \in Due : Place(t) = k
    BY <1>1
  <2> QED BY <1>5, <2>1
<1>7. /\ entries' \in Seq(Entries) /\ Len(entries') = n + q /\ DOMAIN entries' = 1 .. n + q
      /\ \A i \in 1 .. n : entries'[i] = entries[i]
      /\ \A k \in 1 .. q : entries'[n + k] = es[k]
  <2>1. es \in Seq(Entries) /\ Len(es) = q
    BY <1>2, <1>6
  <2>2. PICK both : both = entries \o es
    OBVIOUS
  <2>3. /\ both \in Seq(Entries) /\ Len(both) = n + q
        /\ \A j \in 1 .. n + q : both[j] = IF j <= n THEN entries[j] ELSE es[j - n]
    <3>1. /\ both \in Seq(Entries) /\ Len(both) = Len(entries) + Len(es)
          /\ \A j \in 1 .. Len(entries) + Len(es) :
                both[j] = IF j <= Len(entries) THEN entries[j] ELSE es[j - Len(entries)]
      BY <1>1, <2>1, <2>2, Joined
    <3> QED BY <1>1, <2>1, <3>1
  <2>4. entries' = both
    BY <1>3, <2>2
  <2>5. ASSUME NEW k \in 1 .. q
        PROVE  n + k \in 1 .. n + q /\ ~(n + k <= n) /\ n + k - n = k
    OBVIOUS
  <2>6. ASSUME NEW i \in 1 .. n PROVE i \in 1 .. n + q /\ i <= n
    OBVIOUS
  <2> QED BY <2>3, <2>4, <2>5, <2>6
<1>8. JournalInv'
  <2>1. PICK m \in Nat : m = n + q /\ n <= m
    OBVIOUS
  <2>2. ASSUME NEW i \in (n + 1) .. m
        PROVE  /\ entries'[i].number = i /\ Valid(entries'[i].lines)
               /\ entries'[i].reversedBy = 0 /\ ~IsReversal(i)'
    <3>1. PICK k \in 1 .. q : i = n + k
      <4>1. i - n \in 1 .. q /\ i = n + (i - n)
        BY <2>1
      <4> QED BY <4>1
    <3>2. PICK t \in Due : Place(t) = k
      BY <1>1
    <3>3. PICK so, li : so = transactions[t].type /\ li = LegacyLines(transactions[t])
      OBVIOUS
    <3>4. entries'[i] = [number |-> i, source |-> so, doc |-> t, lines |-> li,
                         reversedBy |-> 0]
      BY <1>5, <1>7, <3>1, <3>2, <3>3
    <3>5. so # "reversal" /\ Valid(li)
      BY <1>4, <3>3 DEF Types
    <3> QED BY <3>4, <3>5 DEF IsReversal
  <2>3. liveRefs' \subseteq Refs /\ JournalInv
    BY <1>3 DEF BFInv, JournalInv, TypeOK
  <2> QED BY <1>1, <1>7, <2>1, <2>2, <2>3, AddedPreserve
<1>9. Kept
  <2>1. 1 .. n \subseteq 1 .. n + q
    OBVIOUS
  <2> QED BY <1>1, <1>3, <1>7, <2>1 DEF Kept
<1>10. ASSUME NEW t \in Due
       PROVE  transactions'[t]
                = [type |-> transactions[t].type, category |-> transactions[t].category,
                   amount |-> transactions[t].amount, lease |-> transactions[t].lease,
                   reference |-> transactions[t].reference, entry |-> n + Place(t),
                   live |-> TRUE]
  <2>1. PICK old : old = transactions[t]
    OBVIOUS
  <2>2. t \in DOMAIN transactions /\ HasColumns(old) /\ old.live
    BY <2>1 DEF Due, BFInv
  <2>3. old.live = TRUE
    BY <2>2 DEF HasColumns
  <2>4. PICK ty, ca, am, le, re, en :
           old = [type |-> ty, category |-> ca, amount |-> am, lease |-> le,
                  reference |-> re, entry |-> en, live |-> TRUE]
    BY <2>2, <2>3 DEF HasColumns
  <2>5. ASSUME NEW no, NEW yes
        PROVE  [[type |-> ty, category |-> ca, amount |-> am, lease |-> le,
                 reference |-> re, entry |-> en, live |-> yes] EXCEPT !.entry = no]
                  = [type |-> ty, category |-> ca, amount |-> am, lease |-> le,
                     reference |-> re, entry |-> no, live |-> yes]
    OBVIOUS
  <2>6. transactions'[t] = [old EXCEPT !.entry = n + Place(t)]
    BY <1>3, <2>1, <2>2
  <2>7. transactions'[t] = [type |-> ty, category |-> ca, amount |-> am, lease |-> le,
                            reference |-> re, entry |-> n + Place(t), live |-> TRUE]
    BY <2>4, <2>5, <2>6
  <2>8. /\ old.type = ty /\ old.category = ca /\ old.amount = am /\ old.lease = le
        /\ old.reference = re
    BY <2>4
  <2> QED BY <2>1, <2>7, <2>8
<1>11. /\ DOMAIN transactions' = DOMAIN transactions
       /\ \A t \in DOMAIN transactions \ Due : transactions'[t] = transactions[t]
       /\ IsTable(transactions')
  <2>1. PICK S : S = {transactions'[t] : t \in DOMAIN transactions}
    OBVIOUS
  <2>2. PICK m \in Nat : DOMAIN transactions = 1 .. m
    BY <1>1, TableRows
  <2>3. transactions' \in [1 .. m -> S]
    BY <1>3, <2>1, <2>2
  <2> QED BY <1>3, <2>3, TableFrom
<1>12. Filled(n, q)
  BY <1>1, <1>4, <1>5, <1>7, <1>10, <1>11 DEF Filled
<1> QED BY <1>1, <1>8, <1>9, <1>11, <1>12

LEMMA BackfillStep == BFInv /\ BackfillRows => BFInv'
<1> SUFFICES ASSUME BFInv, BackfillRows PROVE BFInv'
  OBVIOUS
<1>0. PICK n, q : n = Len(entries) /\ q = Cardinality(Due)
  OBVIOUS
<1>1. n \in Nat /\ q \in Nat /\ DOMAIN entries = 1 .. n /\ Filled(n, q)
  <2>1. n \in Nat /\ DOMAIN entries = 1 .. n
    BY <1>0 DEF BFInv, JournalInv, TypeOK
  <2> QED BY <1>0, <2>1, BackfillWrites
<1>2. JournalInv' /\ Kept /\ IsTable(transactions') /\ TransactionsAssumption'
  BY BackfillWrites DEF BFInv, TransactionsAssumption
<1>3. DOMAIN transactions' = DOMAIN transactions
  BY <1>1 DEF Filled
<1>4. ASSUME NEW t \in Due
      PROVE  /\ HasColumns(transactions'[t]) /\ MirrorOf(t)'
             /\ transactions'[t].entry = n + Place(t) /\ n + Place(t) \in 1 .. n + q
             /\ n + Place(t) \notin 1 .. n
  <2>1. PICK old, row, e, i :
           /\ old = transactions[t] /\ row = transactions'[t] /\ i = n + Place(t)
           /\ e = entries'[i]
    OBVIOUS
  <2>2. HasColumns(old)
    BY <2>1 DEF BFInv, Due
  <2>3. /\ row = [type |-> old.type, category |-> old.category, amount |-> old.amount,
                  lease |-> old.lease, reference |-> old.reference, entry |-> i,
                  live |-> TRUE]
        /\ e = [number |-> i, source |-> old.type, doc |-> t,
                lines |-> LegacyLines(old), reversedBy |-> 0]
        /\ Debits(LegacyLines(old)) = old.amount /\ Place(t) \in 1 .. q
    BY <1>1, <2>1 DEF Filled
  <2>4. HasColumns(row) /\ row.amount = old.amount /\ row.live = TRUE /\ row.entry = i
    BY <2>2, <2>3 DEF HasColumns
  <2>5. i \in 1 .. n + q /\ i \notin 1 .. n
    BY <1>1, <2>1, <2>3
  <2>6. e.doc = t /\ e.source # "reversal" /\ Debits(e.lines) = old.amount
    BY <2>2, <2>3 DEF HasColumns, Types
  <2>7. i \in DOMAIN entries'
    BY <1>1, <2>5 DEF Filled
  <2> QED BY <2>1, <2>4, <2>5, <2>6, <2>7 DEF MirrorOf
<1>5. ASSUME NEW t \in DOMAIN transactions
      PROVE  HasColumns(transactions'[t]) /\ (Posted(t)' => MirrorOf(t)')
  <2>1. CASE t \in Due
    BY <1>4, <2>1
  <2>2. CASE t \notin Due
    <3>1. transactions'[t] = transactions[t] /\ HasColumns(transactions[t])
          /\ (Posted(t) => MirrorOf(t))
      BY <1>1, <2>2 DEF Filled, BFInv
    <3> QED BY <1>2, <3>1 DEF Posted, MirrorOf, Kept
  <2> QED BY <2>1, <2>2
<1>6. ASSUME NEW i \in DOMAIN entries' PROVE EntryOfRow(i)'
  <2>1. CASE i \in 1 .. n
    <3>1. EntryOfRow(i) /\ entries'[i] = entries[i]
      BY <1>1, <2>1 DEF Filled, BFInv
    <3>2. ASSUME entries[i].doc # 0, entries[i].source # "reversal"
          PROVE  /\ entries[i].doc \in DOMAIN transactions
                 /\ transactions'[entries[i].doc].entry = i
      <4>1. /\ entries[i].doc \in DOMAIN transactions
            /\ transactions[entries[i].doc].entry = i
        BY <3>1, <3>2 DEF EntryOfRow
      <4>2. i # 0
        BY <2>1
      <4>3. entries[i].doc \notin Due
        BY <4>1, <4>2 DEF Due, Posted
      <4> QED BY <1>1, <4>1, <4>3 DEF Filled
    <3> QED BY <1>3, <3>1, <3>2 DEF EntryOfRow
  <2>2. CASE i \notin 1 .. n
    <3>1. PICK k \in 1 .. q : i = n + k
      <4>1. i \in 1 .. n + q
        BY <1>1 DEF Filled
      <4>2. i - n \in 1 .. q /\ i = n + (i - n)
        BY <1>1, <2>2, <4>1
      <4> QED BY <4>2
    <3>2. PICK t \in Due : Place(t) = k
      BY <1>1 DEF Filled
    <3>3. entries'[i].doc = t /\ transactions'[t].entry = i /\ t \in DOMAIN transactions
      <4>1. PICK old : old = transactions[t]
        OBVIOUS
      <4>2. entries'[i] = [number |-> i, source |-> old.type, doc |-> t,
                           lines |-> LegacyLines(old), reversedBy |-> 0]
        BY <1>1, <3>1, <3>2, <4>1 DEF Filled
      <4> QED BY <1>4, <3>1, <3>2, <4>2 DEF Due
    <3> QED BY <1>3, <3>3 DEF EntryOfRow
  <2> QED BY <2>1, <2>2
<1>7. Len(entries') <= MaxEntries
  BY <1>2 DEF Kept
<1> QED BY <1>2, <1>3, <1>5, <1>6, <1>7 DEF BFInv

LEMMA CreateBeside == \A input \in Inputs : BFInv /\ CreateFromRequest(input) => BFInv'
<1> SUFFICES ASSUME BFInv, NEW input \in Inputs, CreateFromRequest(input) PROVE BFInv'
  OBVIOUS
<1>1. PICK type, category, amount, lease :
         /\ type = input.type /\ category = input.category /\ lease = input.lease
         /\ amount = Magnitude(input.amount)
  OBVIOUS
<1>2. /\ TransactionsAssumption /\ JournalInv /\ IsTable(transactions)
      /\ liveRefs' \subseteq Refs
  BY DEF BFInv, CreateFromRequest, JournalInv, TypeOK
<1>3. /\ type \in Types /\ type \in Sources /\ type # "reversal" /\ amount \in Nat \ {0}
  BY <1>1, <1>2 DEF TransactionsAssumption, CreateFromRequest, CreateTransaction, Magnitude,
                    Types, Sources, DocumentSources
<1>4. PICK debit, credit :
         PostWithRow(type, Transfer(debit, credit, amount, lease),
                     Row(type, category, amount, lease, NoReference))
  BY <1>1 DEF CreateFromRequest, CreateTransaction
<1>5. PICK t0, i, row :
         /\ t0 = Len(transactions) + 1 /\ i = Len(entries) + 1
         /\ row = [type |-> type, category |-> category, amount |-> amount, lease |-> lease,
                   reference |-> NoReference, entry |-> i, live |-> TRUE]
  OBVIOUS
<1>6. /\ JournalInv' /\ IsTable(transactions') /\ IsRow(row) /\ Adds(type, row)
      /\ DOMAIN entries' = DOMAIN entries \cup {i} /\ i \notin DOMAIN entries
      /\ \A j \in DOMAIN entries : entries'[j] = entries[j]
      /\ entries'[i].doc = t0 /\ Debits(entries'[i].lines) = amount
  BY <1>2, <1>3, <1>4, <1>5, PostRowWrites
<1>7. row.amount = amount /\ row.entry = i /\ row.live = TRUE
  BY <1>5
<1>8. /\ transactions'[t0] = row /\ entries'[i].source = type
      /\ DOMAIN transactions' = DOMAIN transactions \cup {t0} /\ t0 \notin DOMAIN transactions
      /\ \A t \in DOMAIN transactions : transactions'[t] = transactions[t]
      /\ Kept
  BY <1>5, <1>6 DEF Adds
<1>9. ASSUME NEW t \in DOMAIN transactions'
      PROVE  HasColumns(transactions'[t]) /\ (Posted(t)' => MirrorOf(t)')
  <2>1. CASE t = t0
    BY <1>3, <1>6, <1>7, <1>8, <2>1 DEF MirrorOf, IsRow, HasColumns
  <2>2. CASE t # t0
    <3>1. /\ t \in DOMAIN transactions /\ transactions'[t] = transactions[t]
          /\ (Posted(t) => MirrorOf(t)) /\ HasColumns(transactions[t])
      BY <1>8, <2>2 DEF BFInv
    <3> QED BY <1>6, <3>1 DEF MirrorOf, Posted
  <2> QED BY <2>1, <2>2
<1>10. ASSUME NEW j \in DOMAIN entries' PROVE EntryOfRow(j)'
  <2>1. CASE j = i
    BY <1>6, <1>7, <1>8, <2>1 DEF EntryOfRow
  <2>2. CASE j # i
    <3>1. j \in DOMAIN entries /\ entries'[j] = entries[j] /\ EntryOfRow(j)
      BY <1>6, <2>2 DEF BFInv
    <3> QED BY <1>8, <3>1 DEF EntryOfRow
  <2> QED BY <2>1, <2>2
<1>11. TransactionsAssumption' /\ Len(entries') <= MaxEntries
  BY <1>8 DEF BFInv, TransactionsAssumption, Kept
<1> QED BY <1>6, <1>9, <1>10, <1>11 DEF BFInv

LEMMA DeleteBeside ==
    \A t \in DOMAIN transactions : BFInv /\ DeleteFromRequest(t) => BFInv'
<1> SUFFICES ASSUME BFInv, NEW t \in DOMAIN transactions, DeleteFromRequest(t) PROVE BFInv'
  OBVIOUS
<1>1. PICK i, old, new :
         /\ i = transactions[t].entry /\ old = transactions[t]
         /\ new = [type |-> old.type, category |-> old.category, amount |-> old.amount,
                   lease |-> old.lease, reference |-> old.reference, entry |-> i,
                   live |-> FALSE]
  OBVIOUS
<1>2. /\ JournalInv /\ Len(entries) <= MaxEntries /\ IsTable(transactions)
      /\ HasColumns(transactions[t]) /\ (Posted(t) => MirrorOf(t))
      /\ (Posted(t) => i \in DOMAIN entries)
  BY <1>1 DEF BFInv, MirrorOf
<1>3. /\ JournalInv' /\ IsTable(transactions') /\ Deletes(t)
      /\ (Posted(t) => entries'[i].reversedBy # 0)
      /\ \A j \in DOMAIN entries' \ DOMAIN entries : entries'[j].source = "reversal"
  BY <1>1, <1>2, DeleteWrites
<1>4. /\ DOMAIN transactions' = DOMAIN transactions /\ transactions'[t] = new
      /\ \A s \in DOMAIN transactions : s # t => transactions'[s] = transactions[s]
      /\ Kept
  BY <1>1, <1>3 DEF Deletes
<1>5. /\ HasColumns(new) /\ new.live = FALSE /\ new.entry = i /\ new.amount = old.amount
  BY <1>1, <1>2 DEF HasColumns
<1>6. ASSUME NEW s \in DOMAIN transactions
      PROVE  HasColumns(transactions'[s]) /\ (Posted(s)' => MirrorOf(s)')
  <2>1. (Posted(s) => MirrorOf(s)) /\ HasColumns(transactions[s])
    BY DEF BFInv
  <2>2. transactions'[s].entry = transactions[s].entry
        /\ transactions'[s].amount = transactions[s].amount
    BY <1>1, <1>4, <1>5
  <2>3. Posted(s)' <=> Posted(s)
    BY <2>2 DEF Posted
  <2>4. ASSUME Posted(s), ~transactions'[s].live
        PROVE  entries'[transactions'[s].entry].reversedBy # 0
    <3>1. CASE s = t
      BY <1>1, <1>3, <2>2, <2>4, <3>1
    <3>2. CASE s # t
      BY <1>4, <2>1, <2>2, <2>4, <3>2 DEF MirrorOf, Kept
    <3> QED BY <3>1, <3>2
  <2>5. HasColumns(transactions'[s])
    BY <1>4, <1>5, <2>1
  <2>6. Posted(s) => MirrorOf(s)'
    BY <1>4, <2>1, <2>2, <2>4 DEF MirrorOf, Kept
  <2> QED BY <2>3, <2>5, <2>6
<1>7. ASSUME NEW j \in DOMAIN entries' PROVE EntryOfRow(j)'
  <2>1. CASE j \notin DOMAIN entries
    BY <1>3, <2>1 DEF EntryOfRow
  <2>2. CASE j \in DOMAIN entries
    <3>1. /\ EntryOfRow(j)
          /\ \A s \in DOMAIN transactions : transactions'[s].entry = transactions[s].entry
      BY <1>1, <1>4, <1>5, <2>2 DEF BFInv
    <3> QED BY <1>4, <2>2, <3>1 DEF EntryOfRow, Kept
  <2> QED BY <2>1, <2>2
<1>8. TransactionsAssumption' /\ Len(entries') <= MaxEntries
  BY <1>4 DEF BFInv, TransactionsAssumption, Kept
<1> QED BY <1>3, <1>4, <1>6, <1>7, <1>8 DEF BFInv

LEMMA BFStep == BFInv /\ [BFNext]_TxVars => BFInv'
<1> SUFFICES ASSUME BFInv, [BFNext]_TxVars PROVE BFInv'
  OBVIOUS
<1>1. CASE BackfillRows
  BY <1>1, BackfillStep
<1>2. CASE \/ \E input \in Inputs : CreateFromRequest(input)
           \/ \E t \in DOMAIN transactions : DeleteFromRequest(t)
  BY <1>2, CreateBeside, DeleteBeside
<1>3. CASE DeleteReference \/ UNCHANGED TxVars
  <2>1. UNCHANGED <<entries, transactions>> /\ liveRefs' \subseteq Refs
    BY <1>3 DEF DeleteReference, SoftDelete, TxVars, BFInv, JournalInv, TypeOK
  <2>2. JournalInv'
    BY <2>1, JournalKept DEF BFInv
  <2> QED BY <2>1, <2>2 DEF BFInv, TransactionsAssumption, MirrorOf,
                            EntryOfRow, Posted
<1> QED BY <1>1, <1>2, <1>3 DEF BFNext, TxNextThroughTransactions

LEMMA BFInitial == BackfillAssumption /\ BFInit => BFInv
<1> SUFFICES ASSUME BackfillAssumption, BFInit PROVE BFInv
  OBVIOUS
<1>1. JournalInv /\ entries = <<>> /\ Len(entries) <= MaxEntries
  BY JournalInit, JournalAssumption DEF BFInit, Init
<1>2. transactions \in Seq(LegacyRows)
  BY DEF BackfillAssumption, BFInit
<1>3. ASSUME NEW t \in DOMAIN transactions
      PROVE  HasColumns(transactions[t]) /\ ~Posted(t)
  <2>1. transactions[t] \in LegacyRows
    BY <1>2
  <2> QED BY <2>1 DEF LegacyRows, HasColumns, Posted
<1>4. IsTable(transactions)
  BY <1>2, TableOf
<1> QED BY <1>1, <1>3, <1>4 DEF BFInv, BackfillAssumption

\* Whenever a backfill is asked for, and whatever is posted and deleted before
\* and after it, old rows and new ones that have an entry are its mirror, each
\* of one, and the entries stay balanced, paired and reversible.
THEOREM BackfillsMirrored ==
    BackfillAssumption /\ BFSpec
      => [](BFTypeOK /\ RowsMirrorEntries /\ EntriesBalanced /\ ReversalsPaired
              /\ AlwaysReversible)
<1>1. BFInv => BFTypeOK
  <2> SUFFICES ASSUME BFInv PROVE BFTypeOK
    OBVIOUS
  <2>1. ASSUME NEW t \in DOMAIN transactions
        PROVE  /\ transactions[t].type \in Types /\ transactions[t].amount \in Nat
               /\ transactions[t].entry \in {0} \cup DOMAIN entries
    BY DEF BFInv, HasColumns, Posted, MirrorOf
  <2> QED BY <2>1 DEF BFTypeOK, BFInv, JournalInv
<1>2. BFInv => RowsMirrorEntries
  BY DEF BFInv, MirrorOf, EntryOfRow, RowsMirrorEntries, IsReversal
<1>3. BFInv => EntriesBalanced /\ ReversalsPaired /\ AlwaysReversible
  BY JournalImplies DEF BFInv
<1> QED BY <1>1, <1>2, <1>3, BFInitial, BFStep, PTL DEF BFSpec

\* What tenants owe while entries are reversed through their rows only: a row
\* that is left has an entry in force that moves its share, and every entry is
\* that of a row or undoes one.
Moves(t) ==
    Posted(t) =>
        /\ entries[transactions[t].entry].lines = LegacyLines(transactions[t])
        /\ transactions[t].live => entries[transactions[t].entry].reversedBy = 0
OfRows(i) ==
    /\ entries[i].doc # 0
    /\ entries[i].source = "reversal" =>
          entries[i].reversedBy = 0 /\ entries[entries[i].doc].source # "reversal"
RowsInv ==
    /\ BFInv
    /\ \A t \in DOMAIN transactions : Moves(t)
    /\ \A i \in DOMAIN entries : OfRows(i)

\* Rows are what requests and old tables say of type, category and lease.
KindOf(row) == [type |-> row.type, category |-> row.category, lease |-> row.lease]
Requested == {KindOf(input) : input \in Inputs}
Older == UNION {{KindOf(table[t]) : t \in DOMAIN table} : table \in LegacyTables}
OfKinds(kinds) == \A t \in DOMAIN transactions : KindOf(transactions[t]) \in kinds
ApartFrom(kinds) == \A kind \in kinds : kind.category # "accounts_receivable"

ShareOf(t) == Share(transactions[t].type, transactions[t].amount, transactions[t].type)
RowOf(i) == IF entries[i].source = "reversal" THEN entries[entries[i].doc].doc
            ELSE entries[i].doc

LEMMA TotalOfTwo ==
    ASSUME NEW n \in Nat, NEW f, f = [i \in 1 .. n |-> f[i]], NEW j \in 1 .. n,
           NEW k \in 1 .. n, j # k, f[j] \in Int, f[k] \in Int,
           \A i \in 1 .. n : i # j /\ i # k => f[i] = 0
    PROVE  Total(f) = f[j] + f[k]
<1> DEFINE g == [i \in 1 .. n |-> IF i = j THEN 0 ELSE f[i]]
<1>1. g = [i \in 1 .. n |-> g[i]] /\ \A i \in 1 .. n : g[i] = IF i = j THEN 0 ELSE f[i]
  OBVIOUS
<1> HIDE DEF g
<1>2. g[k] = f[k] /\ g[j] = 0 /\ \A i \in 1 .. n : i # k => g[i] = 0
  BY <1>1
<1>3. Total(g) = f[k]
  BY <1>1, <1>2, TotalOfOne
<1>4. f \in Seq(Int) /\ Len(f) = n
  <2>1. \A i \in 1 .. n : f[i] \in Int
    OBVIOUS
  <2> QED BY <2>1, SequenceIs
<1>5. g \in Seq(Int) /\ Len(g) = n
  <2>1. \A i \in 1 .. n : g[i] \in Int
    BY <1>2
  <2> QED BY <1>1, <2>1, SequenceIs
<1>6. Total(f) = Total(g) + f[j]
  <2>1. /\ Len(f) = Len(g) /\ j \in 1 .. Len(g) /\ f[j] = g[j] + f[j]
        /\ \A i \in 1 .. Len(g) : i # j => f[i] = g[i]
    BY <1>1, <1>2, <1>4, <1>5
  <2> QED BY <1>4, <1>5, <2>1, TotalUpdate
<1> QED BY <1>3, <1>6

\* The entry of a row moves its share.
LEMMA EntryMoves ==
    ASSUME RowsInv, ReceivableApart, NEW kinds, OfKinds(kinds), ApartFrom(kinds), NEW t \in DOMAIN transactions, Posted(t), NEW x \in Leases
    PROVE  NetOn(transactions[t].entry, x)
             = IF transactions[t].lease = x THEN ShareOf(t) ELSE 0
<1>1. PICK type, category, amount, lease, debit, credit :
         /\ type = transactions[t].type /\ category = transactions[t].category
         /\ amount = transactions[t].amount /\ lease = transactions[t].lease
         /\ debit = DebitAccount(type, category)
         /\ credit = CreditAccount(type, category, NoAccount)
  OBVIOUS
<1>2. entries[transactions[t].entry].lines = Transfer(debit, credit, amount, lease)
  BY <1>1 DEF RowsInv, Moves, LegacyLines
<1>3. /\ type \in Types /\ amount \in Nat /\ category # "accounts_receivable"
      /\ TransactionsAssumption /\ NoAccount # AR
  <2>1. KindOf(transactions[t]).category = category
    BY <1>1 DEF KindOf
  <2> QED BY <1>1, <2>1, NoAccountIs DEF RowsInv, BFInv, HasColumns, OfKinds, ApartFrom
<1>4. NetOf(Transfer(debit, credit, amount, lease), {AR}, x)
        = IF lease = x
          THEN (IF debit = AR THEN amount ELSE 0) - (IF credit = AR THEN amount ELSE 0)
          ELSE 0
  BY <1>3, TransferNet
<1>5. Share(type, amount, type)
        = (IF debit = AR THEN amount ELSE 0) - (IF credit = AR THEN amount ELSE 0)
  BY <1>1, <1>3, SidesAre
<1> QED BY <1>1, <1>2, <1>4, <1>5 DEF NetOn, ShareOf

\* An entry is that of its row or undoes it.
LEMMA RowOfEntry ==
    ASSUME RowsInv, NEW i \in DOMAIN entries
    PROVE  LET t == RowOf(i)
               e == transactions[t].entry
           IN  /\ t \in DOMAIN transactions /\ Posted(t) /\ e \in DOMAIN entries
               /\ i # e => entries[e].reversedBy = i
<1>1. /\ EntryOfRow(i) /\ OfRows(i) /\ ReversalsPaired /\ DOMAIN entries = 1 .. Len(entries)
      /\ 0 \notin DOMAIN entries
  BY DEF RowsInv, BFInv, JournalInv, TypeOK
<1>2. CASE entries[i].source # "reversal"
  <2>1. RowOf(i) = entries[i].doc
    BY <1>2 DEF RowOf
  <2> QED BY <1>1, <1>2, <2>1 DEF EntryOfRow, OfRows, Posted
<1>3. CASE entries[i].source = "reversal"
  <2>1. PICK j : j = entries[i].doc
    OBVIOUS
  <2>2. j \in 1 .. (i - 1) /\ entries[j].reversedBy = i
    BY <1>1, <1>3, <2>1 DEF OfRows, ReversalsPaired, IsReversal
  <2>3. j \in DOMAIN entries
    BY <1>1, <2>2
  <2>4. entries[j].source # "reversal" /\ RowOf(i) = entries[j].doc
    BY <1>1, <1>3, <2>1 DEF OfRows, RowOf
  <2>5. EntryOfRow(j) /\ entries[j].doc # 0
    BY <2>3 DEF RowsInv, BFInv, OfRows
  <2> QED BY <1>1, <2>2, <2>3, <2>4, <2>5 DEF EntryOfRow, Posted
<1> QED BY <1>2, <1>3

\* What a row has in the ledger.
LEMMA EntriesOfRow ==
    ASSUME RowsInv, NEW t \in DOMAIN transactions, Posted(t)
    PROVE  LET e == transactions[t].entry
               j == entries[e].reversedBy
           IN  /\ e \in DOMAIN entries /\ RowOf(e) = t
               /\ transactions[t].live <=> j = 0
               /\ j # 0 => /\ j \in DOMAIN entries /\ j # e /\ RowOf(j) = t
                           /\ entries[j].lines = Swap(entries[e].lines)
<1>1. PICK e, j : e = transactions[t].entry /\ j = entries[e].reversedBy
  OBVIOUS
<1>2. /\ MirrorOf(t) /\ Moves(t) /\ ReversalsPaired /\ DOMAIN entries = 1 .. Len(entries)
      /\ Len(entries) \in Nat /\ TypeOK /\ transactions[t].live \in BOOLEAN
  BY DEF RowsInv, BFInv, JournalInv, TypeOK, HasColumns
<1>3. e \in DOMAIN entries /\ entries[e].doc = t /\ entries[e].source # "reversal"
  BY <1>1, <1>2 DEF MirrorOf
<1>4. RowOf(e) = t
  BY <1>3 DEF RowOf
<1>5. transactions[t].live <=> j = 0
  BY <1>1, <1>2 DEF MirrorOf, Moves
<1>6. ASSUME j # 0
      PROVE  /\ j \in DOMAIN entries /\ j # e /\ RowOf(j) = t
             /\ entries[j].lines = Swap(entries[e].lines)
  <2>1. /\ j \in (e + 1) .. Len(entries) /\ entries[j].source = "reversal"
        /\ entries[j].doc = e /\ entries[j].lines = Swap(entries[e].lines)
    BY <1>1, <1>2, <1>3, <1>6 DEF ReversalsPaired
  <2>2. e \in Nat
    BY <1>2, <1>3
  <2>3. j \in DOMAIN entries /\ j # e
    BY <1>2, <1>3, <2>1, <2>2
  <2>4. RowOf(j) = t
    BY <1>3, <2>1 DEF RowOf
  <2> QED BY <2>1, <2>3, <2>4
<1> QED BY <1>1, <1>3, <1>4, <1>5, <1>6

LEMMA TotalAt ==
    ASSUME NEW m \in Nat, NEW k \in 1 .. m, NEW w \in Int
    PROVE  Total([t \in 1 .. m |-> IF t = k THEN w ELSE 0]) = w
<1>1. PICK f : f = [t \in 1 .. m |-> IF t = k THEN w ELSE 0]
  OBVIOUS
<1>2. f = [t \in 1 .. m |-> f[t]] /\ f[k] = w /\ \A t \in 1 .. m : t # k => f[t] = 0
  BY <1>1
<1> QED BY <1>1, <1>2, TotalOfOne

\* A swap of lines takes back what they move.
TakenBack(net) ==
    \A e, j \in DOMAIN entries :
        entries[j].lines = Swap(entries[e].lines) => net[j] = -net[e]

\* What entries move and reversals take back, in all, is what the entries of
\* the rows that are left move: entries by rows is one table, summed either way.
LEMMA SumOfRows ==
    ASSUME RowsInv, NEW m \in Nat, DOMAIN transactions = 1 .. m,
           NEW n \in Nat, DOMAIN entries = 1 .. n,
           NEW net \in [1 .. n -> Int], TakenBack(net)
    PROVE  Total(net) = Total([t \in 1 .. m |->
                          IF transactions[t].live /\ Posted(t)
                          THEN net[transactions[t].entry] ELSE 0])
<1>0. PICK p : p = [t \in 1 .. m |->
                      IF transactions[t].live /\ Posted(t)
                      THEN net[transactions[t].entry] ELSE 0]
  OBVIOUS
<1>1. DOMAIN entries = 1 .. n /\ DOMAIN transactions = 1 .. m
  OBVIOUS
<1>2. ASSUME NEW i \in 1 .. n PROVE net[i] \in Int
  OBVIOUS
<1>3. PICK M : M = [t \in 1 .. m |-> [i \in 1 .. n |-> IF RowOf(i) = t THEN net[i] ELSE 0]]
  OBVIOUS
<1>4. ASSUME NEW t \in 1 .. m, NEW i \in 1 .. n
      PROVE  M[t][i] = (IF RowOf(i) = t THEN net[i] ELSE 0) /\ M[t][i] \in Int
  BY <1>2, <1>3
<1>5. PICK rows, columns :
         /\ rows = [t \in 1 .. m |-> Total([i \in 1 .. n |-> M[t][i]])]
         /\ columns = [i \in 1 .. n |-> Total([t \in 1 .. m |-> M[t][i]])]
  OBVIOUS
<1>6. Total(columns) = Total(rows)
  <2>1. Grid(M, m, n) /\ RowSums(rows, M, m, n) /\ ColumnSums(columns, M, m, n)
    BY <1>4, <1>5 DEF Grid, RowSums, ColumnSums
  <2> QED BY <2>1, SumsSwap
<1>7. ASSUME NEW i \in 1 .. n PROVE columns[i] = net[i]
  <2>1. PICK c : c = [t \in 1 .. m |-> M[t][i]]
    OBVIOUS
  <2>2. PICK k \in 1 .. m : k = RowOf(i)
    BY <1>1, RowOfEntry
  <2>3. c = [t \in 1 .. m |-> IF t = k THEN net[i] ELSE 0]
    BY <1>4, <2>1, <2>2
  <2>4. Total(c) = net[i]
    BY <1>2, <2>3, TotalAt
  <2> QED BY <1>5, <2>1, <2>4
<1>8. ASSUME NEW t \in 1 .. m PROVE rows[t] = p[t]
  <2>1. PICK r : r = [i \in 1 .. n |-> M[t][i]]
    OBVIOUS
  <2>2. r = [i \in 1 .. n |-> r[i]] /\ rows[t] = Total(r)
        /\ \A i \in 1 .. n : r[i] = (IF RowOf(i) = t THEN net[i] ELSE 0) /\ r[i] \in Int
    BY <1>4, <1>5, <2>1
  <2>3. PICK e, j : e = transactions[t].entry /\ j = entries[e].reversedBy
    OBVIOUS
  <2>4. ASSUME NEW i \in 1 .. n, RowOf(i) = t PROVE Posted(t) /\ (i # e => i = j)
    BY <1>1, <2>3, <2>4, RowOfEntry
  <2>5. p[t] = IF transactions[t].live /\ Posted(t) THEN net[e] ELSE 0
    BY <1>0, <2>3
  <2>6. CASE ~Posted(t)
    <3>1. r = [i \in 1 .. n |-> 0]
      BY <2>2, <2>4, <2>6
    <3> QED BY <2>2, <2>5, <2>6, <3>1, TotalOfZeros
  <2>7. CASE Posted(t) /\ transactions[t].live
    <3>1. e \in 1 .. n /\ RowOf(e) = t /\ j = 0
      BY <1>1, <2>3, <2>7, EntriesOfRow
    <3>2. \A i \in 1 .. n : i # e => r[i] = 0
      BY <2>2, <2>4, <3>1
    <3>3. r[e] = net[e] /\ r[e] \in Int
      BY <2>2, <3>1
    <3>4. Total(r) = net[e]
      BY <2>2, <3>1, <3>2, <3>3, TotalOfOne
    <3> QED BY <2>2, <2>5, <2>7, <3>4
  <2>8. CASE Posted(t) /\ ~transactions[t].live
    <3>1. /\ e \in 1 .. n /\ RowOf(e) = t /\ j \in 1 .. n /\ j # e /\ RowOf(j) = t
          /\ net[j] = -net[e]
      BY <1>1, <2>3, <2>8, EntriesOfRow DEF TakenBack
    <3>2. \A i \in 1 .. n : i # e /\ i # j => r[i] = 0
      BY <2>2, <2>4
    <3>3. r[e] = net[e] /\ r[j] = -net[e] /\ r[e] \in Int /\ r[j] \in Int
      BY <2>2, <3>1
    <3>4. Total(r) = r[e] + r[j]
      BY <2>2, <3>1, <3>2, <3>3, TotalOfTwo
    <3>5. Total(r) = 0
      BY <3>3, <3>4
    <3> QED BY <2>2, <2>5, <2>8, <3>5
  <2> QED BY <2>6, <2>7, <2>8
<1>9. rows = p
  BY <1>0, <1>5, <1>8
<1>10. columns = net
  <2>1. columns = [i \in 1 .. n |-> columns[i]]
    BY <1>5
  <2> QED BY <1>7, <2>1
<1> QED BY <1>0, <1>6, <1>9, <1>10

\* So the receivable of a lease is what the rows of it that are left come to.
LEMMA ReceivableOfRows ==
    ASSUME RowsInv, ReceivableApart, NEW kinds, OfKinds(kinds), ApartFrom(kinds),
           NEW x \in Leases, NEW m \in Nat, DOMAIN transactions = 1 .. m, NEW p,
           p = [t \in 1 .. m |->
                  IF t \in LeaseTransactions(x) /\ Posted(t) THEN ShareOf(t) ELSE 0]
    PROVE  NetReceivable(x) = Total(p)
<1>1. PICK n \in Nat : n = Len(entries) /\ DOMAIN entries = 1 .. n
  BY DEF RowsInv, BFInv, JournalInv, TypeOK
<1>2. PICK net : net = [i \in 1 .. n |-> NetOn(i, x)]
  OBVIOUS
<1>3. ASSUME NEW i \in 1 .. n
      PROVE  /\ net[i] = NetOn(i, x) /\ net[i] \in Int
             /\ \A j \in DOMAIN entries :
                   entries[j].lines = Swap(entries[i].lines) => net[j] = -net[i]
  <2>1. entries[i].lines \in Seq(LineInputs)
    BY <1>1, EntryFields DEF RowsInv, BFInv, JournalInv
  <2> QED BY <1>1, <1>2, <2>1, SwapNet DEF NetOn
<1>4. ASSUME NEW t \in 1 .. m
      PROVE  p[t] = IF transactions[t].live /\ Posted(t) THEN net[transactions[t].entry] ELSE 0
  <2>1. p[t] = IF transactions[t].live /\ transactions[t].lease = x /\ Posted(t)
               THEN ShareOf(t) ELSE 0
    BY DEF LeaseTransactions
  <2>2. Posted(t) => net[transactions[t].entry]
                       = IF transactions[t].lease = x THEN ShareOf(t) ELSE 0
    BY <1>1, <1>3, EntriesOfRow, EntryMoves
  <2> QED BY <2>1, <2>2
<1>5. p = [t \in 1 .. m |->
             IF transactions[t].live /\ Posted(t) THEN net[transactions[t].entry] ELSE 0]
  BY <1>4
<1>6. Total(net) = Total(p)
  <2>1. net \in [1 .. n -> Int]
    BY <1>2, <1>3
  <2>2. TakenBack(net)
    BY <1>1, <1>3 DEF TakenBack
  <2>3. Total(net) = Total([t \in 1 .. m |->
                       IF transactions[t].live /\ Posted(t)
                       THEN net[transactions[t].entry] ELSE 0])
    BY <1>1, <2>1, <2>2, SumOfRows
  <2> QED BY <1>5, <2>3
<1> QED BY <1>1, <1>2, <1>6 DEF NetReceivable, NetOn

\* The shares of rows are what is charged and refunded, less what is paid and
\* deducted.
LEMMA RowsFollowed ==
    ASSUME RowsInv, ReceivableApart, NEW kinds, OfKinds(kinds), ApartFrom(kinds)
    PROVE  LedgerFollowsRows
<1> SUFFICES ASSUME NEW l \in Leases
             PROVE  LET rows == {t \in LeaseTransactions(l) : Posted(t)}
                    IN  NetReceivable(l)
                          = TotalOf(OfTypes(rows, {"charge", "refund"}))
                              - TotalOf(OfTypes(rows, {"payment", "deposit_deduction"}))
  BY DEF LedgerFollowsRows
<1>1. PICK m \in Nat : DOMAIN transactions = 1 .. m
  BY TableRows DEF RowsInv, BFInv
<1>2. PICK rows, up, down :
         /\ rows = {t \in LeaseTransactions(l) : Posted(t)}
         /\ up = OfTypes(rows, {"charge", "refund"})
         /\ down = OfTypes(rows, {"payment", "deposit_deduction"})
  OBVIOUS
<1>3. PICK p, u, d :
         /\ p = [t \in 1 .. m |->
                   IF t \in LeaseTransactions(l) /\ Posted(t) THEN ShareOf(t) ELSE 0]
         /\ u = [t \in 1 .. m |-> IF t \in up THEN transactions[t].amount ELSE 0]
         /\ d = [t \in 1 .. m |-> IF t \in down THEN transactions[t].amount ELSE 0]
  OBVIOUS
<1>4. ASSUME NEW t \in 1 .. m
      PROVE  u[t] \in Int /\ d[t] \in Int /\ p[t] \in Int /\ u[t] = p[t] + d[t]
  <2>1. PICK row : row = transactions[t]
    OBVIOUS
  <2>2. row.type \in Types /\ row.amount \in Int
    BY <1>1, <2>1 DEF RowsInv, BFInv, HasColumns
  <2>3. /\ t \in up <=> t \in rows /\ row.type \in {"charge", "refund"}
        /\ t \in down <=> t \in rows /\ row.type \in {"payment", "deposit_deduction"}
    BY <1>2, <2>1 DEF OfTypes
  <2>4. p[t] = IF t \in rows THEN Share(row.type, row.amount, row.type) ELSE 0
    BY <1>2, <1>3, <2>1 DEF ShareOf
  <2>5. Share(row.type, row.amount, row.type)
          = IF row.type \in {"charge", "refund"} THEN row.amount
            ELSE IF row.type \in {"payment", "deposit_deduction"} THEN -row.amount ELSE 0
    BY <2>2 DEF Share, Types
  <2>6. /\ u[t] = IF t \in up THEN row.amount ELSE 0
        /\ d[t] = IF t \in down THEN row.amount ELSE 0
    BY <1>3, <2>1
  <2> QED BY <2>2, <2>3, <2>4, <2>5, <2>6
<1>5. u \in Seq(Int) /\ Len(u) = m
  <2>1. u = [t \in 1 .. m |-> u[t]]
    BY <1>3
  <2>2. \A t \in 1 .. m : u[t] \in Int
    BY <1>4
  <2> QED BY <2>1, <2>2, SequenceIs
<1>6. d \in Seq(Int) /\ Len(d) = m
  <2>1. d = [t \in 1 .. m |-> d[t]]
    BY <1>3
  <2>2. \A t \in 1 .. m : d[t] \in Int
    BY <1>4
  <2> QED BY <2>1, <2>2, SequenceIs
<1>7. p \in Seq(Int) /\ Len(p) = m
  BY <1>3, <1>4, SequenceIs
<1>8. Total(u) = Total(p) + Total(d)
  <2>1. Len(d) = Len(p) /\ Len(u) = Len(p) /\ \A t \in 1 .. Len(p) : u[t] = p[t] + d[t]
    BY <1>4, <1>5, <1>6, <1>7
  <2> QED BY <1>5, <1>6, <1>7, <2>1, TotalAdd
<1>9. Total(p) \in Int /\ Total(d) \in Int
  BY <1>6, <1>7, TotalType
<1>10. NetReceivable(l) = Total(p)
  BY <1>1, <1>3, ReceivableOfRows
<1>11. TotalOf(up) = Total(u) /\ TotalOf(down) = Total(d)
  BY <1>1, <1>3 DEF TotalOf
<1> QED BY <1>2, <1>8, <1>9, <1>10, <1>11

\* What is reversed is an entry of the ledger.
LEMMA UndoneIs ==
    ASSUME RowsInv, NEW j \in DOMAIN entries, entries[j].source = "reversal"
    PROVE  entries[j].doc \in DOMAIN entries
<1>1. ReversalsPaired /\ IsReversal(j) /\ DOMAIN entries = 1 .. Len(entries)
      /\ Len(entries) \in Nat
  BY DEF RowsInv, BFInv, JournalInv, TypeOK, OfRows, IsReversal
<1>2. entries[j].doc \in 1 .. (j - 1)
  BY <1>1 DEF ReversalsPaired
<1> QED BY <1>1, <1>2

LEMMA RowsInvCreate ==
    ASSUME RowsInv, NEW input \in Inputs, CreateFromRequest(input) PROVE RowsInv'
<1>1. PICK type, category, amount, lease :
         /\ type = input.type /\ category = input.category /\ lease = input.lease
         /\ amount = Magnitude(input.amount)
  OBVIOUS
<1>2. /\ TransactionsAssumption /\ JournalInv /\ IsTable(transactions)
      /\ liveRefs' \subseteq Refs /\ BFInv
  BY DEF RowsInv, BFInv, CreateFromRequest, JournalInv, TypeOK
<1>3. type \in Types /\ type \in Sources /\ type # "reversal" /\ amount \in Nat \ {0}
  BY <1>1, <1>2 DEF TransactionsAssumption, CreateFromRequest, CreateTransaction, Magnitude,
                    Types, Sources, DocumentSources
<1>4. PICK debit, credit :
         /\ debit = DebitAccount(type, category)
         /\ credit = CreditAccount(type, category, NoAccount)
  OBVIOUS
<1>5. PostWithRow(type, Transfer(debit, credit, amount, lease),
                  Row(type, category, amount, lease, NoReference))
  BY <1>1, <1>4 DEF CreateFromRequest, CreateTransaction
<1>6. PICK t0, i, row :
         /\ t0 = Len(transactions) + 1 /\ i = Len(entries) + 1
         /\ row = [type |-> type, category |-> category, amount |-> amount, lease |-> lease,
                   reference |-> NoReference, entry |-> i, live |-> TRUE]
  OBVIOUS
<1>7. /\ Adds(type, row)
      /\ DOMAIN entries' = DOMAIN entries \cup {i} /\ i \notin DOMAIN entries
      /\ \A j \in DOMAIN entries : entries'[j] = entries[j]
      /\ entries'[i].doc = t0 /\ entries'[i].reversedBy = 0
      /\ entries'[i].lines = Transfer(debit, credit, amount, lease)
  <2>1. TransactionsAssumption /\ JournalInv /\ IsTable(transactions) /\ liveRefs' \subseteq Refs
    BY <1>2
  <2>2. /\ Adds(type, row)
        /\ DOMAIN entries' = DOMAIN entries \cup {i} /\ i \notin DOMAIN entries
        /\ \A j \in DOMAIN entries : entries'[j] = entries[j]
        /\ entries'[i].doc = t0
    BY <2>1, <1>3, <1>5, <1>6, PostRowWrites
  <2>3. entries'[i].reversedBy = 0
    BY <2>1, <1>3, <1>5, <1>6, PostRowWrites
  <2>4. entries'[i].lines = Transfer(debit, credit, amount, lease)
    BY <2>1, <1>3, <1>5, <1>6, PostRowWrites
  <2> QED BY <2>2, <2>3, <2>4
<1>8. /\ row.type = type /\ row.category = category /\ row.amount = amount
      /\ row.lease = lease /\ row.entry = i
  BY <1>6
<1>9. /\ transactions'[t0] = row /\ entries'[i].source = type /\ t0 # 0
      /\ DOMAIN transactions' = DOMAIN transactions \cup {t0} /\ t0 \notin DOMAIN transactions
      /\ \A t \in DOMAIN transactions : transactions'[t] = transactions[t]
  BY <1>6, <1>7 DEF Adds
<1>10. LegacyLines(row) = Transfer(debit, credit, amount, lease)
  BY <1>4, <1>8 DEF LegacyLines
<1>11. ASSUME NEW t \in DOMAIN transactions' PROVE Moves(t)'
  <2>1. CASE t = t0
    BY <1>3, <1>7, <1>8, <1>9, <1>10, <2>1 DEF Moves, LegacyLines
  <2>2. CASE t # t0
    <3>1. /\ t \in DOMAIN transactions /\ transactions'[t] = transactions[t]
          /\ Moves(t) /\ (Posted(t) => MirrorOf(t))
      BY <1>9, <2>2 DEF RowsInv, BFInv
    <3>2. Posted(t) => entries'[transactions[t].entry] = entries[transactions[t].entry]
      BY <1>7, <3>1 DEF MirrorOf
    <3> QED BY <3>1, <3>2 DEF Moves, Posted, LegacyLines
  <2> QED BY <2>1, <2>2
<1>12. ASSUME NEW j \in DOMAIN entries' PROVE OfRows(j)'
  <2>1. CASE j = i
    BY <1>3, <1>7, <1>9, <2>1 DEF OfRows
  <2>2. CASE j # i
    <3>1. j \in DOMAIN entries /\ entries'[j] = entries[j] /\ OfRows(j)
      BY <1>7, <2>2 DEF RowsInv
    <3>2. entries[j].source = "reversal" => entries[j].doc \in DOMAIN entries
      BY <3>1, UndoneIs DEF RowsInv, OfRows
    <3> QED BY <1>7, <3>1, <3>2 DEF OfRows
  <2> QED BY <2>1, <2>2
<1>13. BFInv'
  BY <1>2, CreateBeside
<1> QED BY <1>11, <1>12, <1>13 DEF RowsInv

LEMMA RowsInvDelete ==
    ASSUME RowsInv, NEW t \in DOMAIN transactions, DeleteFromRequest(t) PROVE RowsInv'
<1>1. PICK i, old : i = transactions[t].entry /\ old = transactions[t]
  OBVIOUS
<1>2. /\ JournalInv /\ Len(entries) <= MaxEntries /\ IsTable(transactions) /\ BFInv
      /\ HasColumns(transactions[t]) /\ (Posted(t) => MirrorOf(t)) /\ Moves(t)
      /\ (Posted(t) => i \in DOMAIN entries)
  BY <1>1 DEF RowsInv, BFInv, MirrorOf
<1>3. Deletes(t)
  BY <1>1, <1>2, DeleteWrites
<1>4. /\ DOMAIN transactions' = DOMAIN transactions /\ old.live
      /\ transactions'[t]
           = [type |-> old.type, category |-> old.category, amount |-> old.amount,
              lease |-> old.lease, reference |-> old.reference, entry |-> i,
              live |-> FALSE]
      /\ \A s \in DOMAIN transactions : s # t => transactions'[s] = transactions[s]
      /\ Kept
  BY <1>1, <1>3 DEF Deletes
<1>5. ASSUME NEW s \in DOMAIN transactions
      PROVE  /\ transactions'[s].entry = transactions[s].entry
             /\ LegacyLines(transactions'[s]) = LegacyLines(transactions[s])
  BY <1>1, <1>4 DEF LegacyLines
<1>6. /\ \A j \in DOMAIN entries' \ DOMAIN entries :
            /\ entries'[j].source = "reversal" /\ entries'[j].doc = i /\ i # 0
            /\ entries'[j].reversedBy = 0 /\ Posted(t)
      /\ \A j \in DOMAIN entries : ~(Posted(t) /\ j = i) => entries'[j] = entries[j]
  <2>1. CASE Posted(t)
    <3>1. entries[i].reversedBy = 0 /\ i # 0
      BY <1>1, <1>2, <1>4, <2>1 DEF Moves, Posted
    <3>2. ReverseEntry(i)
      BY <1>1, <2>1, <3>1 DEF DeleteFromRequest, DeleteTransaction
    <3>3. PICK n \in Nat :
             /\ DOMAIN entries = 1 .. n /\ DOMAIN entries' = 1 .. (n + 1)
             /\ entries'[n + 1] = [number |-> n + 1, source |-> "reversal", doc |-> i,
                                   lines |-> Swap(entries[i].lines), reversedBy |-> 0]
             /\ \A k \in 1 .. n : k # i => entries'[k] = entries[k]
      BY <1>2, <3>2, ReversalWrites
    <3>4. ASSUME NEW j \in DOMAIN entries' \ DOMAIN entries PROVE j = n + 1
      BY <3>3
    <3>5. /\ entries'[n + 1].source = "reversal" /\ entries'[n + 1].doc = i
          /\ entries'[n + 1].reversedBy = 0
      BY <3>3
    <3> QED BY <2>1, <3>1, <3>3, <3>4, <3>5
  <2>2. CASE ~Posted(t)
    <3>1. UNCHANGED entries
      BY <2>2 DEF DeleteFromRequest, DeleteTransaction
    <3> QED BY <2>2, <3>1
  <2> QED BY <2>1, <2>2
<1>7. ASSUME NEW s \in DOMAIN transactions PROVE Moves(s)'
  <2>1. /\ Moves(s)
        /\ (Posted(s) => MirrorOf(s)) /\ (Posted(s)' <=> Posted(s))
    BY <1>5 DEF RowsInv, BFInv, Posted
  <2>2. Posted(s) => entries'[transactions[s].entry].lines = entries[transactions[s].entry].lines
    BY <1>4, <2>1 DEF MirrorOf, Kept
  <2>3. ASSUME Posted(s), transactions'[s].live
        PROVE  entries'[transactions'[s].entry].reversedBy = 0
    <3>1. s # t
      BY <1>4, <2>3
    <3>2. /\ transactions'[s] = transactions[s] /\ transactions[s].entry \in DOMAIN entries
          /\ entries[transactions[s].entry].doc = s
      BY <1>4, <2>1, <2>3, <3>1 DEF MirrorOf
    <3>3. ~(Posted(t) /\ transactions[s].entry = i)
      BY <1>1, <1>2, <3>1, <3>2 DEF MirrorOf
    <3> QED BY <1>6, <2>1, <2>3, <3>2, <3>3 DEF Moves
  <2> QED BY <1>5, <2>1, <2>2, <2>3 DEF Moves
<1>8. ASSUME NEW j \in DOMAIN entries' PROVE OfRows(j)'
  <2>1. CASE j \notin DOMAIN entries
    <3>1. entries[i].source # "reversal" /\ i \in DOMAIN entries
      BY <1>1, <1>2, <1>6, <2>1 DEF MirrorOf
    <3> QED BY <1>4, <1>6, <2>1, <3>1 DEF OfRows, Kept
  <2>2. CASE j \in DOMAIN entries
    <3>1. OfRows(j) /\ entries'[j].source = entries[j].source
          /\ entries'[j].doc = entries[j].doc
      BY <1>4, <2>2 DEF RowsInv, Kept
    <3>2. ASSUME entries[j].source = "reversal"
          PROVE  entries'[j].reversedBy = 0 /\ entries'[entries[j].doc].source # "reversal"
      <4>1. entries[j].doc \in DOMAIN entries /\ entries[entries[j].doc].source # "reversal"
        BY <2>2, <3>1, <3>2, UndoneIs DEF OfRows
      <4>2. ~(Posted(t) /\ j = i)
        BY <1>1, <1>2, <3>2 DEF MirrorOf
      <4> QED BY <1>4, <1>6, <2>2, <3>1, <3>2, <4>1, <4>2 DEF OfRows, Kept
    <3> QED BY <3>1, <3>2 DEF OfRows
  <2> QED BY <2>1, <2>2
<1>9. BFInv'
  BY <1>2, DeleteBeside
<1> QED BY <1>4, <1>7, <1>8, <1>9 DEF RowsInv

LEMMA RowsInvBackfill == ASSUME RowsInv, BackfillRows PROVE RowsInv'
<1>0. PICK n, q : n = Len(entries) /\ q = Cardinality(Due)
  OBVIOUS
<1>1. n \in Nat /\ q \in Nat /\ DOMAIN entries = 1 .. n /\ Filled(n, q) /\ BFInv
  <2>1. n \in Nat /\ DOMAIN entries = 1 .. n /\ BFInv
    BY <1>0 DEF RowsInv, BFInv, JournalInv, TypeOK
  <2> QED BY <1>0, <2>1, BackfillWrites
<1>2. ASSUME NEW t \in Due
      PROVE  /\ entries'[n + Place(t)].lines = LegacyLines(transactions[t])
             /\ entries'[n + Place(t)].reversedBy = 0 /\ entries'[n + Place(t)].doc = t
             /\ entries'[n + Place(t)].source = transactions[t].type
             /\ transactions'[t].entry = n + Place(t)
             /\ LegacyLines(transactions'[t]) = LegacyLines(transactions[t])
             /\ t # 0 /\ transactions[t].type # "reversal" /\ t \in DOMAIN transactions
  <2>1. PICK old : old = transactions[t]
    OBVIOUS
  <2>2. entries'[n + Place(t)]
          = [number |-> n + Place(t), source |-> old.type, doc |-> t,
             lines |-> LegacyLines(old), reversedBy |-> 0]
    BY <1>1, <2>1 DEF Filled
  <2>3. transactions'[t]
          = [type |-> old.type, category |-> old.category, amount |-> old.amount,
             lease |-> old.lease, reference |-> old.reference, entry |-> n + Place(t),
             live |-> TRUE]
    BY <1>1, <2>1 DEF Filled
  <2>4. LegacyLines(transactions'[t]) = LegacyLines(old)
    BY <2>3 DEF LegacyLines
  <2>5. t \in DOMAIN transactions
    BY DEF Due
  <2>6. t # 0 /\ old.type # "reversal"
    <3>1. PICK m \in Nat : DOMAIN transactions = 1 .. m
      BY TableRows DEF RowsInv, BFInv
    <3> QED BY <2>1, <2>5, <3>1 DEF RowsInv, BFInv, HasColumns, Types
  <2> QED BY <2>1, <2>2, <2>3, <2>4, <2>5, <2>6
<1>3. ASSUME NEW t \in DOMAIN transactions PROVE Moves(t)'
  <2>1. Moves(t) /\ (Posted(t) => MirrorOf(t))
    BY DEF RowsInv, BFInv
  <2>2. CASE t \in Due
    BY <1>2, <2>1, <2>2 DEF Moves, LegacyLines
  <2>3. CASE t \notin Due
    <3>1. transactions'[t] = transactions[t]
      BY <1>1, <2>3 DEF Filled
    <3>2. Posted(t) => entries'[transactions[t].entry] = entries[transactions[t].entry]
      BY <1>1, <2>1 DEF MirrorOf, Filled
    <3> QED BY <2>1, <3>1, <3>2 DEF Moves, Posted, LegacyLines
  <2> QED BY <2>2, <2>3
<1>4. ASSUME NEW j \in DOMAIN entries' PROVE OfRows(j)'
  <2>1. CASE j \in 1 .. n
    <3>1. OfRows(j) /\ entries'[j] = entries[j]
      BY <1>1, <2>1 DEF RowsInv, Filled
    <3>2. entries[j].source = "reversal" => entries'[entries[j].doc] = entries[entries[j].doc]
      BY <1>1, <2>1, <3>1, UndoneIs DEF OfRows, Filled
    <3> QED BY <3>1, <3>2 DEF OfRows
  <2>2. CASE j \notin 1 .. n
    <3>1. PICK k \in 1 .. q : j = n + k
      <4>1. j \in 1 .. n + q
        BY <1>1 DEF Filled
      <4>2. j - n \in 1 .. q /\ j = n + (j - n)
        BY <1>1, <2>2, <4>1
      <4> QED BY <4>2
    <3>2. PICK t \in Due : Place(t) = k
      BY <1>1 DEF Filled
    <3> QED BY <1>2, <3>1, <3>2 DEF OfRows
  <2> QED BY <2>1, <2>2
<1>5. BFInv'
  BY <1>1, BackfillStep
<1>6. DOMAIN transactions' = DOMAIN transactions
  BY <1>1 DEF Filled
<1> QED BY <1>3, <1>4, <1>5, <1>6 DEF RowsInv

LEMMA RowsInvStep == RowsInv /\ [BFNext]_TxVars => RowsInv'
<1> SUFFICES ASSUME RowsInv, [BFNext]_TxVars PROVE RowsInv'
  OBVIOUS
<1>1. CASE BackfillRows \/ \/ \E input \in Inputs : CreateFromRequest(input)
                           \/ \E t \in DOMAIN transactions : DeleteFromRequest(t)
  BY <1>1, RowsInvBackfill, RowsInvCreate, RowsInvDelete
<1>2. CASE DeleteReference \/ UNCHANGED TxVars
  <2>1. UNCHANGED <<entries, transactions>>
    BY <1>2 DEF DeleteReference, SoftDelete, TxVars
  <2>2. BFInv'
    BY BFStep DEF RowsInv
  <2> QED BY <2>1, <2>2 DEF RowsInv, Moves, OfRows, Posted, LegacyLines
<1> QED BY <1>1, <1>2 DEF BFNext, TxNextThroughTransactions

\* Rows keep their kind, and new ones are of the kind of a request.
LEMMA KindsStep ==
    ASSUME RowsInv, NEW kinds, Requested \subseteq kinds, OfKinds(kinds), [BFNext]_TxVars
    PROVE  OfKinds(kinds)'
<1>1. ASSUME NEW input \in Inputs, CreateFromRequest(input) PROVE OfKinds(kinds)'
  <2>1. PICK row :
           /\ transactions' = Append(transactions, row)
           /\ row = Row(input.type, input.category, Magnitude(input.amount), input.lease,
                        NoReference)
    BY <1>1 DEF CreateFromRequest, CreateTransaction, PostWithRow
  <2>2. KindOf(row) = KindOf(input) /\ KindOf(input) \in kinds
    BY <2>1 DEF Row, KindOf, Requested
  <2>3. PICK m \in Nat : DOMAIN transactions = 1 .. m /\ DOMAIN transactions' = 1 .. m + 1
                         /\ transactions'[m + 1] = row
                         /\ \A t \in 1 .. m : transactions'[t] = transactions[t]
    BY <2>1, TableRows, TableAppended DEF RowsInv, BFInv
  <2>4. ASSUME NEW t \in DOMAIN transactions' PROVE t \in 1 .. m \/ t = m + 1
    BY <2>3
  <2> QED BY <2>2, <2>3, <2>4 DEF OfKinds
<1>2. ASSUME NEW t \in DOMAIN transactions, DeleteFromRequest(t) PROVE OfKinds(kinds)'
  <2>1. /\ JournalInv /\ Len(entries) <= MaxEntries /\ IsTable(transactions)
        /\ HasColumns(transactions[t])
        /\ Posted(t) => transactions[t].entry \in DOMAIN entries
    BY DEF RowsInv, BFInv, MirrorOf
  <2>2. Deletes(t)
    BY <1>2, <2>1, DeleteWrites
  <2>3. DOMAIN transactions' = DOMAIN transactions
        /\ \A s \in DOMAIN transactions : KindOf(transactions'[s]) = KindOf(transactions[s])
    BY <2>2 DEF Deletes, KindOf
  <2> QED BY <2>3 DEF OfKinds
<1>3. CASE BackfillRows
  <2>1. Filled(Len(entries), Cardinality(Due))
    BY <1>3, BackfillWrites DEF RowsInv
  <2>2. ASSUME NEW s \in DOMAIN transactions
        PROVE  KindOf(transactions'[s]) = KindOf(transactions[s])
    <3>1. CASE s \in Due
      <4>1. PICK old : old = transactions[s]
        OBVIOUS
      <4>2. transactions'[s]
              = [type |-> old.type, category |-> old.category, amount |-> old.amount,
                 lease |-> old.lease, reference |-> old.reference,
                 entry |-> Len(entries) + Place(s), live |-> TRUE]
        BY <2>1, <3>1, <4>1 DEF Filled
      <4> QED BY <4>1, <4>2 DEF KindOf
    <3>2. CASE s \notin Due
      <4>1. transactions'[s] = transactions[s]
        BY <2>1, <3>2 DEF Filled
      <4> QED BY <4>1
    <3> QED BY <3>1, <3>2
  <2>3. DOMAIN transactions' = DOMAIN transactions
    BY <2>1 DEF Filled
  <2> QED BY <2>2, <2>3 DEF OfKinds
<1>4. CASE DeleteReference \/ UNCHANGED TxVars
  <2>1. UNCHANGED transactions
    BY <1>4 DEF DeleteReference, SoftDelete, TxVars
  <2> QED BY <2>1 DEF OfKinds
<1> QED BY <1>1, <1>2, <1>3, <1>4 DEF BFNext, TxNextThroughTransactions

\* While entries are reversed through their transactions only, what the ledger
\* says a tenant owes is charges and refunds less payments and deductions.
THEOREM LedgerOfRows ==
    TransactionsAssumption /\ ReceivableApart /\ TxSpecThroughTransactions
      => []LedgerFollowsRows
<1> DEFINE Inv == RowsInv /\ ReceivableApart /\ OfKinds(Requested)
<1>1. TransactionsAssumption /\ ReceivableApart /\ TxInit => Inv
  <2> SUFFICES ASSUME TransactionsAssumption, ReceivableApart, TxInit PROVE Inv
    OBVIOUS
  <2>1. TxInv /\ entries = <<>> /\ transactions = <<>>
    BY TxInitial DEF TxInit, Init
  <2>2. BFInv
    BY <2>1 DEF TxInv, BFInv
  <2> QED BY <2>1, <2>2 DEF RowsInv, OfKinds
<1>2. Inv /\ [TxNextThroughTransactions]_TxVars => Inv'
  <2> SUFFICES ASSUME Inv, [TxNextThroughTransactions]_TxVars PROVE Inv'
    OBVIOUS
  <2>1. [BFNext]_TxVars
    BY DEF BFNext
  <2>2. Requested' = Requested /\ ReceivableApart'
    BY DEF Requested, KindOf, ReceivableApart
  <2> QED BY <2>1, <2>2, RowsInvStep, KindsStep
<1>3. Inv => LedgerFollowsRows
  <2> SUFFICES ASSUME Inv PROVE LedgerFollowsRows
    OBVIOUS
  <2>1. ApartFrom(Requested)
    BY DEF Requested, KindOf, ApartFrom, ReceivableApart
  <2> QED BY <2>1, RowsFollowed
<1> QED BY <1>1, <1>2, <1>3, PTL DEF TxSpecThroughTransactions

\* What the two theorems below start from.
LEMMA OldRowsInitial ==
    ASSUME BackfillAssumption, BFInit
    PROVE  RowsInv /\ OfKinds(Requested \cup Older)
<1>1. BFInv /\ entries = <<>> /\ transactions \in LegacyTables
  BY BFInitial DEF BFInit, Init
<1>2. ASSUME NEW t \in DOMAIN transactions
      PROVE  ~Posted(t) /\ KindOf(transactions[t]) \in Older
  <2>1. transactions \in Seq(LegacyRows)
    BY <1>1 DEF BackfillAssumption
  <2>2. transactions[t] \in LegacyRows
    BY <2>1
  <2>3. ~Posted(t)
    BY <2>2 DEF LegacyRows, Posted
  <2> QED BY <1>1, <2>3 DEF Older
<1> QED BY <1>1, <1>2 DEF RowsInv, Moves, OfKinds

\* The same of the rows that have an entry, where there are older ones, of no
\* such category either, and a backfill posts them, at any time.
THEOREM LedgerOfOldRows ==
    BackfillAssumption /\ ReceivableApart /\ ApartFrom(Older) /\ BFSpec => []LedgerFollowsRows
<1> DEFINE Inv == RowsInv /\ ReceivableApart /\ ApartFrom(Older) /\ OfKinds(Requested \cup Older)
<1>1. BackfillAssumption /\ ReceivableApart /\ ApartFrom(Older) /\ BFInit => Inv
  BY OldRowsInitial
<1>2. Inv /\ [BFNext]_TxVars => Inv'
  <2> SUFFICES ASSUME Inv, [BFNext]_TxVars PROVE Inv'
    OBVIOUS
  <2>1. (Requested \cup Older)' = Requested \cup Older
    BY DEF Requested, Older, KindOf
  <2>2. ReceivableApart' /\ ApartFrom(Older)'
    BY DEF ReceivableApart, ApartFrom, Older, KindOf
  <2> QED BY <2>1, <2>2, RowsInvStep, KindsStep
<1>3. Inv => LedgerFollowsRows
  <2> SUFFICES ASSUME Inv PROVE LedgerFollowsRows
    OBVIOUS
  <2>1. ApartFrom(Requested \cup Older)
    BY DEF Requested, KindOf, ApartFrom, ReceivableApart
  <2> QED BY <2>1, RowsFollowed
<1> QED BY <1>1, <1>2, <1>3, PTL DEF BFSpec

\* Rows that name a payee are booked as expenses if they are, and else on no
\* account of expenses: no request and no old row says otherwise.
PayeesApart ==
    \A kind \in Requested \cup Older :
        kind.lease \in Payees =>
            /\ DebitAccount(kind.type, kind.category) \in Expense <=> kind.type = "expense"
            /\ CreditAccount(kind.type, kind.category, NoAccount) \notin Expense

\* The entry of an expense is what its vendor was paid.
LEMMA EntryPays ==
    ASSUME RowsInv, PayeesApart, OfKinds(Requested \cup Older),
           NEW t \in DOMAIN transactions, Posted(t), NEW v \in Payees
    PROVE  NetOf(entries[transactions[t].entry].lines, Expense, v)
             = IF transactions[t].lease = v /\ transactions[t].type = "expense"
               THEN transactions[t].amount ELSE 0
<1>1. PICK type, category, amount, lease, debit, credit :
         /\ type = transactions[t].type /\ category = transactions[t].category
         /\ amount = transactions[t].amount /\ lease = transactions[t].lease
         /\ debit = DebitAccount(type, category)
         /\ credit = CreditAccount(type, category, NoAccount)
  OBVIOUS
<1>2. entries[transactions[t].entry].lines = Transfer(debit, credit, amount, lease)
  BY <1>1 DEF RowsInv, Moves, LegacyLines
<1>3. /\ amount \in Nat
      /\ lease = v => (debit \in Expense <=> type = "expense") /\ credit \notin Expense
  <2>1. PICK kind \in Requested \cup Older :
           kind.type = type /\ kind.category = category /\ kind.lease = lease
    BY <1>1 DEF OfKinds, KindOf
  <2>2. amount \in Nat
    BY <1>1 DEF RowsInv, BFInv, HasColumns
  <2> QED BY <1>1, <2>1, <2>2 DEF PayeesApart
<1>4. NetOf(Transfer(debit, credit, amount, lease), Expense, v)
        = IF lease = v
          THEN (IF debit \in Expense THEN amount ELSE 0)
                 - (IF credit \in Expense THEN amount ELSE 0)
          ELSE 0
  BY <1>3, TransferNet
<1> QED BY <1>1, <1>2, <1>3, <1>4

\* So the journal has what was paid by the rows that are left and have an entry.
LEMMA PaidOfRows ==
    ASSUME RowsInv, PayeesApart, OfKinds(Requested \cup Older), NEW v \in Payees,
           NEW m \in Nat, DOMAIN transactions = 1 .. m, NEW p,
           p = [t \in 1 .. m |->
                  IF t \in ExpensesTo(v) /\ Posted(t) THEN transactions[t].amount ELSE 0]
    PROVE  JournalPaid(v) = Total(p)
<1>1. PICK n \in Nat : n = Len(entries) /\ DOMAIN entries = 1 .. n
  BY DEF RowsInv, BFInv, JournalInv, TypeOK
<1>2. PICK net : net = [i \in 1 .. n |-> NetOf(entries[i].lines, Expense, v)]
  OBVIOUS
<1>3. ASSUME NEW i \in 1 .. n
      PROVE  /\ net[i] = NetOf(entries[i].lines, Expense, v) /\ net[i] \in Int
             /\ \A j \in DOMAIN entries :
                   entries[j].lines = Swap(entries[i].lines) => net[j] = -net[i]
  <2>1. entries[i].lines \in Seq(LineInputs)
    BY <1>1, EntryFields DEF RowsInv, BFInv, JournalInv
  <2> QED BY <1>1, <1>2, <2>1, SwapNet
<1>4. ASSUME NEW t \in 1 .. m
      PROVE  p[t] = IF transactions[t].live /\ Posted(t) THEN net[transactions[t].entry] ELSE 0
  <2>1. p[t] = IF /\ transactions[t].live /\ transactions[t].type = "expense"
                  /\ transactions[t].lease = v /\ Posted(t)
               THEN transactions[t].amount ELSE 0
    BY DEF ExpensesTo
  <2>2. Posted(t) => net[transactions[t].entry]
                       = IF transactions[t].lease = v /\ transactions[t].type = "expense"
                         THEN transactions[t].amount ELSE 0
    BY <1>1, <1>3, EntriesOfRow, EntryPays
  <2> QED BY <2>1, <2>2
<1>5. p = [t \in 1 .. m |->
             IF transactions[t].live /\ Posted(t) THEN net[transactions[t].entry] ELSE 0]
  BY <1>4
<1>6. Total(net) = Total(p)
  <2>1. net \in [1 .. n -> Int]
    BY <1>2, <1>3
  <2>2. TakenBack(net)
    BY <1>1, <1>3 DEF TakenBack
  <2>3. Total(net) = Total([t \in 1 .. m |->
                       IF transactions[t].live /\ Posted(t)
                       THEN net[transactions[t].entry] ELSE 0])
    BY <1>1, <2>1, <2>2, SumOfRows
  <2> QED BY <1>5, <2>3
<1> QED BY <1>1, <1>2, <1>6 DEF JournalPaid

\* The two books together have each payment once.
LEMMA PaymentsFollowed ==
    ASSUME RowsInv, PayeesApart, OfKinds(Requested \cup Older)
    PROVE  PaymentsReportedOnce
<1>1. PICK m \in Nat : DOMAIN transactions = 1 .. m
  BY TableRows DEF RowsInv, BFInv
<1>2. ASSUME NEW v \in Payees PROVE VendorTotal(v) = TotalOf(ExpensesTo(v))
  <2>1. PICK p, r, a :
           /\ p = [t \in 1 .. m |->
                     IF t \in ExpensesTo(v) /\ Posted(t) THEN transactions[t].amount ELSE 0]
           /\ r = [t \in 1 .. m |-> IF t \in {s \in ExpensesTo(v) : ~Posted(s)}
                                    THEN transactions[t].amount ELSE 0]
           /\ a = [t \in 1 .. m |-> IF t \in ExpensesTo(v) THEN transactions[t].amount ELSE 0]
    OBVIOUS
  <2>2. ASSUME NEW t \in 1 .. m
        PROVE  p[t] \in Int /\ r[t] \in Int /\ a[t] \in Int /\ a[t] = p[t] + r[t]
    <3>1. transactions[t].amount \in Int
      BY <1>1 DEF RowsInv, BFInv, HasColumns
    <3> QED BY <2>1, <3>1
  <2>3. /\ p = [t \in 1 .. m |-> p[t]] /\ r = [t \in 1 .. m |-> r[t]]
        /\ a = [t \in 1 .. m |-> a[t]]
    BY <2>1
  <2>4. p \in Seq(Int) /\ Len(p) = m
    BY <2>2, <2>3, SequenceIs
  <2>5. r \in Seq(Int) /\ Len(r) = m
    BY <2>2, <2>3, SequenceIs
  <2>6. a \in Seq(Int) /\ Len(a) = m
    BY <2>2, <2>3, SequenceIs
  <2>7. Total(a) = Total(p) + Total(r)
    <3>1. Len(a) = Len(p) /\ Len(r) = Len(p) /\ \A t \in 1 .. Len(p) : a[t] = p[t] + r[t]
      BY <2>2, <2>4, <2>5, <2>6
    <3> QED BY <2>4, <2>5, <2>6, <3>1, TotalAdd
  <2>8. JournalPaid(v) = Total(p)
    BY <1>1, <2>1, PaidOfRows
  <2>9. RowsPaid(v) = Total(r) /\ TotalOf(ExpensesTo(v)) = Total(a)
    BY <1>1, <2>1 DEF RowsPaid, TotalOf
  <2> QED BY <2>7, <2>8, <2>9 DEF VendorTotal
<1> QED BY <1>2 DEF PaymentsReportedOnce, Qualifying

\* Before, between and after backfills, and whatever is posted and deleted, the
\* 1099 report counts each payment to a vendor once.
THEOREM PaymentsReported ==
    BackfillAssumption /\ PayeesApart /\ BFSpec => []PaymentsReportedOnce
<1> DEFINE Inv == RowsInv /\ PayeesApart /\ OfKinds(Requested \cup Older)
<1>1. BackfillAssumption /\ PayeesApart /\ BFInit => Inv
  BY OldRowsInitial
<1>2. Inv /\ [BFNext]_TxVars => Inv'
  <2> SUFFICES ASSUME Inv, [BFNext]_TxVars PROVE Inv'
    OBVIOUS
  <2>1. (Requested \cup Older)' = Requested \cup Older /\ PayeesApart'
    BY DEF Requested, Older, KindOf, PayeesApart
  <2> QED BY <2>1, RowsInvStep, KindsStep
<1>3. Inv => PaymentsReportedOnce
  BY PaymentsFollowed
<1> QED BY <1>1, <1>2, <1>3, PTL DEF BFSpec

(***************************************************************************)
(* The event bus.                                                          *)
(***************************************************************************)
Ids == 1 .. Len(published)
Fate == {"waiting", "running", "handled", "failed", "lost"}

\* The three parts need each other: events leave a queue that is in order, and
\* the list of failures holds events.
BusInv == BusTypeOK /\ QueueInOrder /\ LatestFailures

LEMMA MinOfTwo ==
    ASSUME NEW a \in Nat, NEW b \in Nat
    PROVE  Min({a, b}) = IF a <= b THEN a ELSE b
<1> DEFINE m == IF a <= b THEN a ELSE b
<1>1. m \in {a, b} /\ \A y \in {a, b} : m <= y
  OBVIOUS
<1>2. \A x \in {a, b} : (\A y \in {a, b} : x <= y) => x = m
  OBVIOUS
<1> QED BY <1>1, <1>2 DEF Min

LEMMA BusInitial == BusInit => BusInv
<1> SUFFICES ASSUME BusInit PROVE BusInv
  OBVIOUS
<1> USE DEF BusInit
<1>1. BusTypeOK
  BY DEF BusTypeOK
<1>2. QueueInOrder
  BY DEF QueueInOrder
<1>3. LatestFailures
  BY MinOfTwo, EventBusAssumption DEF LatestFailures
<1> QED BY <1>1, <1>2, <1>3 DEF BusInv

(***************************************************************************)
(* Dead letters.                                                           *)
(***************************************************************************)
\* A failure of an event leaves the latest failures in the list.
LEMMA FailureListed ==
    ASSUME BusInv, NEW n \in Ids, Failed(n), UNCHANGED published
    PROVE  /\ LatestFailures'
           /\ deadLetters' \in Seq(Ids) /\ failures' \in Seq(Ids)
<1> DEFINE letters == <<n>> \o deadLetters
           k == Min({MaxDeadLetters, Len(letters)})
<1>1. /\ deadLetters \in Seq(Ids) /\ failures \in Seq(Ids)
      /\ Len(deadLetters) = Min({MaxDeadLetters, Len(failures)})
      /\ \A i \in 1 .. Len(deadLetters) : deadLetters[i] = failures[Len(failures) + 1 - i]
  BY DEF BusInv, BusTypeOK, LatestFailures, Ids
<1>2. MaxDeadLetters \in Nat \ {0}
  BY EventBusAssumption
<1>3. /\ letters \in Seq(Ids) /\ Len(letters) = Len(deadLetters) + 1
      /\ letters[1] = n
      /\ \A i \in 2 .. Len(letters) : letters[i] = deadLetters[i - 1]
  BY <1>1
<1>4. k = IF MaxDeadLetters <= Len(letters) THEN MaxDeadLetters ELSE Len(letters)
  BY <1>2, <1>3, MinOfTwo
<1>5. k \in 1 .. Len(letters)
  BY <1>1, <1>2, <1>3, <1>4
<1>6. deadLetters' = SubSeq(letters, 1, k)
  BY DEF Failed
<1> HIDE DEF letters, k
<1>7. /\ deadLetters' \in Seq(Ids) /\ Len(deadLetters') = k
      /\ \A i \in 1 .. k : deadLetters'[i] = letters[i]
  <2>1. 1 \in Int /\ k \in Int /\ k >= 1 /\ \A i \in 1 .. k : letters[i] \in Ids
    BY <1>1, <1>3, <1>5
  <2>2. /\ SubSeq(letters, 1, k) \in Seq(Ids)
        /\ Len(SubSeq(letters, 1, k)) = IF 1 <= k THEN k - 1 + 1 ELSE 0
        /\ \A i \in 1 .. k - 1 + 1 : SubSeq(letters, 1, k)[i] = letters[1 + i - 1]
    BY <2>1, SubSeqProperties
  <2>3. k - 1 + 1 = k /\ \A i \in 1 .. k : 1 + i - 1 = i
    BY <2>1
  <2> QED BY <1>6, <2>1, <2>2, <2>3
<1>8. /\ failures' = Append(failures, n) /\ failures' \in Seq(Ids)
      /\ Len(failures') = Len(failures) + 1 /\ failures'[Len(failures) + 1] = n
      /\ \A i \in 1 .. Len(failures) : failures'[i] = failures[i]
  BY <1>1 DEF Failed
<1>9. Len(deadLetters) = IF MaxDeadLetters <= Len(failures) THEN MaxDeadLetters
                         ELSE Len(failures)
  BY <1>1, <1>2, MinOfTwo
<1>10. Len(deadLetters') = Min({MaxDeadLetters, Len(failures')})
  <2>1. Min({MaxDeadLetters, Len(failures')}) =
          IF MaxDeadLetters <= Len(failures') THEN MaxDeadLetters ELSE Len(failures')
    BY <1>2, <1>8, MinOfTwo
  <2>2. Len(failures) \in Nat /\ Len(letters) \in Nat
    BY <1>1, <1>3
  <2>3. CASE MaxDeadLetters <= Len(failures)
    BY <1>2, <1>3, <1>4, <1>7, <1>8, <1>9, <2>1, <2>2, <2>3
  <2>4. CASE ~(MaxDeadLetters <= Len(failures))
    BY <1>2, <1>3, <1>4, <1>7, <1>8, <1>9, <2>1, <2>2, <2>4
  <2> QED BY <2>3, <2>4
<1>11. ASSUME NEW i \in 1 .. k
       PROVE  deadLetters'[i] = failures'[Len(failures') + 1 - i]
  <2>1. CASE i = 1
    <3>1. Len(failures) \in Nat /\ Len(failures') + 1 - 1 = Len(failures) + 1
      BY <1>1, <1>8
    <3>2. 1 \in 1 .. k
      BY <1>1, <1>3, <1>5
    <3>3. deadLetters'[1] = n
      BY <1>3, <1>7, <3>2
    <3> QED BY <1>8, <2>1, <3>1, <3>3
  <2>2. CASE i # 1
    <3>1. i - 1 \in 1 .. Len(deadLetters) /\ i \in 2 .. Len(letters)
      BY <1>1, <1>3, <1>5, <1>11, <2>2
    <3>2. deadLetters'[i] = failures[Len(failures) + 1 - (i - 1)]
      BY <1>1, <1>3, <1>7, <1>11, <3>1
    <3>3. Len(failures) + 1 - (i - 1) \in 1 .. Len(failures)
      BY <1>1, <1>2, <1>9, <3>1, <2>2
    <3>4. Len(failures) + 1 - (i - 1) = Len(failures') + 1 - i
      BY <1>1, <1>8, <3>1
    <3> QED BY <1>8, <3>2, <3>3, <3>4
  <2> QED BY <2>1, <2>2
<1> QED BY <1>7, <1>8, <1>10, <1>11 DEF LatestFailures

\* What becomes of an event n that leaves the queue or its subscriber.
Outcome(n) == Handled(n) \/ Failed(n)
LEMMA OutcomeKept ==
    ASSUME BusInv, NEW n \in Ids, Outcome(n), UNCHANGED published
    PROVE  /\ LatestFailures'
           /\ deadLetters' \in Seq(Ids) /\ failures' \in Seq(Ids)
           /\ \E fate \in {"handled", "failed"} : fates' = [fates EXCEPT ![n] = fate]
<1>1. CASE Handled(n)
  <2>1. UNCHANGED <<deadLetters, failures>> /\ fates' = [fates EXCEPT ![n] = "handled"]
    BY <1>1 DEF Handled
  <2> QED BY <2>1 DEF BusInv, BusTypeOK, LatestFailures, Ids
<1>2. CASE Failed(n)
  <2>1. fates' = [fates EXCEPT ![n] = "failed"]
    BY <1>2 DEF Failed
  <2> QED BY <1>2, <2>1, FailureListed
<1> QED BY <1>1, <1>2 DEF Outcome

LEMMA PublishStep == ASSUME BusInv, NEW event \in Events, Publish(event) PROVE BusInv'
<1> DEFINE n == Len(published)
           q == Len(queue)
<1>1. /\ published \in Seq(Events) /\ queue \in Seq(Ids) /\ running \subseteq Ids
      /\ deadLetters \in Seq(Ids) /\ failures \in Seq(Ids) /\ fates \in [Ids -> Fate]
      /\ n \in Nat /\ q \in Nat /\ q <= n
  BY DEF BusInv, BusTypeOK, QueueInOrder, Ids, Fate
<1>2. /\ published' = Append(published, event) /\ queue' = Append(queue, n + 1)
      /\ fates' = Append(fates, "waiting") /\ UNCHANGED <<running, deadLetters, failures>>
  BY DEF Publish
<1>3. /\ Len(published') = n + 1 /\ published' \in Seq(Events)
      /\ Ids \subseteq 1 .. n + 1
  BY <1>1, <1>2 DEF Ids
<1>4. /\ queue' \in Seq(1 .. n + 1) /\ Len(queue') = q + 1 /\ queue'[q + 1] = n + 1
      /\ \A i \in 1 .. q : queue'[i] = queue[i]
  <2>1. n + 1 \in 1 .. n + 1
    BY <1>1
  <2>2. queue \in Seq(1 .. n + 1)
    BY <1>1, <1>3 DEF Ids
  <2> QED BY <1>1, <1>2, <2>1, <2>2
<1>5. /\ fates' \in [1 .. n + 1 -> Fate] /\ fates'[n + 1] = "waiting"
      /\ \A i \in 1 .. n : fates'[i] = fates[i]
  <2>1. fates \in Seq(Fate) /\ Len(fates) = n
    BY <1>1 DEF Ids
  <2>2. "waiting" \in Fate
    BY DEF Fate
  <2>3. /\ Append(fates, "waiting") \in Seq(Fate) /\ Len(Append(fates, "waiting")) = n + 1
        /\ Append(fates, "waiting")[n + 1] = "waiting"
        /\ \A i \in 1 .. n : Append(fates, "waiting")[i] = fates[i]
    BY <1>1, <2>1, <2>2, AppendProperties
  <2>4. fates' \in Seq(Fate) /\ Len(fates') = n + 1
    BY <1>2, <2>3
  <2>5. fates' \in [1 .. n + 1 -> Fate]
    BY <1>1, <2>4
  <2> QED BY <1>2, <2>3, <2>5
<1>6. BusTypeOK'
  <2>1. deadLetters' \in Seq(1 .. n + 1) /\ failures' \in Seq(1 .. n + 1)
    BY <1>1, <1>2, <1>3
  <2> QED BY <1>1, <1>2, <1>3, <1>4, <1>5, <2>1 DEF BusTypeOK, Fate
<1>7. QueueInOrder'
  <2>1. \A i \in 1 .. q + 1 : queue'[i] = (n + 1) - (q + 1) + i
    <3>1. \A i \in 1 .. q : queue[i] = n - q + i
      BY DEF BusInv, QueueInOrder
    <3>2. \A i \in 1 .. q : queue'[i] = (n + 1) - (q + 1) + i
      BY <1>1, <1>4, <3>1
    <3>3. queue'[q + 1] = (n + 1) - (q + 1) + (q + 1)
      BY <1>1, <1>4
    <3>4. \A i \in 1 .. q + 1 : i \in 1 .. q \/ i = q + 1
      BY <1>1
    <3> QED BY <3>2, <3>3, <3>4
  <2>2. \A m \in 1 .. n + 1 : fates'[m] = "waiting" <=> m > (n + 1) - (q + 1)
    BY <1>1, <1>5 DEF BusInv, QueueInOrder
  <2>3. \A m \in 1 .. n + 1 : fates'[m] = "running" <=> m \in running'
    BY <1>1, <1>2, <1>5 DEF BusInv, QueueInOrder, Ids
  <2> QED BY <1>1, <1>3, <1>4, <2>1, <2>2, <2>3 DEF QueueInOrder
<1>8. LatestFailures'
  BY <1>2 DEF BusInv, LatestFailures
<1> QED BY <1>6, <1>7, <1>8 DEF BusInv

\* The event whose emission is next is the first that waits.
LEMMA NextInQueue ==
    ASSUME BusInv, queue # <<>>
    PROVE  /\ Head(queue) \in Ids /\ Head(queue) = Len(published) - Len(queue) + 1
           /\ fates[Head(queue)] = "waiting"
           /\ \A k \in 1 .. Head(queue) - 1 : fates[k] # "waiting"
<1>1. /\ queue \in Seq(Ids) /\ Len(queue) \in Nat \ {0} /\ Len(published) \in Nat
      /\ Len(queue) <= Len(published) /\ Head(queue) = queue[1]
  BY DEF BusInv, BusTypeOK, QueueInOrder, Ids
<1>2. Head(queue) = Len(published) - Len(queue) + 1
  BY <1>1 DEF BusInv, QueueInOrder
<1> QED BY <1>1, <1>2 DEF BusInv, QueueInOrder, Ids

\* The event that is emitted leaves the queue; its subscriber is done, or
\* awaits something.
LEMMA LeavesQueue ==
    ASSUME BusInv, queue # <<>>, NEW fate \in {"running", "handled", "failed"},
           fates' = [fates EXCEPT ![Head(queue)] = fate],
           queue' = Tail(queue),
           running' = IF fate = "running" THEN running \cup {Head(queue)} ELSE running,
           UNCHANGED published,
           deadLetters' \in Seq(Ids), failures' \in Seq(Ids)
    PROVE  /\ BusTypeOK' /\ QueueInOrder'
           /\ Delivery!Start(Head(queue)) /\ Head(queue) \in DOMAIN fates
<1> DEFINE n == Head(queue)
           p == Len(published)
           q == Len(queue)
<1>1. /\ n \in Ids /\ n = p - q + 1 /\ fates[n] = "waiting"
      /\ \A k \in 1 .. n - 1 : fates[k] # "waiting"
  BY NextInQueue
<1>2. /\ published \in Seq(Events) /\ queue \in Seq(Ids) /\ running \subseteq Ids
      /\ fates \in [Ids -> Fate] /\ p \in Nat /\ q \in Nat \ {0} /\ q <= p
  BY DEF BusInv, BusTypeOK, QueueInOrder, Ids, Fate
<1>3. /\ queue' \in Seq(Ids) /\ Len(queue') = q - 1
      /\ \A i \in 1 .. q - 1 : queue'[i] = queue[i + 1]
  BY <1>2
<1>4. /\ fates' \in [Ids -> Fate] /\ fates'[n] = fate
      /\ \A m \in Ids \ {n} : fates'[m] = fates[m]
  BY <1>1, <1>2 DEF Fate
<1>5. BusTypeOK'
  BY <1>1, <1>2, <1>3, <1>4 DEF BusTypeOK, Ids, Fate
<1>6. QueueInOrder'
  <2>1. \A i \in 1 .. q - 1 : queue'[i] = p - (q - 1) + i
    <3>1. \A i \in 1 .. q : queue[i] = p - q + i
      BY DEF BusInv, QueueInOrder
    <3>2. ASSUME NEW i \in 1 .. q - 1 PROVE queue'[i] = p - (q - 1) + i
      <4>1. i + 1 \in 1 .. q /\ p - q + (i + 1) = p - (q - 1) + i
        BY <1>2
      <4> QED BY <1>3, <3>1, <4>1
    <3> QED BY <3>2
  <2>2. \A m \in 1 .. p : fates'[m] = "waiting" <=> m > p - (q - 1)
    <3>1. \A m \in 1 .. p : fates[m] = "waiting" <=> m > p - q
      BY DEF BusInv, QueueInOrder
    <3>2. \A m \in 1 .. p : m # n => (m > p - q <=> m > p - (q - 1))
      BY <1>1, <1>2
    <3>3. ~(n > p - (q - 1)) /\ fates'[n] # "waiting"
      BY <1>1, <1>2, <1>4
    <3> QED BY <1>4, <3>1, <3>2, <3>3 DEF Ids
  <2>3. \A m \in 1 .. p : fates'[m] = "running" <=> m \in running'
    <3>1. \A m \in 1 .. p : fates[m] = "running" <=> m \in running
      BY DEF BusInv, QueueInOrder
    <3>2. n \notin running
      BY <1>1, <3>1 DEF Ids
    <3> QED BY <1>1, <1>4, <3>1, <3>2 DEF Ids
  <2>4. q - 1 <= p
    BY <1>2
  <2> QED BY <1>3, <2>1, <2>2, <2>3, <2>4 DEF QueueInOrder
<1>7. Delivery!Start(n)
  BY <1>1 DEF Delivery!Start, Delivery!IsNextUp
<1> QED BY <1>1, <1>2, <1>5, <1>6, <1>7

LEMMA EmitStep ==
    ASSUME BusInv, Emit, UNCHANGED running, Outcome(Head(queue))
    PROVE  BusInv' /\ Delivery!Start(Head(queue)) /\ Head(queue) \in DOMAIN fates
<1>1. queue # <<>> /\ queue' = Tail(queue) /\ UNCHANGED published
  BY DEF Emit
<1>2. Head(queue) \in Ids
  BY <1>1, NextInQueue
<1>3. PICK fate \in {"handled", "failed"} : fates' = [fates EXCEPT ![Head(queue)] = fate]
  BY <1>1, <1>2, OutcomeKept
<1>4. LatestFailures' /\ deadLetters' \in Seq(Ids) /\ failures' \in Seq(Ids)
  BY <1>1, <1>2, OutcomeKept
<1> QED BY <1>1, <1>3, <1>4, LeavesQueue DEF BusInv

LEMMA AwaitStep ==
    ASSUME BusInv, EmitAwaiting
    PROVE  BusInv' /\ Delivery!Start(Head(queue)) /\ Head(queue) \in DOMAIN fates
<1>1. /\ queue # <<>> /\ queue' = Tail(queue) /\ running' = running \cup {Head(queue)}
      /\ fates' = [fates EXCEPT ![Head(queue)] = "running"]
      /\ UNCHANGED <<published, deadLetters, failures>>
  BY DEF EmitAwaiting, Emit
<1>2. deadLetters' \in Seq(Ids) /\ failures' \in Seq(Ids)
  BY <1>1 DEF BusInv, BusTypeOK, Ids
<1>3. LatestFailures'
  BY <1>1 DEF BusInv, LatestFailures
<1> QED BY <1>1, <1>2, <1>3, LeavesQueue DEF BusInv

LEMMA ResumeStep ==
    ASSUME BusInv, NEW n \in running, Resume(n)
    PROVE  BusInv' /\ Delivery!Settle(n) /\ n \in DOMAIN fates
<1> DEFINE p == Len(published)
           q == Len(queue)
<1>1. running' = running \ {n} /\ Outcome(n) /\ UNCHANGED <<published, queue>>
  BY DEF Resume, Outcome
<1>2. /\ published \in Seq(Events) /\ queue \in Seq(Ids) /\ running \subseteq Ids
      /\ fates \in [Ids -> Fate] /\ n \in Ids
  BY DEF BusInv, BusTypeOK, Ids, Fate
<1>3. PICK fate \in {"handled", "failed"} : fates' = [fates EXCEPT ![n] = fate]
  BY <1>1, <1>2, OutcomeKept
<1>4. LatestFailures' /\ deadLetters' \in Seq(Ids) /\ failures' \in Seq(Ids)
  BY <1>1, <1>2, OutcomeKept
<1>5. fates[n] = "running"
  BY <1>2 DEF BusInv, QueueInOrder, Ids
<1>6. fates' \in [Ids -> Fate] /\ fates'[n] = fate /\ \A m \in Ids \ {n} : fates'[m] = fates[m]
  BY <1>2, <1>3 DEF Fate
<1>7. BusTypeOK'
  BY <1>1, <1>2, <1>4, <1>6 DEF BusTypeOK, Ids, Fate
<1>8. QueueInOrder'
  BY <1>1, <1>2, <1>5, <1>6 DEF BusInv, QueueInOrder, Ids
<1>9. Delivery!Settle(n)
  BY <1>3, <1>5 DEF Delivery!Settle
<1> QED BY <1>2, <1>4, <1>7, <1>8, <1>9 DEF BusInv

LEMMA StopStep == ASSUME BusInv, StopBus PROVE BusInv' /\ Delivery!Stop
<1>1. /\ queue' = <<>> /\ running' = {} /\ deadLetters' = <<>> /\ failures' = <<>>
      /\ UNCHANGED published
      /\ fates' = [n \in DOMAIN fates |->
                     IF fates[n] \in {"waiting", "running"} THEN "lost" ELSE fates[n]]
  BY DEF StopBus
<1>2. published \in Seq(Events) /\ Len(published) \in Nat /\ fates \in [Ids -> Fate]
  BY DEF BusInv, BusTypeOK, Ids, Fate
<1>3. /\ fates' \in [Ids -> Fate]
      /\ \A m \in Ids : fates'[m] # "waiting" /\ fates'[m] # "running"
  BY <1>1, <1>2 DEF Fate
<1>4. BusTypeOK'
  BY <1>1, <1>2, <1>3 DEF BusTypeOK, Ids, Fate
<1>5. QueueInOrder'
  BY <1>1, <1>2, <1>3 DEF QueueInOrder, Ids
<1>6. LatestFailures'
  BY <1>1, MinOfTwo, EventBusAssumption DEF LatestFailures
<1>7. Delivery!Stop
  BY <1>1 DEF Delivery!Stop, Delivery!Unsettled
<1> QED BY <1>4, <1>5, <1>6, <1>7 DEF BusInv

\* Every step keeps the invariant and is a step, or none, of OrderedDelivery.
LEMMA BusStep == BusInv /\ [BusNext]_busVars => BusInv' /\ [Delivery!Next]_fates
<1> SUFFICES ASSUME BusInv, [BusNext]_busVars PROVE BusInv' /\ [Delivery!Next]_fates
  OBVIOUS
<1>1. ASSUME NEW event \in Events, Publish(event) PROVE BusInv' /\ Delivery!Next
  BY <1>1, PublishStep DEF Publish, Delivery!Next, Delivery!Send
<1>2. ASSUME EmitHandled \/ EmitFailed PROVE BusInv' /\ Delivery!Next
  BY <1>2, EmitStep DEF EmitHandled, EmitFailed, Outcome, Delivery!Next
<1>3. ASSUME EmitAwaiting PROVE BusInv' /\ Delivery!Next
  BY <1>3, AwaitStep DEF Delivery!Next
<1>4. ASSUME NEW n \in running, Resume(n) PROVE BusInv' /\ Delivery!Next
  BY <1>4, ResumeStep DEF Delivery!Next
<1>5. ASSUME StopBus PROVE BusInv' /\ Delivery!Next
  BY <1>5, StopStep DEF Delivery!Next
<1>6. ASSUME UNCHANGED busVars PROVE BusInv' /\ UNCHANGED fates
  BY <1>6 DEF busVars, BusInv, BusTypeOK, QueueInOrder, LatestFailures
<1> QED BY <1>1, <1>2, <1>3, <1>4, <1>5, <1>6 DEF BusNext

LEMMA BusInvariant == BusSpec => []BusInv
BY BusInitial, BusStep, PTL DEF BusSpec

\* Every event has one fate, and lists hold events that were published.
THEOREM BusTyped == BusSpec => []BusTypeOK
BY BusInvariant, PTL DEF BusInv

\* What waits is the end of what was published, in its order and without a
\* gap, however subscribers await and end and the process stops; the list of
\* dead letters is that of the latest failures, newest first, of any length.
THEOREM InOrder == BusSpec => []BusAgrees
BY BusInvariant, PTL DEF BusInv, BusAgrees

\* The bus implements OrderedDelivery: at most once, in the order of
\* publication, and what is settled stays so.
THEOREM Implements == BusSpec => DeliversInOrder
<1>1. BusInit => Delivery!Init
  BY DEF BusInit, Delivery!Init
<1> QED BY <1>1, BusInvariant, BusStep, PTL DEF BusSpec, DeliversInOrder, Delivery!Spec

(***************************************************************************)
(* Work orders: completions and their expenses.                            *)
(***************************************************************************)
Spent(o, c) == {t \in ExpensesOf(o) : transactions[t].amount = c}
Done(o, c) ==
    {n \in Completions(o) : published[n].cost = c /\ fates[n] = "handled"}

Matched ==
    \A o : \A c \in Costs \ {0} : Cardinality(Spent(o, c)) = Cardinality(Done(o, c))

Tables ==
    /\ IsTable(transactions) /\ IsTable(published) /\ IsTable(queue) /\ IsTable(fates)
    /\ Len(fates) = Len(published)

\* What is scheduled waits, and is scheduled once: it cannot be handled twice.
ScheduledOnce ==
    /\ \A k \in DOMAIN queue : queue[k] \in DOMAIN fates /\ fates[queue[k]] = "waiting"
    /\ \A j, k \in DOMAIN queue : queue[j] = queue[k] => j = k

CostsKnown == \A n \in DOMAIN published : published[n].cost \in Costs

EMInv == Costs \subseteq Nat /\ Tables /\ ScheduledOnce /\ CostsKnown /\ Matched

LEMMA Initial == WorkOrdersAssumption /\ WOInit => EMInv
<1> SUFFICES ASSUME WorkOrdersAssumption, WOInit PROVE EMInv
  OBVIOUS
<1>1. transactions = <<>> /\ published = <<>> /\ queue = <<>> /\ fates = <<>>
  BY DEF WOInit, TxInit, BusInit
<1>2. \A S : <<>> \in Seq(S)
  OBVIOUS
<1>3. Tables
  BY <1>1, <1>2 DEF Tables, IsTable
<1>4. \A o, c : Spent(o, c) = {} /\ Done(o, c) = {}
  BY <1>1 DEF Spent, Done, ExpensesOf, Completions
<1>5. Matched
  BY <1>4 DEF Matched
<1>6. ScheduledOnce /\ CostsKnown
  BY <1>1 DEF ScheduledOnce, CostsKnown
<1> QED BY <1>3, <1>5, <1>6 DEF EMInv, WorkOrdersAssumption

LEMMA Countable ==
    ASSUME Tables, NEW o, NEW c
    PROVE  IsFiniteSet(Spent(o, c)) /\ IsFiniteSet(Done(o, c))
<1>1. Spent(o, c) \subseteq 1 .. Len(transactions) /\ Len(transactions) \in Nat
  BY TableRows DEF Tables, Spent, ExpensesOf
<1>2. Done(o, c) \subseteq 1 .. Len(published) /\ Len(published) \in Nat
  BY TableRows DEF Tables, Done, Completions
<1>3. IsFiniteSet(1 .. Len(transactions)) /\ IsFiniteSet(1 .. Len(published))
  BY <1>1, <1>2, FS_Interval
<1> QED BY <1>1, <1>2, <1>3, FS_Subset

(***************************************************************************)
(* Transactions that are added.                                            *)
(***************************************************************************)
LEMMA OtherSpending ==
    ASSUME Tables, NEW row, transactions' = Append(transactions, row), NEW o, NEW c,
           row.reference # Reference(o) \/ row.amount # c
    PROVE  Spent(o, c)' = Spent(o, c)
<1> DEFINE n == Len(transactions)
<1>1. /\ n \in Nat /\ DOMAIN transactions = 1 .. n /\ DOMAIN transactions' = 1 .. n + 1
      /\ transactions'[n + 1] = row
      /\ \A t \in 1 .. n : transactions'[t] = transactions[t]
  BY TableRows, TableAppended DEF Tables
<1> HIDE DEF n
<1>2. 1 .. n + 1 = (1 .. n) \cup {n + 1}
  BY <1>1
<1>3. Reference(o)' = Reference(o)
  BY DEF Reference
<1>4. Spent(o, c) = {t \in 1 .. n : /\ transactions[t].reference = Reference(o)
                                    /\ transactions[t].amount = c}
  BY <1>1 DEF Spent, ExpensesOf
<1>5. Spent(o, c)' = {t \in (1 .. n) \cup {n + 1} :
                        /\ transactions'[t].reference = Reference(o)
                        /\ transactions'[t].amount = c}
  BY <1>1, <1>2, <1>3 DEF Spent, ExpensesOf
<1> QED BY <1>1, <1>4, <1>5

LEMMA MoreSpending ==
    ASSUME Tables, NEW row, transactions' = Append(transactions, row), NEW o, NEW c,
           row.reference = Reference(o) /\ row.amount = c
    PROVE  Cardinality(Spent(o, c)') = Cardinality(Spent(o, c)) + 1
<1> DEFINE n == Len(transactions)
<1>1. /\ n \in Nat /\ DOMAIN transactions = 1 .. n /\ DOMAIN transactions' = 1 .. n + 1
      /\ transactions'[n + 1] = row
      /\ \A t \in 1 .. n : transactions'[t] = transactions[t]
  BY TableRows, TableAppended DEF Tables
<1> HIDE DEF n
<1>2. 1 .. n + 1 = (1 .. n) \cup {n + 1} /\ n + 1 \notin 1 .. n
  BY <1>1
<1>3. Reference(o)' = Reference(o)
  BY DEF Reference
<1>4. Spent(o, c) = {t \in 1 .. n : /\ transactions[t].reference = Reference(o)
                                    /\ transactions[t].amount = c}
  BY <1>1 DEF Spent, ExpensesOf
<1>5. Spent(o, c)' = {t \in (1 .. n) \cup {n + 1} :
                        /\ transactions'[t].reference = Reference(o)
                        /\ transactions'[t].amount = c}
  BY <1>1, <1>2, <1>3 DEF Spent, ExpensesOf
<1>6. Spent(o, c)' = Spent(o, c) \cup {n + 1} /\ n + 1 \notin Spent(o, c)
  BY <1>1, <1>2, <1>4, <1>5
<1>7. IsFiniteSet(Spent(o, c))
  BY Countable
<1> QED BY <1>6, <1>7, FS_AddElement

(***************************************************************************)
(* Events that get another fate.                                           *)
(***************************************************************************)
\* The event of which the emission is next.
LEMMA NextWaits ==
    ASSUME EMInv, Emit
    PROVE  /\ Head(queue) \in DOMAIN published /\ DOMAIN fates = DOMAIN published
           /\ fates[Head(queue)] = "waiting"
           /\ published[Head(queue)].cost \in Nat
           /\ published' = published
<1>1. queue # <<>> /\ IsTable(queue) /\ published' = published
  BY DEF EMInv, Tables, Emit
<1>2. Len(queue) \in Nat /\ Len(queue) # 0 /\ Head(queue) = queue[1] /\ DOMAIN queue = 1 .. Len(queue)
  BY <1>1 DEF IsTable
<1>3. 1 \in DOMAIN queue
  BY <1>2
<1>4. DOMAIN fates = DOMAIN published
  BY TableRows DEF EMInv, Tables
<1> QED BY <1>1, <1>2, <1>3, <1>4 DEF EMInv, ScheduledOnce, CostsKnown

LEMMA EmissionKept ==
    ASSUME EMInv, Emit, NEW fate, fates' = [fates EXCEPT ![Head(queue)] = fate],
           IsTable(transactions)'
    PROVE  Tables' /\ ScheduledOnce' /\ CostsKnown'
<1> DEFINE q == Len(queue)
           h == Head(queue)
<1>1. /\ Tables /\ ScheduledOnce /\ CostsKnown
      /\ queue # <<>> /\ queue' = Tail(queue) /\ published' = published
  BY DEF EMInv, Emit
<1>2. /\ q \in Nat /\ q # 0 /\ DOMAIN queue = 1 .. q /\ h = queue[1]
      /\ IsTable(queue') /\ DOMAIN queue' = 1 .. q - 1
      /\ \A k \in 1 .. q - 1 : queue'[k] = queue[k + 1]
  <2> DEFINE S == {queue[k] : k \in DOMAIN queue}
  <2>1. queue \in Seq(S) /\ q \in Nat /\ DOMAIN queue = 1 .. q
    BY <1>1, TableRows DEF Tables, IsTable
  <2> HIDE DEF S
  <2>2. q # 0
    BY <1>1, <2>1, EmptySeq
  <2>3. /\ Head(queue) = queue[1] /\ Tail(queue) \in Seq(S)
        /\ Len(Tail(queue)) = q - 1
        /\ \A k \in 1 .. q - 1 : Tail(queue)[k] = queue[k + 1]
    BY <2>1, <2>2
  <2>4. DOMAIN Tail(queue) = 1 .. q - 1
    BY <2>3
  <2> QED BY <1>1, <2>1, <2>2, <2>3, <2>4, TableOf
<1> HIDE DEF q, h
<1>3. /\ DOMAIN fates' = DOMAIN fates
      /\ \A n \in DOMAIN fates \ {h} : fates'[n] = fates[n]
  BY DEF h
<1>4. IsTable(fates') /\ Len(fates') = Len(fates)
  <2> DEFINE S == {fates'[n] : n \in DOMAIN fates'}
  <2>1. Len(fates) \in Nat /\ DOMAIN fates = 1 .. Len(fates)
    BY <1>1, TableRows DEF Tables
  <2>2. fates' \in [1 .. Len(fates) -> S]
    BY <1>3, <2>1
  <2> HIDE DEF S
  <2> QED BY <2>1, <2>2, TableFrom
<1>5. Tables'
  BY <1>1, <1>2, <1>4 DEF Tables
<1>6. ASSUME NEW k \in 1 .. q - 1
      PROVE  k + 1 \in DOMAIN queue /\ 1 \in DOMAIN queue /\ k + 1 # 1 /\ queue'[k] = queue[k + 1]
  BY <1>2
<1>7. ASSUME NEW k \in DOMAIN queue'
      PROVE  queue'[k] \in DOMAIN fates' /\ fates'[queue'[k]] = "waiting"
  <2>1. k + 1 \in DOMAIN queue /\ 1 \in DOMAIN queue /\ k + 1 # 1 /\ queue'[k] = queue[k + 1]
    BY <1>2, <1>6
  <2>2. queue[k + 1] # h /\ queue[k + 1] \in DOMAIN fates /\ fates[queue[k + 1]] = "waiting"
    BY <1>1, <1>2, <2>1 DEF ScheduledOnce
  <2> QED BY <1>3, <2>1, <2>2
<1>8. ASSUME NEW j \in DOMAIN queue', NEW k \in DOMAIN queue', queue'[j] = queue'[k]
      PROVE  j = k
  <2>1. j + 1 \in DOMAIN queue /\ k + 1 \in DOMAIN queue /\ queue[j + 1] = queue[k + 1]
    BY <1>2, <1>6, <1>8
  <2>2. j + 1 = k + 1
    BY <1>1, <2>1 DEF ScheduledOnce
  <2> QED BY <1>2, <2>2
<1>9. CostsKnown'
  BY <1>1 DEF CostsKnown
<1> QED BY <1>5, <1>7, <1>8, <1>9 DEF ScheduledOnce

\* The completions handled are the same when the fate of n is not to be, or n
\* is not a completion of this order at this cost.
LEMMA OtherHandled ==
    ASSUME EMInv, Emit, NEW fate, fates' = [fates EXCEPT ![Head(queue)] = fate],
           NEW o, NEW c,
           \/ fate # "handled"
           \/ published[Head(queue)].topic # "work_order.completed"
           \/ published[Head(queue)].order # o
           \/ published[Head(queue)].cost # c
    PROVE  Done(o, c)' = Done(o, c)
<1> DEFINE h == Head(queue)
<1>1. /\ h \in DOMAIN published /\ DOMAIN fates = DOMAIN published
      /\ fates[h] = "waiting" /\ published' = published
  BY NextWaits
<1> HIDE DEF h
<1>2. fates'[h] = fate /\ \A n \in DOMAIN published \ {h} : fates'[n] = fates[n]
  BY <1>1 DEF h
<1>3. \/ fate # "handled" \/ published[h].topic # "work_order.completed"
      \/ published[h].order # o \/ published[h].cost # c
  BY DEF h
<1>4. h \notin Done(o, c)
  BY <1>1 DEF Done
<1>5. Done(o, c)' = {n \in DOMAIN published :
                       /\ published[n].topic = "work_order.completed"
                       /\ published[n].order = o /\ published[n].cost = c
                       /\ fates'[n] = "handled"}
  BY <1>1 DEF Done, Completions
<1>6. h \notin Done(o, c)'
  BY <1>2, <1>3, <1>5
<1>7. Done(o, c) = {n \in DOMAIN published :
                      /\ published[n].topic = "work_order.completed"
                      /\ published[n].order = o /\ published[n].cost = c
                      /\ fates[n] = "handled"}
  BY DEF Done, Completions
<1>8. \A n : n # h => (n \in Done(o, c)' <=> n \in Done(o, c))
  BY <1>2, <1>5, <1>7
<1> QED BY <1>4, <1>6, <1>8

LEMMA MoreHandled ==
    ASSUME EMInv, Emit, fates' = [fates EXCEPT ![Head(queue)] = "handled"],
           NEW o, NEW c,
           published[Head(queue)].topic = "work_order.completed",
           published[Head(queue)].order = o,
           published[Head(queue)].cost = c
    PROVE  Cardinality(Done(o, c)') = Cardinality(Done(o, c)) + 1
<1> DEFINE h == Head(queue)
<1>1. /\ h \in DOMAIN published /\ DOMAIN fates = DOMAIN published
      /\ fates[h] = "waiting" /\ published' = published
  BY NextWaits
<1> HIDE DEF h
<1>2. fates'[h] = "handled" /\ \A n \in DOMAIN published \ {h} : fates'[n] = fates[n]
  BY <1>1 DEF h
<1>3. /\ published[h].topic = "work_order.completed"
      /\ published[h].order = o /\ published[h].cost = c
  BY DEF h
<1>4. h \notin Done(o, c)
  BY <1>1 DEF Done
<1>5. Done(o, c)' = {n \in DOMAIN published :
                       /\ published[n].topic = "work_order.completed"
                       /\ published[n].order = o /\ published[n].cost = c
                       /\ fates'[n] = "handled"}
  BY <1>1 DEF Done, Completions
<1>6. h \in Done(o, c)'
  BY <1>1, <1>2, <1>3, <1>5
<1>7. Done(o, c) = {n \in DOMAIN published :
                      /\ published[n].topic = "work_order.completed"
                      /\ published[n].order = o /\ published[n].cost = c
                      /\ fates[n] = "handled"}
  BY DEF Done, Completions
<1>8. \A n : n # h => (n \in Done(o, c)' <=> n \in Done(o, c))
  BY <1>2, <1>5, <1>7
<1>9. Done(o, c)' = Done(o, c) \cup {h}
  BY <1>6, <1>8
<1>10. IsFiniteSet(Done(o, c))
  BY Countable DEF EMInv
<1> QED BY <1>4, <1>9, <1>10, FS_AddElement

LEMMA SameSets ==
    ASSUME EMInv, UNCHANGED <<transactions, published, queue, fates>>
    PROVE  EMInv'
<1>1. Costs' = Costs
  OBVIOUS
<1>2. Tables' /\ ScheduledOnce' /\ CostsKnown'
  BY DEF EMInv, Tables, ScheduledOnce, CostsKnown
<1>3. \A o, c : Spent(o, c)' = Spent(o, c) /\ Done(o, c)' = Done(o, c)
  BY DEF Spent, Done, ExpensesOf, Completions, Reference
<1>4. Matched'
  BY <1>3 DEF EMInv, Matched
<1> QED BY <1>2, <1>4 DEF EMInv

\* A completion is published: its event waits.
LEMMA Published ==
    ASSUME EMInv, NEW o, NEW cost \in Costs, CompleteWorkOrder(o, cost)
    PROVE  EMInv'
<1> DEFINE event == Completion(o, cost)
           n == Len(published)
           q == Len(queue)
<1>1. /\ published' = Append(published, event) /\ queue' = Append(queue, n + 1)
      /\ fates' = Append(fates, "waiting") /\ transactions' = transactions
      /\ event.cost = cost
  BY DEF CompleteWorkOrder, Publish, Completion, TxVars
<1> HIDE DEF event
<1>2. /\ IsTable(transactions) /\ IsTable(published) /\ IsTable(queue) /\ IsTable(fates)
      /\ Len(fates) = n
  BY DEF EMInv, Tables
<1>3. /\ n \in Nat /\ DOMAIN published = 1 .. n /\ DOMAIN published' = 1 .. n + 1
      /\ Len(published') = n + 1 /\ IsTable(published')
      /\ published'[n + 1] = event
      /\ \A k \in 1 .. n : published'[k] = published[k]
  BY <1>1, <1>2, TableRows, TableAppended
<1>4. /\ DOMAIN fates = 1 .. n /\ DOMAIN fates' = 1 .. n + 1
      /\ Len(fates') = n + 1 /\ IsTable(fates')
      /\ fates'[n + 1] = "waiting"
      /\ \A k \in 1 .. n : fates'[k] = fates[k]
  BY <1>1, <1>2, TableRows, TableAppended
<1>5. /\ q \in Nat /\ DOMAIN queue = 1 .. q /\ DOMAIN queue' = 1 .. q + 1
      /\ IsTable(queue') /\ queue'[q + 1] = n + 1
      /\ \A k \in 1 .. q : queue'[k] = queue[k]
  BY <1>1, <1>2, TableRows, TableAppended
<1> HIDE DEF n, q
<1>6. Tables'
  BY <1>1, <1>2, <1>3, <1>4, <1>5 DEF Tables
<1>7. \A k \in 1 .. q : queue[k] \in 1 .. n /\ fates[queue[k]] = "waiting"
  BY <1>4, <1>5 DEF EMInv, ScheduledOnce
<1>8. \A k \in 1 .. q + 1 : k \in 1 .. q \/ k = q + 1
  BY <1>5
<1>9. n + 1 \notin 1 .. n /\ \A k \in 1 .. n + 1 : k \in 1 .. n \/ k = n + 1
  BY <1>3
<1>10. ASSUME NEW k \in DOMAIN queue'
       PROVE  queue'[k] \in DOMAIN fates' /\ fates'[queue'[k]] = "waiting"
  <2>1. CASE k \in 1 .. q
    <3>1. queue'[k] \in 1 .. n /\ fates[queue'[k]] = "waiting"
      BY <1>5, <1>7, <2>1
    <3>2. queue'[k] \in 1 .. n + 1
      BY <1>3, <3>1
    <3> QED BY <1>4, <3>1, <3>2
  <2>2. CASE k = q + 1
    <3>1. n + 1 \in 1 .. n + 1
      BY <1>3
    <3> QED BY <1>4, <1>5, <2>2, <3>1
  <2> QED BY <1>5, <1>8, <2>1, <2>2
<1>11. ASSUME NEW j \in DOMAIN queue', NEW k \in DOMAIN queue', queue'[j] = queue'[k]
       PROVE  j = k
  <2>1. j \in 1 .. q /\ k \in 1 .. q => j = k
    BY <1>5, <1>11 DEF EMInv, ScheduledOnce
  <2>2. ~(j \in 1 .. q /\ k = q + 1) /\ ~(k \in 1 .. q /\ j = q + 1)
    BY <1>5, <1>7, <1>9, <1>11
  <2> QED BY <1>5, <1>8, <2>1, <2>2
<1>12. CostsKnown'
  BY <1>1, <1>3, <1>9 DEF EMInv, CostsKnown
<1>13. ASSUME NEW p, NEW c
       PROVE  Spent(p, c)' = Spent(p, c) /\ Done(p, c)' = Done(p, c)
  <2>1. Spent(p, c)' = Spent(p, c)
    BY <1>1 DEF Spent, ExpensesOf, Reference
  <2>2. \A k \in 1 .. n : k \in Done(p, c)' <=> k \in Done(p, c)
    BY <1>3, <1>4, <1>9 DEF Done, Completions
  <2>3. n + 1 \notin Done(p, c)'
    BY <1>4 DEF Done
  <2>4. Done(p, c) \subseteq 1 .. n /\ Done(p, c)' \subseteq 1 .. n + 1
    BY <1>3 DEF Done, Completions
  <2>5. Done(p, c)' \subseteq 1 .. n
    BY <1>9, <2>3, <2>4
  <2> QED BY <2>1, <2>2, <2>4, <2>5
<1>14. Matched'
  BY <1>13 DEF EMInv, Matched
<1> QED BY <1>6, <1>10, <1>11, <1>12, <1>14 DEF EMInv, ScheduledOnce

\* A transaction that a user enters refers to no order.
LEMMA Entered ==
    ASSUME EMInv, NEW input, CreateFromRequest(input),
           UNCHANGED <<published, queue, fates>>
    PROVE  EMInv'
<1>1. PICK row : transactions' = Append(transactions, row) /\ row.reference = NoReference
  BY DEF CreateFromRequest, CreateTransaction, PostWithRow, Row
<1>2. \A o : NoReference # Reference(o)
  BY DEF NoReference, Reference
<1>3. \A o, c : Spent(o, c)' = Spent(o, c)
  BY <1>1, <1>2, OtherSpending DEF EMInv
<1>4. \A o, c : Done(o, c)' = Done(o, c)
  BY DEF Done, Completions
<1>5. Matched'
  BY <1>3, <1>4 DEF EMInv, Matched
<1>6. IsTable(transactions')
  BY <1>1, TableAppended DEF EMInv, Tables
<1>7. Tables' /\ ScheduledOnce' /\ CostsKnown'
  BY <1>6 DEF EMInv, Tables, ScheduledOnce, CostsKnown
<1> QED BY <1>5, <1>7 DEF EMInv

\* An event that books nothing is handled, or one fails.
LEMMA Unbooked ==
    ASSUME EMInv, DeliverWithoutEffect \/ DeliverDeadLetter
    PROVE  EMInv'
<1> DEFINE event == published[Head(queue)]
<1>1. Emit /\ transactions' = transactions
  BY DEF DeliverWithoutEffect, DeliverDeadLetter, EmitHandled, EmitFailed, TxVars
<1>2. PICK fate : /\ fates' = [fates EXCEPT ![Head(queue)] = fate]
                  /\ fate # "handled" \/ NothingToDo(event)
  <2>1. CASE DeliverWithoutEffect
    BY <2>1 DEF DeliverWithoutEffect, EmitHandled, Handled
  <2>2. CASE DeliverDeadLetter
    <3>1. fates' = [fates EXCEPT ![Head(queue)] = "failed"]
      BY <2>2 DEF DeliverDeadLetter, EmitFailed, Failed
    <3>2. "failed" # "handled"
      OBVIOUS
    <3> QED BY <3>1, <3>2
  <2> QED BY <2>1, <2>2
<1>3. Tables' /\ ScheduledOnce' /\ CostsKnown'
  BY <1>1, <1>2, EmissionKept DEF EMInv, Tables
<1>4. event.cost \in Nat
  BY <1>1, NextWaits
<1>5. ASSUME NEW o, NEW c \in Costs \ {0} PROVE Done(o, c)' = Done(o, c)
  <2>1. \/ fate # "handled" \/ event.topic # "work_order.completed" \/ event.cost # c
    BY <1>2, <1>4, <1>5 DEF NothingToDo, EMInv
  <2> QED BY <1>1, <1>2, <2>1, OtherHandled
<1>6. \A o, c : Spent(o, c)' = Spent(o, c)
  BY <1>1 DEF Spent, ExpensesOf, Reference
<1>7. Matched'
  BY <1>5, <1>6 DEF EMInv, Matched
<1> QED BY <1>3, <1>7 DEF EMInv

\* A completion is handled and its expense posted: both counts grow by one.
LEMMA Booked == ASSUME EMInv, DeliverExpense PROVE EMInv'
<1> DEFINE event == published[Head(queue)]
<1>1. /\ Emit /\ fates' = [fates EXCEPT ![Head(queue)] = "handled"]
      /\ ~NothingToDo(event) /\ PostExpense(event)
  BY DEF DeliverExpense, EmitHandled, Handled
<1>2. event.cost \in Nat
  BY <1>1, NextWaits
<1>3. event.topic = "work_order.completed" /\ event.cost > 0
  BY <1>1, <1>2 DEF NothingToDo
<1>4. Magnitude(event.cost) = event.cost
  BY <1>2 DEF Magnitude
<1> HIDE DEF event
<1>5. PICK row : /\ transactions' = Append(transactions, row)
                 /\ row.reference = Reference(event.order) /\ row.amount = event.cost
  BY <1>1, <1>4 DEF PostExpense, CreateTransaction, PostWithRow, Row
<1>6. IsTable(transactions')
  BY <1>5, TableAppended DEF EMInv, Tables
<1>7. Tables' /\ ScheduledOnce' /\ CostsKnown'
  BY <1>1, <1>6, EmissionKept
<1>8. ASSUME NEW o, NEW c \in Costs \ {0}
      PROVE  Cardinality(Spent(o, c)') = Cardinality(Done(o, c)')
  <2>1. Cardinality(Spent(o, c)) = Cardinality(Done(o, c)) /\ Tables
    BY DEF EMInv, Matched
  <2>2. CASE o = event.order /\ c = event.cost
    <3>1. Cardinality(Spent(o, c)') = Cardinality(Spent(o, c)) + 1
      BY <1>5, <2>1, <2>2, MoreSpending
    <3>2. Cardinality(Done(o, c)') = Cardinality(Done(o, c)) + 1
      BY <1>1, <1>3, <2>2, MoreHandled DEF event
    <3> QED BY <2>1, <3>1, <3>2
  <2>3. CASE o # event.order \/ c # event.cost
    <3>1. row.reference # Reference(o) \/ row.amount # c
      BY <1>5, <2>3 DEF Reference
    <3>2. Spent(o, c)' = Spent(o, c)
      BY <1>5, <2>1, <3>1, OtherSpending
    <3>3. Done(o, c)' = Done(o, c)
      BY <1>1, <2>3, OtherHandled DEF event
    <3> QED BY <2>1, <3>2, <3>3
  <2> QED BY <2>2, <2>3
<1>9. Matched'
  BY <1>8 DEF Matched
<1> QED BY <1>7, <1>9 DEF EMInv

\* The process stops: what waits is lost, what was handled stays so.
LEMMA Stopped == ASSUME EMInv, Restart PROVE EMInv'
<1>1. /\ transactions' = transactions /\ published' = published /\ queue' = <<>>
      /\ fates' = [n \in DOMAIN fates |->
                     IF fates[n] \in {"waiting", "running"} THEN "lost" ELSE fates[n]]
  BY DEF Restart, StopBus, TxVars
<1>2. \A n \in DOMAIN fates : fates'[n] = "handled" <=> fates[n] = "handled"
  BY <1>1
<1>3. DOMAIN fates' = DOMAIN fates /\ DOMAIN fates = DOMAIN published
  BY <1>1, TableRows DEF EMInv, Tables
<1>4. \A o, c : Spent(o, c)' = Spent(o, c) /\ Done(o, c)' = Done(o, c)
  <2> SUFFICES ASSUME NEW o, NEW c
               PROVE  Spent(o, c)' = Spent(o, c) /\ Done(o, c)' = Done(o, c)
    OBVIOUS
  <2>1. Spent(o, c)' = Spent(o, c)
    BY <1>1 DEF Spent, ExpensesOf, Reference
  <2>2. Done(o, c)' = Done(o, c)
    BY <1>1, <1>2, <1>3 DEF Done, Completions
  <2> QED BY <2>1, <2>2
<1>5. IsTable(fates') /\ Len(fates') = Len(fates)
  <2> DEFINE S == {fates'[n] : n \in DOMAIN fates'}
  <2>1. Len(fates) \in Nat /\ DOMAIN fates = 1 .. Len(fates)
    BY TableRows DEF EMInv, Tables
  <2>2. fates' \in [1 .. Len(fates) -> S]
    BY <1>1, <2>1
  <2> HIDE DEF S
  <2> QED BY <2>1, <2>2, TableFrom
<1>6. IsTable(queue') /\ DOMAIN queue' = {}
  <2>1. <<>> \in Seq({<<>>[k] : k \in DOMAIN <<>>}) /\ DOMAIN <<>> = {}
    OBVIOUS
  <2> QED BY <1>1, <2>1 DEF IsTable
<1>7. Tables'
  BY <1>1, <1>5, <1>6 DEF EMInv, Tables
<1>8. ScheduledOnce' /\ CostsKnown'
  BY <1>1, <1>6 DEF EMInv, ScheduledOnce, CostsKnown
<1> QED BY <1>4, <1>7, <1>8 DEF EMInv, Matched

LEMMA Step == EMInv /\ [WONext]_WOVars => EMInv'
<1> SUFFICES ASSUME EMInv, [WONext]_WOVars PROVE EMInv'
  OBVIOUS
<1>1. CASE ManageOrders
  <2>1. CASE \E o \in DOMAIN orders, cost \in Costs : CompleteWorkOrder(o, cost)
    BY <2>1, Published
  <2>2. CASE \E p \in Properties, c \in Categories, s \in Statuses,
                v \in Vendors \cup {NoVendor}, e \in Costs : CreateWorkOrder(p, c, s, v, e)
    <3>1. UNCHANGED <<transactions, published, queue, fates>>
      BY <2>2 DEF CreateWorkOrder, TxVars, busVars
    <3> QED BY <3>1, SameSets
  <2>3. CASE \E o \in DOMAIN orders, p \in Properties, c \in Categories, s \in Statuses,
                v \in Vendors \cup {NoVendor}, e, a \in Costs :
                UpdateWorkOrder(o, p, c, s, v, e, a)
    <3>1. UNCHANGED <<transactions, published, queue, fates>>
      BY <2>3 DEF UpdateWorkOrder, TxVars, busVars
    <3> QED BY <3>1, SameSets
  <2>4. CASE \E o \in DOMAIN orders : DeleteWorkOrder(o)
    <3>1. UNCHANGED <<transactions, published, queue, fates>>
      BY <2>4 DEF DeleteWorkOrder, TxVars, busVars
    <3> QED BY <3>1, SameSets
  <2> QED BY <1>1, <2>1, <2>2, <2>3, <2>4 DEF ManageOrders
<1>2. CASE ManageVendors
  <2>1. UNCHANGED <<transactions, published, queue, fates>>
    BY <1>2 DEF ManageVendors, AssignWorkOrderVendor, RemoveWorkOrderVendor, SetVerified,
                TxVars, busVars
  <2> QED BY <2>1, SameSets
<1>3. CASE Books
  <2>1. UNCHANGED <<published, queue, fates>>
    BY <1>3 DEF Books, busVars
  <2>2. CASE \E input \in Inputs : CreateFromRequest(input)
    BY <2>1, <2>2, Entered
  <2>3. CASE DeleteReference
    BY <2>1, <2>3, SameSets DEF DeleteReference
  <2> QED BY <1>3, <2>2, <2>3 DEF Books
<1>4. CASE Deliver
  BY <1>4, Unbooked, Booked DEF Deliver
<1>5. CASE Restart
  BY <1>5, Stopped
<1>6. CASE UNCHANGED WOVars
  <2>1. UNCHANGED <<transactions, published, queue, fates>>
    BY <1>6 DEF WOVars, busVars
  <2> QED BY <2>1, SameSets
<1> QED BY <1>1, <1>2, <1>3, <1>4, <1>5, <1>6 DEF WONext

LEMMA Invariant == WorkOrdersAssumption /\ WOSpec => []EMInv
<1> QED BY Initial, Step, PTL DEF WOSpec

\* A completion with a cost that was handled is one expense of its amount in
\* the ledger, and no expense has another origin, however often orders are
\* completed, the process stops and properties are deleted: what
\* completeWorkOrder publishes and the subscriber in accounting books.
THEOREM ExpensesBooked ==
    WorkOrdersAssumption /\ WOSpec => []ExpensesMatchCompletions
<1>1. EMInv => ExpensesMatchCompletions
  BY DEF EMInv, Matched, Spent, Done, ExpensesMatchCompletions
<1> QED BY <1>1, Invariant, PTL

(***************************************************************************)
(* The policy on estimates and on cancelled orders.                        *)
(***************************************************************************)
IsOrder(r) ==
    r = [property |-> r.property, category |-> r.category, status |-> r.status,
         vendor |-> r.vendor, estimate |-> r.estimate, cost |-> r.cost, live |-> r.live]
OrdersInv == IsTable(orders) /\ \A o \in DOMAIN orders : IsOrder(orders[o])

\* What a request may make of order o.
KeepsPolicy(o) ==
    /\ \/ orders[o].estimate = orders'[o].estimate
       \/ orders'[o].status \notin {"open", "assigned", "in_progress"}
       \/ ~ShouldHold(orders'[o].property, orders'[o].estimate)
    /\ orders[o].status = "cancelled" => orders'[o].status \in {"cancelled", "completed"}

LEMMA OrderChanged ==
    ASSUME OrdersInv, NEW o \in DOMAIN orders, DOMAIN orders' = DOMAIN orders,
           orders' \in [DOMAIN orders -> {orders'[k] : k \in DOMAIN orders}],
           \A k \in DOMAIN orders \ {o} : orders'[k] = orders[k],
           IsOrder(orders'[o]), KeepsPolicy(o)
    PROVE  OrdersInv' /\ NewEstimatesFunded /\ CancelledStays
<1>1. Len(orders) \in Nat /\ DOMAIN orders = 1 .. Len(orders)
  BY TableRows DEF OrdersInv
<1>2. IsTable(orders')
  <2> DEFINE S == {orders'[k] : k \in DOMAIN orders}
  <2>1. orders' \in [1 .. Len(orders) -> S]
    BY <1>1
  <2> HIDE DEF S
  <2> QED BY <1>1, <2>1, TableFrom
<1>3. \A k \in DOMAIN orders' : IsOrder(orders'[k])
  BY DEF OrdersInv
<1>4. NewEstimatesFunded
  BY DEF NewEstimatesFunded, KeepsPolicy
<1>5. CancelledStays
  BY DEF CancelledStays, KeepsPolicy
<1> QED BY <1>2, <1>3, <1>4, <1>5 DEF OrdersInv

LEMMA OrderAdded ==
    ASSUME OrdersInv, NEW row, orders' = Append(orders, row), IsOrder(row),
           \/ row.status \notin {"open", "assigned", "in_progress"}
           \/ ~ShouldHold(row.property, row.estimate)
    PROVE  OrdersInv' /\ NewEstimatesFunded /\ CancelledStays
<1> DEFINE n == Len(orders)
<1>1. /\ n \in Nat /\ DOMAIN orders = 1 .. n /\ DOMAIN orders' = 1 .. n + 1
      /\ IsTable(orders') /\ orders'[n + 1] = row
      /\ \A k \in 1 .. n : orders'[k] = orders[k]
  BY TableRows, TableAppended DEF OrdersInv
<1> HIDE DEF n
<1>2. \A k \in 1 .. n + 1 : k \in 1 .. n \/ k = n + 1
  BY <1>1
<1>3. \A k \in DOMAIN orders' : IsOrder(orders'[k])
  BY <1>1, <1>2 DEF OrdersInv
<1>4. NewEstimatesFunded
  BY <1>1, <1>2 DEF NewEstimatesFunded
<1>5. CancelledStays
  BY <1>1 DEF CancelledStays
<1> QED BY <1>1, <1>3, <1>4, <1>5 DEF OrdersInv

LEMMA OrdersLeft ==
    ASSUME OrdersInv, orders' = orders
    PROVE  OrdersInv' /\ NewEstimatesFunded /\ CancelledStays
BY DEF OrdersInv, NewEstimatesFunded, CancelledStays

\* The status of a request whose estimate is looked at.
LEMMA UnderPolicy ==
    ASSUME NEW status, NEW p, NEW estimate
    PROVE  /\ \/ StatusUnderPolicy(status, p, estimate)
                   \notin {"open", "assigned", "in_progress"}
              \/ ~ShouldHold(p, estimate)
           /\ status = "cancelled" => StatusUnderPolicy(status, p, estimate) = "cancelled"
BY DEF StatusUnderPolicy

LEMMA Created ==
    ASSUME OrdersInv, NEW p, NEW c, NEW s, NEW v, NEW e, CreateWorkOrder(p, c, s, v, e)
    PROVE  OrdersInv' /\ NewEstimatesFunded /\ CancelledStays
<1> DEFINE status == StatusUnderPolicy(s, p, e)
           row == Order(p, NormalizeCategory(c), status, v, e)
<1>1. orders' = Append(orders, row)
  BY DEF CreateWorkOrder
<1>2. \/ status \notin {"open", "assigned", "in_progress"} \/ ~ShouldHold(p, e)
  BY UnderPolicy
<1> HIDE DEF status
<1>3. IsOrder(row) /\ row.status = status /\ row.property = p /\ row.estimate = e
  BY DEF Order, IsOrder
<1> HIDE DEF row
<1> QED BY <1>1, <1>2, <1>3, OrderAdded

LEMMA Updated ==
    ASSUME OrdersInv, NEW o \in DOMAIN orders, NEW p, NEW c, NEW s, NEW v, NEW e, NEW a,
           UpdateWorkOrder(o, p, c, s, v, e, a)
    PROVE  OrdersInv' /\ NewEstimatesFunded /\ CancelledStays
<1> DEFINE status == IF e = orders[o].estimate THEN s
                     ELSE StatusUnderPolicy(s, p, e)
           category == NormalizeCategory(c)
<1>1. orders' = [orders EXCEPT ![o].property = p, ![o].category = category,
                               ![o].status = status, ![o].vendor = v,
                               ![o].estimate = e, ![o].cost = a]
  BY DEF UpdateWorkOrder
<1>2. orders[o].status = "cancelled" => s = "cancelled"
  BY DEF UpdateWorkOrder
<1>3. /\ \/ e = orders[o].estimate
         \/ status \notin {"open", "assigned", "in_progress"}
         \/ ~ShouldHold(p, e)
      /\ orders[o].status = "cancelled" => status = "cancelled"
  BY <1>2, UnderPolicy
<1> HIDE DEF status, category
<1>4. IsOrder(orders[o])
  BY DEF OrdersInv
<1>5. /\ orders'[o] = [property |-> p, category |-> category,
                       status |-> status, vendor |-> v, estimate |-> e, cost |-> a,
                       live |-> orders[o].live]
      /\ DOMAIN orders' = DOMAIN orders
      /\ \A k \in DOMAIN orders \ {o} : orders'[k] = orders[k]
      /\ orders' \in [DOMAIN orders -> {orders'[k] : k \in DOMAIN orders}]
  BY <1>1, <1>4 DEF IsOrder
<1>6. /\ IsOrder(orders'[o]) /\ orders'[o].status = status
      /\ orders'[o].estimate = e /\ orders'[o].property = p
  BY <1>5 DEF IsOrder
<1>7. KeepsPolicy(o)
  BY <1>3, <1>6 DEF KeepsPolicy
<1> QED BY <1>5, <1>6, <1>7, OrderChanged

LEMMA Completed ==
    ASSUME OrdersInv, NEW o \in DOMAIN orders, NEW a, CompleteWorkOrder(o, a)
    PROVE  OrdersInv' /\ NewEstimatesFunded /\ CancelledStays
<1>1. orders' = [orders EXCEPT ![o].status = "completed", ![o].cost = a]
  BY DEF CompleteWorkOrder
<1>2. IsOrder(orders[o])
  BY DEF OrdersInv
<1>3. /\ orders'[o] = [property |-> orders[o].property, category |-> orders[o].category,
                       status |-> "completed", vendor |-> orders[o].vendor,
                       estimate |-> orders[o].estimate, cost |-> a,
                       live |-> orders[o].live]
      /\ DOMAIN orders' = DOMAIN orders
      /\ \A k \in DOMAIN orders \ {o} : orders'[k] = orders[k]
      /\ orders' \in [DOMAIN orders -> {orders'[k] : k \in DOMAIN orders}]
  BY <1>1, <1>2 DEF IsOrder
<1>4. IsOrder(orders'[o]) /\ orders'[o].status = "completed"
  BY <1>3 DEF IsOrder
<1>5. KeepsPolicy(o)
  BY <1>3, <1>4 DEF KeepsPolicy
<1> QED BY <1>3, <1>4, <1>5, OrderChanged

\* What is left of the steps changes the vendor of an order or deletes it.
LEMMA Reassigned ==
    ASSUME OrdersInv, NEW o \in DOMAIN orders, NEW v,
           \/ orders' = [orders EXCEPT ![o].vendor = v]
           \/ orders' = [orders EXCEPT ![o].live = v]
    PROVE  OrdersInv' /\ NewEstimatesFunded /\ CancelledStays
<1>1. IsOrder(orders[o])
  BY DEF OrdersInv
<1>2. /\ DOMAIN orders' = DOMAIN orders
      /\ \A k \in DOMAIN orders \ {o} : orders'[k] = orders[k]
      /\ orders' \in [DOMAIN orders -> {orders'[k] : k \in DOMAIN orders}]
  OBVIOUS
<1>3. \E vendor, live :
        orders'[o] = [property |-> orders[o].property, category |-> orders[o].category,
                      status |-> orders[o].status, vendor |-> vendor,
                      estimate |-> orders[o].estimate, cost |-> orders[o].cost,
                      live |-> live]
  <2>1. CASE orders' = [orders EXCEPT ![o].vendor = v]
    <3>1. orders'[o] = [property |-> orders[o].property, category |-> orders[o].category,
                        status |-> orders[o].status, vendor |-> v,
                        estimate |-> orders[o].estimate, cost |-> orders[o].cost,
                        live |-> orders[o].live]
      BY <1>1, <2>1 DEF IsOrder
    <3> QED BY <3>1
  <2>2. CASE orders' = [orders EXCEPT ![o].live = v]
    <3>1. orders'[o] = [property |-> orders[o].property, category |-> orders[o].category,
                        status |-> orders[o].status, vendor |-> orders[o].vendor,
                        estimate |-> orders[o].estimate, cost |-> orders[o].cost,
                        live |-> v]
      BY <1>1, <2>2 DEF IsOrder
    <3> QED BY <3>1
  <2> QED BY <2>1, <2>2
<1>4. /\ IsOrder(orders'[o]) /\ orders'[o].status = orders[o].status
      /\ orders'[o].estimate = orders[o].estimate
  BY <1>3 DEF IsOrder
<1>5. KeepsPolicy(o)
  BY <1>4 DEF KeepsPolicy
<1> QED BY <1>2, <1>4, <1>5, OrderChanged

LEMMA PolicyStep ==
    OrdersInv /\ [WONext]_WOVars
      => OrdersInv' /\ [NewEstimatesFunded /\ CancelledStays]_WOVars
<1> SUFFICES ASSUME OrdersInv, [WONext]_WOVars
             PROVE  OrdersInv' /\ NewEstimatesFunded /\ CancelledStays
  OBVIOUS
<1>1. CASE ManageOrders
  <2>1. CASE \E p \in Properties, c \in Categories, s \in Statuses,
                v \in Vendors \cup {NoVendor}, e \in Costs : CreateWorkOrder(p, c, s, v, e)
    BY <2>1, Created
  <2>2. CASE \E o \in DOMAIN orders, p \in Properties, c \in Categories, s \in Statuses,
                v \in Vendors \cup {NoVendor}, e, a \in Costs :
                UpdateWorkOrder(o, p, c, s, v, e, a)
    BY <2>2, Updated
  <2>3. CASE \E o \in DOMAIN orders, a \in Costs : CompleteWorkOrder(o, a)
    BY <2>3, Completed
  <2>4. CASE \E o \in DOMAIN orders : DeleteWorkOrder(o)
    BY <2>4, Reassigned DEF DeleteWorkOrder
  <2> QED BY <1>1, <2>1, <2>2, <2>3, <2>4 DEF ManageOrders
<1>2. CASE ManageVendors
  <2>1. CASE \E o \in DOMAIN orders, v \in Vendors, role \in {"primary", "contractor"} :
               AssignWorkOrderVendor(o, v, role)
    BY <2>1, Reassigned, OrdersLeft DEF AssignWorkOrderVendor
  <2>2. CASE \E o \in DOMAIN orders, v \in Vendors : RemoveWorkOrderVendor(o, v)
    <3>1. PICK o \in DOMAIN orders, v \in Vendors : RemoveWorkOrderVendor(o, v)
      BY <2>2
    <3>2. \E w : orders' = [orders EXCEPT ![o].vendor = w]
      BY <3>1 DEF RemoveWorkOrderVendor
    <3> QED BY <3>2, Reassigned
  <2>3. CASE \E v \in Vendors : SetVerified(v)
    BY <2>3, OrdersLeft DEF SetVerified, orderVars
  <2> QED BY <1>2, <2>1, <2>2, <2>3 DEF ManageVendors
<1>3. CASE Books \/ Deliver \/ Restart \/ UNCHANGED WOVars
  <2>1. orders' = orders
    BY <1>3 DEF Books, Deliver, DeliverWithoutEffect, DeliverExpense, DeliverDeadLetter,
                Restart, WOVars, orderVars
  <2> QED BY <2>1, OrdersLeft
<1> QED BY <1>1, <1>2, <1>3 DEF WONext

\* No request leaves an order in work at a new estimate that the portfolio does
\* not allow or has no money for, and none revives a cancelled order but one
\* that says it is done: evaluateSpendPolicy and the guard of updateWorkOrder.
THEOREM PolicyKept ==
    WOSpec => [][NewEstimatesFunded /\ CancelledStays]_WOVars
<1>1. WOInit => OrdersInv
  <2>1. \A S : <<>> \in Seq(S)
    OBVIOUS
  <2> QED BY <2>1 DEF WOInit, OrdersInv, IsTable
<1>2. OrdersInv /\ [WONext]_WOVars
        => OrdersInv' /\ [NewEstimatesFunded /\ CancelledStays]_WOVars
  BY PolicyStep
<1> QED BY <1>1, <1>2, PTL DEF WOSpec

(***************************************************************************)
(* The vendors of an order.                                                *)
(***************************************************************************)
LEMMA WithoutIs ==
    ASSUME NEW S, NEW s \in Seq(S), NEW v, Once(s)
    PROVE  /\ Without(s, v) \in Seq(S) /\ Once(Without(s, v))
           /\ \A x : Listed(x, Without(s, v)) <=> Listed(x, s) /\ x # v
<1>1. CASE ~Listed(v, s)
  BY <1>1 DEF Without, Listed
<1>2. CASE Listed(v, s)
  <2> DEFINE t == Without(s, v)
  <2>1. PICK k \in DOMAIN s : s[k] = v /\ t = SubSeq(s, 1, k - 1) \o SubSeq(s, k + 1, Len(s))
    BY <1>2 DEF Without, Listed
  <2>2. PICK n \in Nat : n = Len(s) /\ DOMAIN s = 1 .. n /\ k \in 1 .. n
    OBVIOUS
  <2>3. /\ t \in Seq(S) /\ DOMAIN t = 1 .. n - 1
        /\ \A j \in 1 .. n - 1 : t[j] = IF j < k THEN s[j] ELSE s[j + 1]
    <3> DEFINE front == SubSeq(s, 1, k - 1)
               back == SubSeq(s, k + 1, n)
    <3>1. /\ front \in Seq(S) /\ Len(front) = k - 1
          /\ \A j \in 1 .. k - 1 : front[j] = s[j]
      BY <2>2
    <3>2. /\ back \in Seq(S) /\ Len(back) = n - k
          /\ \A j \in 1 .. n - k : back[j] = s[k + j]
      BY <2>2
    <3>3. t = front \o back
      BY <2>1, <2>2
    <3> HIDE DEF front, back, t
    <3>4. /\ t \in Seq(S) /\ Len(t) = n - 1
          /\ \A j \in 1 .. n - 1 :
                t[j] = IF j <= k - 1 THEN front[j] ELSE back[j - (k - 1)]
      <4>1. (k - 1) + (n - k) = n - 1 /\ k - 1 \in Nat /\ n - k \in Nat
        BY <2>2
      <4>2. /\ t \in Seq(S) /\ Len(t) = Len(front) + Len(back)
            /\ \A j \in 1 .. Len(front) + Len(back) :
                  t[j] = IF j <= Len(front) THEN front[j] ELSE back[j - Len(front)]
        BY <3>1, <3>2, <3>3, Joined
      <4>3. Len(front) = k - 1 /\ Len(front) + Len(back) = n - 1
        BY <3>1, <3>2, <4>1
      <4> QED BY <4>2, <4>3
    <3>5. ASSUME NEW j \in 1 .. n - 1 PROVE t[j] = IF j < k THEN s[j] ELSE s[j + 1]
      <4>1. CASE j < k
        BY <2>2, <3>1, <3>4, <4>1
      <4>2. CASE ~(j < k)
        <5>1. j - (k - 1) \in 1 .. n - k /\ k + (j - (k - 1)) = j + 1
          BY <2>2, <4>2
        <5> QED BY <2>2, <3>2, <3>4, <4>2, <5>1
      <4> QED BY <4>1, <4>2
    <3> QED BY <3>4, <3>5
  <2> HIDE DEF t
  <2> DEFINE At(j) == IF j < k THEN j ELSE j + 1
  <2>4. \A j \in 1 .. n - 1 : At(j) \in 1 .. n /\ At(j) # k /\ t[j] = s[At(j)]
    BY <2>2, <2>3
  <2>5. \A i, j \in 1 .. n - 1 : At(i) = At(j) => i = j
    BY <2>2
  <2>6. \A i \in 1 .. n : i # k => \E j \in 1 .. n - 1 : At(j) = i
    <3>1. TAKE i \in 1 .. n
    <3>2. CASE i < k
      BY <2>2, <3>2
    <3>3. CASE i > k
      <4>1. i - 1 \in 1 .. n - 1 /\ At(i - 1) = i
        BY <2>2, <3>3
      <4> QED BY <4>1
    <3> QED BY <2>2, <3>2, <3>3
  <2> HIDE DEF At
  <2>7. Once(t)
    BY <2>2, <2>3, <2>4, <2>5 DEF Once
  <2>8. ASSUME NEW x PROVE Listed(x, t) <=> Listed(x, s) /\ x # v
    <3>1. CASE Listed(x, t)
      <4>1. PICK j \in 1 .. n - 1 : t[j] = x
        BY <2>3, <3>1 DEF Listed
      <4>2. s[At(j)] = x /\ At(j) \in DOMAIN s /\ At(j) # k
        BY <2>2, <2>4, <4>1
      <4> QED BY <2>1, <3>1, <4>2 DEF Listed, Once
    <3>2. CASE Listed(x, s) /\ x # v
      <4>1. PICK i \in 1 .. n : s[i] = x /\ i # k
        BY <2>1, <2>2, <3>2 DEF Listed
      <4>2. PICK j \in 1 .. n - 1 : At(j) = i
        BY <2>6, <4>1
      <4>3. t[j] = x
        BY <2>4, <4>1, <4>2
      <4> QED BY <2>3, <3>2, <4>3 DEF Listed
    <3> QED BY <3>1, <3>2
  <2> QED BY <2>3, <2>7, <2>8 DEF t
<1> QED BY <1>1, <1>2

LEMMA ListedLast ==
    ASSUME NEW S, NEW s \in Seq(S), NEW v \in S, Once(s), ~Listed(v, s)
    PROVE  /\ Append(s, v) \in Seq(S) /\ Once(Append(s, v))
           /\ \A x : Listed(x, Append(s, v)) <=> Listed(x, s) \/ x = v
<1> DEFINE t == Append(s, v)
<1>1. PICK n \in Nat : n = Len(s) /\ DOMAIN s = 1 .. n
  OBVIOUS
<1>2. /\ t \in Seq(S) /\ DOMAIN t = 1 .. n + 1 /\ t[n + 1] = v
      /\ \A k \in 1 .. n : t[k] = s[k]
  BY <1>1
<1>3. \A k \in 1 .. n + 1 : k \in 1 .. n \/ k = n + 1
  BY <1>1
<1>4. 1 .. n \subseteq 1 .. n + 1 /\ n + 1 \in 1 .. n + 1
  BY <1>1
<1> HIDE DEF t
<1>5. Once(t)
  BY <1>1, <1>2, <1>3 DEF Once, Listed
<1>6. ASSUME NEW x PROVE Listed(x, t) <=> Listed(x, s) \/ x = v
  BY <1>1, <1>2, <1>3, <1>4 DEF Listed
<1> QED BY <1>2, <1>5, <1>6 DEF t

\* The vendors assigned to an order are listed once, its own among them.
IsDispatched(order, list) ==
    /\ list \in Seq(Vendors) /\ Once(list)
    /\ order.vendor # NoVendor => Listed(order.vendor, list)
DispatchInv ==
    /\ OrdersInv
    /\ IsTable(assigned) /\ DOMAIN assigned = DOMAIN orders
    /\ \A o \in DOMAIN orders : IsDispatched(orders[o], assigned[o])

\* A request about one order.
LEMMA DispatchChanged ==
    ASSUME DispatchInv, OrdersInv', NEW o \in DOMAIN orders, NEW list,
           DOMAIN orders' = DOMAIN orders,
           \A k \in DOMAIN orders \ {o} : orders'[k] = orders[k],
           assigned' = [assigned EXCEPT ![o] = list],
           IsDispatched(orders'[o], list)
    PROVE  DispatchInv'
<1>1. PICK n \in Nat : n = Len(assigned) /\ DOMAIN assigned = 1 .. n
  BY TableRows DEF DispatchInv
<1>2. IsTable(assigned')
  <2> DEFINE S == {assigned'[k] : k \in 1 .. n}
  <2>1. assigned' \in [1 .. n -> S]
    BY <1>1
  <2> HIDE DEF S
  <2> QED BY <1>1, <2>1, TableFrom
<1>3. \A k \in DOMAIN orders' : IsDispatched(orders'[k], assigned'[k])
  BY DEF DispatchInv
<1> QED BY <1>2, <1>3 DEF DispatchInv, IsDispatched

LEMMA DispatchStep == DispatchInv /\ [AssignmentNext]_WOVars => DispatchInv'
<1> SUFFICES ASSUME DispatchInv, [AssignmentNext]_WOVars
             PROVE  DispatchInv'
  OBVIOUS
<1>1. OrdersInv
  BY DEF DispatchInv
<1>2. \A o \in DOMAIN orders : /\ o \in DOMAIN assigned /\ IsOrder(orders[o])
                               /\ IsDispatched(orders[o], assigned[o])
  BY DEF DispatchInv, OrdersInv
<1>3. ASSUME NEW p, NEW c, NEW s, NEW e, CreateWorkOrder(p, c, s, NoVendor, e)
      PROVE  DispatchInv'
  <2>1. OrdersInv'
    BY <1>1, <1>3, Created
  <2> DEFINE row == Order(p, NormalizeCategory(c), StatusUnderPolicy(s, p, e), NoVendor, e)
  <2>2. orders' = Append(orders, row) /\ assigned' = Append(assigned, <<>>)
    BY <1>3 DEF CreateWorkOrder
  <2>3. row.vendor = NoVendor
    BY DEF Order
  <2> HIDE DEF row
  <2>4. PICK n \in Nat : /\ n = Len(orders) /\ DOMAIN orders = 1 .. n
                         /\ DOMAIN orders' = 1 .. n + 1 /\ orders'[n + 1] = row
                         /\ \A k \in 1 .. n : orders'[k] = orders[k]
    BY <2>2, TableRows, TableAppended DEF DispatchInv, OrdersInv
  <2>5. /\ IsTable(assigned') /\ DOMAIN assigned' = 1 .. n + 1 /\ assigned'[n + 1] = <<>>
        /\ \A k \in 1 .. n : assigned'[k] = assigned[k]
    BY <2>2, <2>4, TableRows, TableAppended DEF DispatchInv
  <2>6. \A k \in 1 .. n + 1 : k \in 1 .. n \/ k = n + 1
    BY <2>4
  <2>7. IsDispatched(row, <<>>)
    BY <2>3 DEF IsDispatched, Once
  <2>8. \A k \in DOMAIN orders' : IsDispatched(orders'[k], assigned'[k])
    BY <1>2, <2>4, <2>5, <2>6, <2>7
  <2> QED BY <2>1, <2>4, <2>5, <2>8 DEF DispatchInv, IsDispatched
<1>4. ASSUME NEW o \in DOMAIN orders, NEW p, NEW c, NEW s, NEW e, NEW a,
             UpdateWorkOrder(o, p, c, s, orders[o].vendor, e, a)
      PROVE  DispatchInv'
  <2>1. OrdersInv'
    BY <1>1, <1>4, Updated
  <2>2. /\ DOMAIN orders' = DOMAIN orders /\ assigned' = [assigned EXCEPT ![o] = assigned[o]]
        /\ \A k \in DOMAIN orders \ {o} : orders'[k] = orders[k]
    <3>1. assigned = [assigned EXCEPT ![o] = assigned[o]]
      BY DEF DispatchInv, IsTable
    <3> QED BY <1>4, <3>1 DEF UpdateWorkOrder
  <2>3. orders'[o].vendor = orders[o].vendor
    BY <1>4, <1>2 DEF UpdateWorkOrder, IsOrder
  <2>4. IsDispatched(orders'[o], assigned[o])
    BY <1>2, <2>3 DEF IsDispatched
  <2> QED BY <2>1, <2>2, <2>4, DispatchChanged
<1>5. ASSUME NEW o \in DOMAIN orders, DeleteWorkOrder(o)
      PROVE  DispatchInv'
  <2>1. OrdersInv'
    BY <1>1, <1>5, Reassigned DEF DeleteWorkOrder
  <2>2. /\ DOMAIN orders' = DOMAIN orders /\ assigned' = [assigned EXCEPT ![o] = assigned[o]]
        /\ \A k \in DOMAIN orders \ {o} : orders'[k] = orders[k]
    <3>1. assigned = [assigned EXCEPT ![o] = assigned[o]]
      BY DEF DispatchInv, IsTable
    <3> QED BY <1>5, <3>1 DEF DeleteWorkOrder
  <2>3. orders'[o].vendor = orders[o].vendor
    BY <1>5, <1>2 DEF DeleteWorkOrder, IsOrder
  <2>4. IsDispatched(orders'[o], assigned[o])
    BY <1>2, <2>3 DEF IsDispatched
  <2> QED BY <2>1, <2>2, <2>4, DispatchChanged
<1>6. ASSUME NEW o \in DOMAIN orders, NEW v \in Vendors, NEW role,
             AssignWorkOrderVendor(o, v, role)
      PROVE  DispatchInv'
  <2> DEFINE rest == Without(assigned[o], v)
  <2>1. OrdersInv'
    BY <1>1, <1>6, Reassigned, OrdersLeft DEF AssignWorkOrderVendor
  <2>2. /\ DOMAIN orders' = DOMAIN orders /\ assigned' = [assigned EXCEPT ![o] = Append(rest, v)]
        /\ \A k \in DOMAIN orders \ {o} : orders'[k] = orders[k]
    BY <1>6 DEF AssignWorkOrderVendor
  <2>3. orders'[o].vendor \in {orders[o].vendor, v}
    BY <1>6, <1>2 DEF AssignWorkOrderVendor, IsOrder
  <2>4. /\ rest \in Seq(Vendors) /\ Once(rest)
        /\ \A x : Listed(x, rest) <=> Listed(x, assigned[o]) /\ x # v
    BY <1>2, WithoutIs DEF IsDispatched
  <2> HIDE DEF rest
  <2>5. /\ Append(rest, v) \in Seq(Vendors) /\ Once(Append(rest, v))
        /\ \A x : Listed(x, Append(rest, v)) <=> Listed(x, rest) \/ x = v
    BY <2>4, ListedLast
  <2>6. IsDispatched(orders'[o], Append(rest, v))
    BY <1>2, <2>3, <2>4, <2>5 DEF IsDispatched
  <2> QED BY <2>1, <2>2, <2>6, DispatchChanged
<1>7. ASSUME NEW o \in DOMAIN orders, NEW v \in Vendors, RemoveWorkOrderVendor(o, v)
      PROVE  DispatchInv'
  <2> DEFINE rest == Without(assigned[o], v)
  <2>1. assigned' = [assigned EXCEPT ![o] = rest] /\ assigned'[o] = rest
    BY <1>7, <1>2 DEF RemoveWorkOrderVendor
  <2>2. PICK w : /\ orders' = [orders EXCEPT ![o].vendor = w]
                 /\ w = CASE orders[o].vendor # v -> orders[o].vendor
                          [] orders[o].vendor = v /\ rest # <<>> -> Head(rest)
                          [] OTHER -> NoVendor
    BY <1>7, <2>1 DEF RemoveWorkOrderVendor
  <2>3. OrdersInv'
    BY <1>1, <2>2, Reassigned
  <2>4. /\ DOMAIN orders' = DOMAIN orders /\ orders'[o].vendor = w
        /\ \A k \in DOMAIN orders \ {o} : orders'[k] = orders[k]
    BY <1>2, <2>2 DEF IsOrder
  <2>5. /\ rest \in Seq(Vendors) /\ Once(rest)
        /\ \A x : Listed(x, rest) <=> Listed(x, assigned[o]) /\ x # v
    BY <1>2, WithoutIs DEF IsDispatched
  <2> HIDE DEF rest
  <2>6. rest # <<>> => Listed(Head(rest), rest)
    <3>1. rest # <<>> => 1 \in DOMAIN rest /\ Head(rest) = rest[1]
      BY <2>5
    <3> QED BY <3>1 DEF Listed
  <2>7. w # NoVendor => Listed(w, rest)
    <3>1. CASE orders[o].vendor # v
      BY <1>2, <2>2, <2>5, <3>1 DEF IsDispatched
    <3>2. CASE orders[o].vendor = v
      BY <2>2, <2>6, <3>2
    <3> QED BY <3>1, <3>2
  <2>8. IsDispatched(orders'[o], rest)
    BY <2>4, <2>5, <2>7 DEF IsDispatched
  <2> QED BY <2>1, <2>3, <2>4, <2>8, DispatchChanged
<1>8. CASE OrdersWithoutVendors
  BY <1>3, <1>4, <1>5, <1>8 DEF OrdersWithoutVendors
<1>9. CASE ManageVendors
  <2>1. ASSUME NEW v \in Vendors, SetVerified(v) PROVE DispatchInv'
    BY <2>1 DEF SetVerified, orderVars, DispatchInv, OrdersInv
  <2> QED BY <1>6, <1>7, <1>9, <2>1 DEF ManageVendors
<1>10. CASE Books \/ UNCHANGED WOVars
  <2>1. orders' = orders /\ assigned' = assigned
    BY <1>10 DEF Books, WOVars, orderVars
  <2> QED BY <2>1 DEF DispatchInv, OrdersInv
<1> QED BY <1>8, <1>9, <1>10 DEF AssignmentNext

\* Where vendors are given to orders through assignments, the vendor of an order
\* is one of those assigned to it and each is listed once, however they are
\* assigned again and removed: removeWorkOrderVendor lets the next take over.
THEOREM PrimaryAssigned == AssignmentSpec => []PrimaryIsAssigned
<1>1. WOInit => DispatchInv
  <2>1. \A S : <<>> \in Seq(S)
    OBVIOUS
  <2> QED BY <2>1 DEF WOInit, DispatchInv, OrdersInv, IsTable
<1>2. DispatchInv => PrimaryIsAssigned
  BY DEF DispatchInv, IsDispatched, PrimaryIsAssigned
<1> QED BY <1>1, <1>2, DispatchStep, PTL DEF AssignmentSpec

(***************************************************************************)
(* Batches of items (BulkIngestion).                                       *)
(***************************************************************************)
InBatch == pc \in {"item", "row", "parts", "failed"}

\* Rows of items that come before one, and of the parts written of one.
Earlier(k) == {r \in AllRows(Try) : r.item < k}
Own == {ItemRow(Try, at.item, p) : p \in 0 .. at.part - 1}

\* What each part of the handler has written in the transaction.
Progress ==
    /\ pc \in {"idle", "answered", "committed"} => calls = <<>>
    /\ InBatch \/ pc = "committed" =>
          Try >= 1 /\ Len(Asked) <= MaxItems /\ at.item \in 1 .. Len(Asked) + 1
    /\ InBatch => \A j \in 1 .. at.item - 1 : Asked[j].refused = 0
    /\ pc = "item" => calls = <<Earlier(at.item)>>
    /\ pc \in {"row", "parts", "failed"} => at.item <= Len(Asked)
    /\ pc = "row" => calls = <<Earlier(at.item), {}>>
    /\ pc = "parts" => /\ calls = <<Earlier(at.item), Own>>
                       /\ at.part \in 1 .. Item.parts + 1
                       /\ Item.refused \notin 1 .. at.part - 1
    /\ pc = "failed" => /\ calls = <<Earlier(at.item)>>
                        /\ answer.kind = "error" /\ answer.items = {at.item}
    /\ pc = "answered" => Try >= 1

\* What is stored of the batch at hand, and of those before it.
StoredWhole ==
    /\ \A r \in stored : r.try \in DOMAIN batch /\ r \in AllRows(r.try)
    /\ WholeBatches
    /\ InBatch => StoredOf(Try) = {}
    /\ pc = "committed" => StoredOf(Try) = AllRows(Try)
    /\ AnswersAreTrue

BulkInv ==
    /\ BulkAssumption
    /\ batch \in Seq(Batches) /\ Len(batch) <= MaxTries
    /\ pc \in {"idle", "item", "row", "parts", "failed", "committed", "answered"}
    /\ at \in [item : Nat, part : Nat]
    /\ Progress /\ StoredWhole /\ ErrorsNameTheItem

\* A row of a batch, of an item of it, of a part of that.
LEMMA RowOfBatch ==
    ASSUME NEW n, NEW r
    PROVE  (r \in AllRows(n)) <=>
             \E i \in DOMAIN batch[n] : \E p \in 0 .. batch[n][i].parts : r = ItemRow(n, i, p)
BY DEF AllRows

LEMMA RowFields ==
    \A n, i, p : /\ ItemRow(n, i, p).try = n /\ ItemRow(n, i, p).item = i
                 /\ ItemRow(n, i, p).part = p
BY DEF ItemRow

LEMMA TryIs ==
    ASSUME batch \in Seq(Batches)
    PROVE  Try \in Nat /\ Try = Len(batch) /\ DOMAIN batch = 1 .. Try
BY DEF Try

\* The batch at hand and its items.
LEMMA AskedIs ==
    ASSUME BulkAssumption, batch \in Seq(Batches), Try >= 1
    PROVE  /\ Try \in DOMAIN batch /\ Asked = batch[Try] /\ Asked \in Batches
           /\ Len(Asked) \in Nat /\ DOMAIN Asked = 1 .. Len(Asked)
           /\ \A i \in DOMAIN Asked : Asked[i].parts \in Nat /\ Asked[i].refused \in 0 .. Asked[i].parts
<1>1. Try \in DOMAIN batch
  BY TryIs
<1>2. Asked = batch[Try] /\ Asked \in Batches
  BY <1>1 DEF Asked
<1> QED BY <1>1, <1>2 DEF BulkAssumption

\* While a batch is handled, the batches do not change, nor do their rows.
LEMMA BatchKept ==
    ASSUME batch' = batch
    PROVE  /\ Try' = Try /\ Asked' = Asked
           /\ \A n : AllRows(n)' = AllRows(n)
           /\ \A k : Earlier(k)' = Earlier(k)
<1>1. Try' = Try /\ Asked' = Asked
  BY DEF Try, Asked
<1>2. \A n : AllRows(n)' = AllRows(n)
  BY DEF AllRows
<1> QED BY <1>1, <1>2 DEF Earlier

LEMMA StoredKept ==
    ASSUME stored' = stored
    PROVE  \A n : StoredOf(n)' = StoredOf(n)
BY DEF StoredOf

\* The rows that come before the first item, after an item, after the last.
LEMMA EarlierIs ==
    ASSUME BulkAssumption, batch \in Seq(Batches), Try >= 1
    PROVE  /\ Earlier(1) = {}
           /\ \A k \in DOMAIN Asked :
                 Earlier(k + 1) =
                    Earlier(k) \cup {ItemRow(Try, k, p) : p \in 0 .. Asked[k].parts}
           /\ Earlier(Len(Asked) + 1) = AllRows(Try)
<1>1. /\ Asked = batch[Try] /\ Len(Asked) \in Nat /\ DOMAIN Asked = 1 .. Len(Asked)
  BY AskedIs
<1>2. ASSUME NEW r \in AllRows(Try)
      PROVE  r.item \in 1 .. Len(Asked)
  BY <1>1, RowOfBatch, RowFields
<1>3. Earlier(1) = {}
  BY <1>1, <1>2 DEF Earlier
<1>4. Earlier(Len(Asked) + 1) = AllRows(Try)
  BY <1>1, <1>2 DEF Earlier
<1>5. ASSUME NEW k \in DOMAIN Asked
      PROVE  Earlier(k + 1) = Earlier(k) \cup {ItemRow(Try, k, p) : p \in 0 .. Asked[k].parts}
  <2>1. ASSUME NEW r \in Earlier(k + 1)
        PROVE  r \in Earlier(k) \/ r \in {ItemRow(Try, k, p) : p \in 0 .. Asked[k].parts}
    <3>1. r \in AllRows(Try) /\ r.item < k + 1 /\ r.item \in 1 .. Len(Asked) /\ k \in 1 .. Len(Asked)
      BY <1>1, <1>2, <2>1 DEF Earlier
    <3>2. CASE r.item < k
      BY <3>1, <3>2 DEF Earlier
    <3>3. CASE r.item = k
      <4>1. PICK i \in DOMAIN Asked : \E p \in 0 .. Asked[i].parts : r = ItemRow(Try, i, p)
        BY <1>1, <3>1, RowOfBatch
      <4>2. i = k
        BY <3>3, <4>1, RowFields
      <4> QED BY <4>1, <4>2
    <3> QED BY <3>1, <3>2, <3>3
  <2>2. ASSUME NEW r \in Earlier(k) PROVE r \in Earlier(k + 1)
    <3>1. r \in AllRows(Try) /\ r.item < k /\ r.item \in 1 .. Len(Asked) /\ k \in 1 .. Len(Asked)
      BY <1>1, <1>2, <2>2 DEF Earlier
    <3> QED BY <3>1 DEF Earlier
  <2>3. ASSUME NEW p \in 0 .. Asked[k].parts PROVE ItemRow(Try, k, p) \in Earlier(k + 1)
    <3>1. ItemRow(Try, k, p) \in AllRows(Try)
      BY <1>1, RowOfBatch
    <3> QED BY <1>1, <3>1, RowFields DEF Earlier
  <2> QED BY <2>1, <2>2, <2>3
<1> QED BY <1>3, <1>4, <1>5

LEMMA BulkInitial == BulkAssumption /\ BulkInit => BulkInv /\ Calls!CallsInit
<1> SUFFICES ASSUME BulkAssumption, BulkInit PROVE BulkInv /\ Calls!CallsInit
  OBVIOUS
<1>1. batch \in Seq(Batches) /\ Len(batch) = 0 /\ DOMAIN batch = {}
  BY DEF BulkInit
<1>2. Progress
  BY <1>1 DEF BulkInit, Progress, InBatch
<1>3. StoredWhole
  BY <1>1 DEF BulkInit, StoredWhole, WholeBatches, AnswersAreTrue, InBatch
<1>4. ErrorsNameTheItem
  BY DEF BulkInit, ErrorsNameTheItem
<1>5. at \in [item : Nat, part : Nat]
  BY DEF BulkInit
<1> QED BY <1>1, <1>2, <1>3, <1>4, <1>5 DEF BulkInv, BulkInit, BulkAssumption, Calls!CallsInit

\* While rows are written or taken back, what is stored stays as it is.
LEMMA StoredWaits ==
    ASSUME BulkInv, InBatch, UNCHANGED <<stored, batch>>, InBatch'
    PROVE  StoredWhole'
<1>1. /\ Try' = Try /\ \A n : AllRows(n)' = AllRows(n) /\ StoredOf(n)' = StoredOf(n)
  BY BatchKept, StoredKept
<1>2. WholeBatches'
  BY <1>1 DEF BulkInv, StoredWhole, WholeBatches
<1>3. AnswersAreTrue'
  BY DEF AnswersAreTrue, InBatch
<1> QED BY <1>1, <1>2, <1>3 DEF BulkInv, StoredWhole, InBatch

\* A new batch: none of its rows are stored, and those before it stay as they are.
LEMMA SubmitStep ==
    ASSUME BulkInv, NEW b \in Batches, Submit(b)
    PROVE  BulkInv' /\ [Calls!CallsNext]_Calls!acVars
<1> USE DEF BulkInv
<1>1. /\ pc \in {"idle", "answered"} /\ Len(batch) < MaxTries /\ batch' = Append(batch, b)
      /\ at' = [item |-> 1, part |-> 0] /\ UNCHANGED stored /\ calls = <<>>
      /\ \/ pc' = "answered" /\ UNCHANGED calls /\ answer'.kind = "error"
         \/ Len(b) # 0 /\ Len(b) <= MaxItems /\ pc' = "item" /\ calls' = <<{}>>
  <2>1. Len(b) \in Nat /\ MaxItems \in Nat
    BY DEF BulkAssumption
  <2> QED BY <2>1 DEF Submit, Try, Progress
<1>2. /\ batch' \in Seq(Batches) /\ Len(batch') = Len(batch) + 1 /\ batch'[Len(batch) + 1] = b
      /\ \A n \in DOMAIN batch : batch'[n] = batch[n]
      /\ DOMAIN batch' = DOMAIN batch \cup {Len(batch) + 1} /\ Len(batch) + 1 \notin DOMAIN batch
      /\ Len(batch) \in Nat
  BY <1>1
<1>3. /\ Try' = Len(batch) + 1 /\ Try' >= 1 /\ Asked' = b /\ Len(batch') <= MaxTries
      /\ BulkAssumption'
  BY <1>1, <1>2 DEF Try, Asked, BulkAssumption
<1>4. \A n \in DOMAIN batch : AllRows(n)' = AllRows(n)
  BY <1>2 DEF AllRows
<1>5. \A n : StoredOf(n)' = StoredOf(n)
  BY <1>1, StoredKept
<1>6. StoredOf(Try)' = {}
  BY <1>1, <1>2, <1>3, <1>5 DEF StoredOf, StoredWhole
<1>7. StoredWhole'
  <2>1. (\A r \in stored : r.try \in DOMAIN batch /\ r \in AllRows(r.try))'
    BY <1>1, <1>2, <1>4 DEF StoredWhole
  <2>2. WholeBatches'
    BY <1>2, <1>3, <1>4, <1>5, <1>6 DEF WholeBatches, StoredWhole
  <2>3. AnswersAreTrue'
    BY <1>1, <1>3, <1>6 DEF AnswersAreTrue
  <2> QED BY <1>1, <1>3, <1>6, <2>1, <2>2, <2>3 DEF StoredWhole, InBatch
<1>8. at' \in [item : Nat, part : Nat] /\ at'.item = 1 /\ at'.part = 0
  BY <1>1
<1>9. Earlier(1)' = {}
  <2>1. ASSUME NEW r \in AllRows(Try)' PROVE r.item \in Nat /\ r.item >= 1
    <3>1. DOMAIN b = 1 .. Len(b) /\ Len(b) \in Nat
      BY DEF BulkAssumption
    <3>2. PICK i \in DOMAIN b : \E p \in 0 .. b[i].parts : r = ItemRow(Try', i, p)
      BY <1>2, <1>3 DEF AllRows
    <3>3. r.item = i
      BY <3>2, RowFields
    <3> QED BY <3>1, <3>2, <3>3
  <2>2. ASSUME NEW r \in AllRows(Try)' PROVE ~(r.item < 1)
    <3>1. r.item \in Int
      BY <2>1
    <3> QED BY <2>1, <3>1
  <2> QED BY <2>2 DEF Earlier
<1>10. Progress'
  <2>1. Len(b) \in Nat
    BY DEF BulkAssumption
  <2>2. CASE pc' = "answered" /\ UNCHANGED calls
    BY <1>1, <1>3, <2>2 DEF Progress, InBatch
  <2>3. CASE Len(b) <= MaxItems /\ pc' = "item" /\ calls' = <<{}>>
    <3>1. calls' = <<Earlier(at.item)'>>
      BY <1>8, <1>9, <2>3
    <3>2. at'.item \in 1 .. Len(Asked') + 1 /\ \A j \in 1 .. at'.item - 1 : FALSE
      BY <1>3, <1>8, <2>1
    <3> QED BY <1>3, <2>3, <3>1, <3>2 DEF Progress, InBatch
  <2> QED BY <1>1, <2>2, <2>3
<1>11. ErrorsNameTheItem'
  BY <1>1 DEF ErrorsNameTheItem
<1>12. [Calls!CallsNext]_Calls!acVars
  BY <1>1 DEF Calls!CallsNext, Calls!Call, Calls!acVars
<1> QED BY <1>1, <1>2, <1>3, <1>7, <1>8, <1>10, <1>11, <1>12

\* Where the handler is within a batch.
LEMMA WithinBatch ==
    ASSUME BulkInv, InBatch
    PROVE  /\ Try >= 1 /\ Try <= MaxTries /\ Try \in DOMAIN batch /\ Try \in Nat
           /\ Asked = batch[Try] /\ Asked \in Batches /\ Len(Asked) \in Nat
           /\ DOMAIN Asked = 1 .. Len(Asked) /\ Len(Asked) <= MaxItems
           /\ \A i \in DOMAIN Asked : Asked[i].parts \in Nat /\ Asked[i].refused \in 0 .. Asked[i].parts
           /\ at.item \in 1 .. Len(Asked) + 1 /\ at.item \in Nat /\ at.part \in Nat
           /\ at = [item |-> at.item, part |-> at.part]
           /\ pc \in {"row", "parts"} => at.item \in DOMAIN Asked /\ Item = Asked[at.item]
<1>1. Try >= 1 /\ Len(Asked) <= MaxItems /\ at.item \in 1 .. Len(Asked) + 1
  BY DEF BulkInv, Progress
<1>2. Try <= MaxTries /\ Try \in Nat
  BY TryIs DEF BulkInv
<1>3. /\ Try \in DOMAIN batch /\ Asked = batch[Try] /\ Asked \in Batches
      /\ Len(Asked) \in Nat /\ DOMAIN Asked = 1 .. Len(Asked)
      /\ \A i \in DOMAIN Asked : Asked[i].parts \in Nat /\ Asked[i].refused \in 0 .. Asked[i].parts
  BY <1>1, AskedIs DEF BulkInv
<1>4. at.item \in Nat /\ at.part \in Nat /\ at = [item |-> at.item, part |-> at.part]
  BY DEF BulkInv
<1>5. pc \in {"row", "parts"} => at.item \in DOMAIN Asked /\ Item = Asked[at.item]
  BY <1>1, <1>3, <1>4 DEF BulkInv, Progress, Item
<1> QED BY <1>1, <1>2, <1>3, <1>4, <1>5

\* Sequences of one and of two elements, by their elements.
LEMMA OneElement ==
    ASSUME NEW S, NEW s \in Seq(S), Len(s) = 1
    PROVE  s = <<s[1]>>
<1>1. DOMAIN s = {1} /\ DOMAIN <<s[1]>> = {1}
  OBVIOUS
<1>2. <<s[1]>> \in Seq(S) /\ Len(<<s[1]>>) = 1 /\ <<s[1]>>[1] = s[1]
  OBVIOUS
<1> QED BY <1>1, <1>2

LEMMA TwoElements ==
    ASSUME NEW S, NEW s \in Seq(S), Len(s) = 2
    PROVE  s = <<s[1], s[2]>>
<1>1. <<s[1], s[2]>> \in Seq(S) /\ Len(<<s[1], s[2]>>) = 2
  <2>1. s[1] \in S /\ s[2] \in S
    <3>1. \A i \in 1 .. Len(s) : s[i] \in S
      OBVIOUS
    <3>2. 1 \in 1 .. Len(s) /\ 2 \in 1 .. Len(s)
      OBVIOUS
    <3> QED BY <3>1, <3>2
  <2>2. \A x, y \in S : <<x, y>> \in Seq(S) /\ Len(<<x, y>>) = 2
    OBVIOUS
  <2> QED BY <2>1, <2>2
<1>2. <<s[1], s[2]>>[1] = s[1] /\ <<s[1], s[2]>>[2] = s[2]
  OBVIOUS
<1>3. \A i \in 1 .. 2 : s[i] = <<s[1], s[2]>>[i]
  BY <1>2
<1> QED BY <1>1, <1>3

\* One call, and one with a call inside it.
LEMMA OneCallTwo ==
    ASSUME NEW a, NEW b
    PROVE  /\ Append(<<a>>, b) = <<a, b>> /\ SubSeq(<<a, b>>, 1, 1) = <<a>>
           /\ \A c : [<<a, b>> EXCEPT ![2] = c] = <<a, c>>
           /\ \A c : [<<a>> EXCEPT ![1] = c] = <<c>>
           /\ SubSeq(<<a>>, 1, 0) = <<>>
<1>1. Append(<<a>>, b) = <<a, b>>
  <2>1. <<a>> \in Seq({a, b}) /\ Len(<<a>>) = 1 /\ <<a>>[1] = a
    OBVIOUS
  <2>2. /\ Append(<<a>>, b) \in Seq({a, b}) /\ Len(Append(<<a>>, b)) = 2
        /\ Append(<<a>>, b)[1] = a /\ Append(<<a>>, b)[2] = b
    BY <2>1
  <2> QED BY <2>2, TwoElements
<1>2. SubSeq(<<a, b>>, 1, 1) = <<a>>
  <2>1. <<a, b>> \in Seq({a, b}) /\ Len(<<a, b>>) = 2 /\ <<a, b>>[1] = a
    OBVIOUS
  <2>2. /\ SubSeq(<<a, b>>, 1, 1) \in Seq({a, b}) /\ Len(SubSeq(<<a, b>>, 1, 1)) = 1
        /\ SubSeq(<<a, b>>, 1, 1)[1] = a
    <3> DEFINE s == <<a, b>>
    <3>1. \A i \in 1 .. 1 : s[i] \in {a, b}
      BY <2>1
    <3>2. /\ SubSeq(s, 1, 1) \in Seq({a, b}) /\ Len(SubSeq(s, 1, 1)) = 1
          /\ \A i \in 1 .. 1 : SubSeq(s, 1, 1)[i] = s[1 + i - 1]
      <4> HIDE DEF s
      <4> QED BY <3>1, SubSeqProperties
    <3> QED BY <2>1, <3>2
  <2> QED BY <2>2, OneElement
<1>3. \A c : [<<a, b>> EXCEPT ![2] = c] = <<a, c>>
  OBVIOUS
<1>4. \A c : [<<a>> EXCEPT ![1] = c] = <<c>>
  OBVIOUS
<1>5. SubSeq(<<a>>, 1, 0) = <<>>
  BY SubSeqEmpty
<1> QED BY <1>1, <1>2, <1>3, <1>4, <1>5

\* An item begins.
LEMMA OpenStep == ASSUME BulkInv, OpenItem PROVE BulkInv' /\ Calls!CallsNext
<1> USE DEF BulkInv
<1>1. /\ pc = "item" /\ at.item <= Len(Asked) /\ calls' = Append(calls, {}) /\ pc' = "row"
      /\ UNCHANGED <<stored, batch, at, answer>> /\ calls = <<Earlier(at.item)>>
  BY DEF OpenItem, Progress
<1>2. InBatch /\ InBatch'
  BY <1>1 DEF InBatch
<1>3. calls' = <<Earlier(at.item), {}>>
  BY <1>1, OneCallTwo
<1>4. /\ Try' = Try /\ Asked' = Asked /\ \A k : Earlier(k)' = Earlier(k)
  BY <1>1, BatchKept
<1>5. Progress'
  BY <1>1, <1>2, <1>3, <1>4 DEF Progress
<1>6. StoredWhole'
  BY <1>1, <1>2, StoredWaits
<1>7. ErrorsNameTheItem'
  BY <1>1 DEF ErrorsNameTheItem
<1>8. Calls!CallsNext
  BY <1>1 DEF Calls!CallsNext, Calls!Call
<1>9. BulkAssumption' /\ batch' \in Seq(Batches) /\ Len(batch') <= MaxTries
  BY <1>1 DEF BulkAssumption
<1> QED BY <1>1, <1>5, <1>6, <1>7, <1>8, <1>9

\* Two calls are open, and the inner one ends: what is left, and what it is to
\* AtomicCalls.
LEMMA InnerCall ==
    ASSUME NEW a, NEW b, calls = <<a, b>>
    PROVE  /\ calls # <<>> /\ Len(calls) = 2 /\ calls[1] = a /\ calls[2] = b
           /\ Calls!Front(calls) = <<a>> /\ Calls!Last(calls) = b
<1>1. calls # <<>> /\ Len(calls) = 2 /\ calls[1] = a /\ calls[2] = b
  OBVIOUS
<1>2. Calls!Last(calls) = b
  BY <1>1 DEF Calls!Last
<1>3. Calls!Front(calls) = <<a>>
  <2>1. Calls!Front(calls) = SubSeq(calls, 1, 1)
    BY <1>1 DEF Calls!Front
  <2>2. SubSeq(<<a, b>>, 1, 1) = <<a>>
    BY OneCallTwo
  <2> QED BY <2>1, <2>2
<1> QED BY <1>1, <1>2, <1>3

\* A row or a part is refused: what the item has written is gone, and the error
\* names an item that has to be mended.
LEMMA RefusedStep ==
    ASSUME BulkInv, pc \in {"row", "parts"}, Fail, Item.refused > 0 \/ Taken(Item.name)
    PROVE  BulkInv' /\ Calls!CallsNext
<1> USE DEF BulkInv
<1> DEFINE i == at.item
<1>1. /\ InBatch /\ InBatch' /\ pc' = "failed"
      /\ answer'.kind = "error" /\ answer'.items = {i}
      /\ calls' = <<calls[1]>> /\ UNCHANGED <<stored, batch, at>>
  BY DEF Fail, InBatch
<1>2. PICK own : calls = <<Earlier(i), own>>
  BY DEF Progress
<1>3. calls[1] = Earlier(i) /\ calls' = <<Earlier(i)>>
  BY <1>1, <1>2
<1>4. /\ Try' = Try /\ Asked' = Asked /\ (\A k : Earlier(k)' = Earlier(k)) /\ i' = i
  BY <1>1, BatchKept
<1>5. /\ i \in DOMAIN Asked /\ Item = Asked[i] /\ i \in 1 .. Len(Asked) /\ i \in Nat
      /\ Asked = batch[Try] /\ Len(Asked) \in Nat
  BY <1>1, WithinBatch
<1> HIDE DEF i
<1>6. Progress'
  <2>1. /\ Try >= 1 /\ Len(Asked) <= MaxItems /\ i <= Len(Asked)
        /\ \A j \in 1 .. i - 1 : Asked[j].refused = 0
    BY <1>1, <1>5 DEF Progress, i
  <2> QED BY <1>1, <1>3, <1>4, <1>5, <2>1 DEF Progress, i
<1>7. StoredWhole'
  BY <1>1, StoredWaits
<1>8. ErrorsNameTheItem'
  <2>1. \A j \in 1 .. i - 1 : Asked[j].refused = 0
    BY <1>1 DEF Progress, i
  <2>2. \/ Asked[i].refused > 0
        \/ UniqueNames /\ \/ \E r \in stored : r.part = 0 /\ NameOf(r) = Asked[i].name
                          \/ \E j \in 1 .. i - 1 : Asked[j].name = Asked[i].name
    <3>1. CASE Item.refused > 0
      BY <1>5, <3>1
    <3>2. CASE Taken(Item.name)
      <4>1. UniqueNames /\ \E r \in stored \cup Earlier(i) : r.part = 0 /\ NameOf(r) = Asked[i].name
        BY <1>3, <1>5, <3>2 DEF Taken
      <4>2. ASSUME NEW r \in Earlier(i) PROVE r.item \in 1 .. i - 1 /\ NameOf(r) = Asked[r.item].name
        <5>1. r \in AllRows(Try) /\ r.item < i
          BY <4>2 DEF Earlier
        <5>2. PICK j \in DOMAIN Asked : \E p \in 0 .. Asked[j].parts : r = ItemRow(Try, j, p)
          BY <1>5, <5>1, RowOfBatch
        <5>3. r.item = j /\ r.try = Try
          BY <5>2, RowFields
        <5>4. j \in 1 .. Len(Asked)
          BY <1>1, WithinBatch
        <5> QED BY <1>5, <5>1, <5>3, <5>4 DEF NameOf
      <4> QED BY <4>1, <4>2
    <3> QED BY <3>1, <3>2
  <2>3. \A r : NameOf(r)' = NameOf(r)
    BY <1>1 DEF NameOf
  <2> QED BY <1>1, <1>4, <1>5, <2>1, <2>2, <2>3 DEF ErrorsNameTheItem
<1>9. Calls!CallsNext
  <2>1. calls # <<>> /\ calls' = Calls!Front(calls)
    BY <1>2, <1>3, InnerCall
  <2> QED BY <1>1, <2>1 DEF Calls!CallsNext, Calls!Throw
<1>10. BulkAssumption' /\ batch' \in Seq(Batches) /\ Len(batch') <= MaxTries
  BY <1>1 DEF BulkAssumption
<1> QED BY <1>1, <1>6, <1>7, <1>8, <1>9, <1>10

\* The row or a part of the item at hand is written.
LEMMA WrittenStep ==
    ASSUME BulkInv, NEW p,
           \/ pc = "row" /\ p = 0
           \/ pc = "parts" /\ p = at.part /\ at.part <= Item.parts /\ at.part # Item.refused,
           Write(p)
    PROVE  BulkInv' /\ Calls!CallsNext
<1> USE DEF BulkInv
<1> DEFINE i == at.item
           done == IF pc = "row" THEN {} ELSE Own
           row == ItemRow(Try, i, p)
<1>1. /\ InBatch /\ InBatch' /\ pc' = "parts" /\ pc \in {"row", "parts"}
      /\ calls' = [calls EXCEPT ![2] = @ \cup {row}]
      /\ at' = [at EXCEPT !.part = p + 1] /\ UNCHANGED <<stored, batch, answer>>
  BY DEF Write, InBatch
<1>2. calls = <<Earlier(i), done>>
  BY <1>1 DEF Progress
<1>3. /\ Try' = Try /\ Asked' = Asked /\ (\A k : Earlier(k)' = Earlier(k))
  BY <1>1, BatchKept
<1>4. /\ i \in DOMAIN Asked /\ Item = Asked[i] /\ i \in 1 .. Len(Asked) /\ i \in Nat
      /\ Asked = batch[Try] /\ Asked \in Batches /\ Len(Asked) \in Nat /\ Len(Asked) <= MaxItems
      /\ Item.parts \in Nat /\ Item.refused \in 0 .. Item.parts /\ at.part \in Nat
      /\ Try \in Nat /\ Try >= 1 /\ Try <= MaxTries
  BY <1>1, WithinBatch
<1>5. p \in 0 .. Item.parts
  BY <1>4
<1>6. at'.item = i /\ at'.part = p + 1 /\ at' \in [item : Nat, part : Nat]
  BY <1>1, <1>4, <1>5
<1>7. Item' = Item
  BY <1>3, <1>6 DEF Item
<1>8. Own' = done \cup {row}
  <2>1. Own' = {ItemRow(Try, i, q) : q \in 0 .. p}
    BY <1>3, <1>5, <1>6 DEF Own, ItemRow
  <2>2. CASE pc = "row"
    <3>1. p = 0 /\ 0 .. p = {0}
      BY <2>2
    <3> QED BY <2>1, <2>2, <3>1
  <2>3. CASE pc = "parts"
    <3>1. p = at.part /\ p \in Nat /\ 0 .. p = (0 .. p - 1) \cup {p}
      BY <1>5, <2>3
    <3> QED BY <2>1, <2>3, <3>1 DEF Own
  <2> QED BY <1>1, <2>2, <2>3
<1>9. calls' = <<Earlier(i), Own'>>
  <2>1. calls[2] = done
    BY <1>2
  <2> QED BY <1>1, <1>2, <1>8, <2>1, OneCallTwo
<1>10. Item.refused \notin 1 .. p
  <2>1. CASE pc = "row"
    BY <1>4, <2>1
  <2>2. CASE pc = "parts"
    <3>1. Item.refused \notin 1 .. at.part - 1 /\ p = at.part /\ p # Item.refused
      BY <2>2 DEF Progress
    <3> QED BY <1>4, <3>1
  <2> QED BY <1>1, <2>1, <2>2
<1> HIDE DEF i, done, row
<1>11. Progress'
  <2>1. \A j \in 1 .. i - 1 : Asked[j].refused = 0
    BY <1>1 DEF Progress, i
  <2>2. at'.part \in 1 .. Item.parts + 1 /\ at'.part - 1 = p
    BY <1>4, <1>5, <1>6
  <2>3. calls' = <<Earlier(at.item)', Own'>>
    BY <1>3, <1>6, <1>9
  <2>4. /\ (Try >= 1)' /\ (Len(Asked) <= MaxItems)' /\ (at.item \in 1 .. Len(Asked))'
        /\ (\A j \in 1 .. at.item - 1 : Asked[j].refused = 0)'
    BY <1>3, <1>4, <1>6, <2>1
  <2>5. (at.item \in 1 .. Len(Asked) + 1)' /\ (at.item <= Len(Asked))'
    BY <1>3, <1>4, <2>4
  <2>6. (at.part \in 1 .. Item.parts + 1)' /\ (Item.refused \notin 1 .. at.part - 1)'
    BY <1>7, <1>10, <2>2
  <2> QED BY <1>1, <2>3, <2>4, <2>5, <2>6 DEF Progress
<1>12. StoredWhole'
  BY <1>1, StoredWaits
<1>13. ErrorsNameTheItem'
  BY <1>1 DEF ErrorsNameTheItem
<1>14. Calls!CallsNext
  <2>1. row \in Rows
    <3>1. p \in UNION {UNION {0 .. b[k].parts : k \in DOMAIN b} : b \in Batches}
      BY <1>4, <1>5
    <3>2. Try \in 1 .. MaxTries /\ i \in 1 .. MaxItems
      BY <1>4 DEF BulkAssumption
    <3> QED BY <3>1, <3>2 DEF Rows, row
  <2>2. calls # <<>> /\ Len(calls) = 2
    BY <1>2, InnerCall
  <2>3. Calls!Write(row)
    BY <1>1, <2>2 DEF Calls!Write
  <2> QED BY <2>1, <2>3 DEF Calls!CallsNext
<1>15. BulkAssumption' /\ batch' \in Seq(Batches) /\ Len(batch') <= MaxTries
  BY <1>1 DEF BulkAssumption
<1> QED BY <1>1, <1>6, <1>11, <1>12, <1>13, <1>14, <1>15

\* All parts of the item are written, none was refused.
LEMMA CloseStep == ASSUME BulkInv, CloseItem PROVE BulkInv' /\ Calls!CallsNext
<1> USE DEF BulkInv
<1> DEFINE i == at.item
<1>1. /\ InBatch /\ InBatch' /\ pc = "parts" /\ pc' = "item" /\ at.part > Item.parts
      /\ calls' = <<calls[1] \cup calls[2]>> /\ at' = [item |-> i + 1, part |-> 0]
      /\ UNCHANGED <<stored, batch, answer>>
  BY DEF CloseItem, InBatch
<1>2. /\ Try' = Try /\ Asked' = Asked /\ (\A k : Earlier(k)' = Earlier(k))
  BY <1>1, BatchKept
<1>3. /\ i \in DOMAIN Asked /\ Item = Asked[i] /\ i \in 1 .. Len(Asked) /\ i \in Nat
      /\ Len(Asked) \in Nat /\ Len(Asked) <= MaxItems /\ Try >= 1
      /\ Item.parts \in Nat /\ Item.refused \in 0 .. Item.parts /\ at.part \in Nat
  BY <1>1, WithinBatch
<1>4. calls = <<Earlier(i), Own>> /\ at.part = Item.parts + 1 /\ Item.refused = 0
  BY <1>1, <1>3 DEF Progress
<1>5. calls' = <<Earlier(i + 1)>>
  <2>1. Own = {ItemRow(Try, i, p) : p \in 0 .. Asked[i].parts}
    <3>1. at.part - 1 = Asked[i].parts
      BY <1>3, <1>4
    <3> QED BY <3>1 DEF Own
  <2>2. Earlier(i + 1) = Earlier(i) \cup Own
    BY <1>3, <2>1, EarlierIs
  <2> QED BY <1>1, <1>4, <2>2
<1>6. at'.item = i + 1 /\ at' \in [item : Nat, part : Nat]
  BY <1>1, <1>3
<1>7. Progress'
  <2>1. \A j \in 1 .. i - 1 : Asked[j].refused = 0
    BY <1>1 DEF Progress
  <2>2. \A j \in 1 .. i : Asked[j].refused = 0
    BY <1>3, <1>4, <2>1
  <2>3. /\ (Try >= 1)' /\ (Len(Asked) <= MaxItems)' /\ (at.item \in 1 .. Len(Asked) + 1)'
        /\ (\A j \in 1 .. at.item - 1 : Asked[j].refused = 0)'
    BY <1>2, <1>3, <1>6, <2>2
  <2>4. (calls = <<Earlier(at.item)>>)'
    BY <1>2, <1>5, <1>6
  <2> QED BY <1>1, <2>3, <2>4 DEF Progress
<1>8. StoredWhole'
  BY <1>1, StoredWaits
<1>9. ErrorsNameTheItem'
  BY <1>1 DEF ErrorsNameTheItem
<1>10. Calls!CallsNext
  <2>1. /\ calls # <<>> /\ Len(calls) = 2 /\ calls[1] = Earlier(i) /\ calls[2] = Own
        /\ Calls!Front(calls) = <<Earlier(i)>> /\ Calls!Last(calls) = Own
    BY <1>4, InnerCall
  <2>2. [Calls!Front(calls) EXCEPT ![1] = @ \cup Calls!Last(calls)] = <<calls[1] \cup calls[2]>>
    BY <2>1, OneCallTwo
  <2>3. Calls!Return
    BY <1>1, <2>1, <2>2 DEF Calls!Return
  <2> QED BY <2>3 DEF Calls!CallsNext
<1>11. BulkAssumption' /\ batch' \in Seq(Batches) /\ Len(batch') <= MaxTries
  BY <1>1 DEF BulkAssumption
<1> QED BY <1>1, <1>6, <1>7, <1>8, <1>9, <1>10, <1>11

\* The transaction of the batch commits: all of its rows, and none twice.
LEMMA CommitStep == ASSUME BulkInv, Commit PROVE BulkInv' /\ Calls!CallsNext
<1> USE DEF BulkInv
<1>1. /\ InBatch /\ pc = "item" /\ at.item > Len(Asked) /\ stored' = stored \cup calls[1]
      /\ calls' = <<>> /\ pc' = "committed" /\ UNCHANGED <<batch, at, answer>>
  BY DEF Commit, InBatch
<1>2. /\ Try' = Try /\ Asked' = Asked /\ (\A n : AllRows(n)' = AllRows(n))
  BY <1>1, BatchKept
<1>3. /\ at.item = Len(Asked) + 1 /\ Len(Asked) <= MaxItems /\ Try >= 1 /\ Try \in DOMAIN batch
      /\ Asked = batch[Try] /\ at.item \in 1 .. Len(Asked) + 1
  BY <1>1, WithinBatch
<1>4. calls = <<AllRows(Try)>> /\ stored' = stored \cup AllRows(Try)
  <2>1. calls = <<Earlier(Len(Asked) + 1)>>
    BY <1>1, <1>3 DEF Progress
  <2> QED BY <1>1, <1>3, <2>1, EarlierIs
<1>5. \A r \in AllRows(Try) : r.try = Try
  BY RowOfBatch, RowFields
<1>6. Progress'
  BY <1>1, <1>2, <1>3 DEF Progress, InBatch
<1>7. StoredWhole'
  <2>1. (\A r \in stored : r.try \in DOMAIN batch /\ r \in AllRows(r.try))'
    BY <1>1, <1>2, <1>3, <1>4, <1>5 DEF StoredWhole
  <2>2. StoredOf(Try)' = AllRows(Try)
    <3>1. StoredOf(Try) = {}
      BY <1>1 DEF StoredWhole
    <3> QED BY <1>2, <1>4, <1>5, <3>1 DEF StoredOf
  <2>3. ASSUME NEW n, n # Try PROVE StoredOf(n)' = StoredOf(n)
    BY <1>4, <1>5, <2>3 DEF StoredOf
  <2>4. WholeBatches'
    BY <1>1, <1>2, <2>2, <2>3 DEF WholeBatches, StoredWhole
  <2>5. AnswersAreTrue'
    BY <1>1 DEF AnswersAreTrue
  <2> QED BY <1>1, <1>2, <2>1, <2>2, <2>4, <2>5 DEF StoredWhole, InBatch
<1>8. ErrorsNameTheItem'
  BY <1>1 DEF ErrorsNameTheItem
<1>9. Calls!CallsNext
  <2>1. calls # <<>> /\ Len(calls) = 1 /\ calls[1] = AllRows(Try)
    BY <1>4
  <2> QED BY <1>1, <2>1 DEF Calls!CallsNext, Calls!Return
<1>10. BulkAssumption' /\ batch' \in Seq(Batches) /\ Len(batch') <= MaxTries
  BY <1>1 DEF BulkAssumption
<1> QED BY <1>1, <1>6, <1>7, <1>8, <1>9, <1>10

\* A handler that ends otherwise: rolled back, answered, or dead.
LEMMA EndStep ==
    ASSUME BulkInv, Rollback \/ Reply \/ Die
    PROVE  BulkInv' /\ [Calls!CallsNext]_Calls!acVars
<1> USE DEF BulkInv
<1>1. /\ calls' = <<>> /\ UNCHANGED <<stored, batch, at>>
      /\ \/ pc = "failed" /\ pc' = "answered" /\ answer'.kind = "error"
         \/ pc = "committed" /\ pc' = "answered" /\ answer'.kind = "created"
         \/ pc \notin {"idle", "answered"} /\ pc' = "idle"
  BY DEF Rollback, Reply, Die, Progress
<1>2. /\ Try' = Try /\ Asked' = Asked /\ \A n : AllRows(n)' = AllRows(n) /\ StoredOf(n)' = StoredOf(n)
  BY <1>1, BatchKept, StoredKept
<1>3. pc \in {"failed", "committed"} => Try >= 1
  BY DEF Progress, InBatch
<1>4. Progress'
  BY <1>1, <1>2, <1>3 DEF Progress, InBatch
<1>5. StoredWhole'
  <2>1. WholeBatches'
    BY <1>1, <1>2 DEF WholeBatches, StoredWhole
  <2>2. AnswersAreTrue'
    BY <1>1, <1>2 DEF AnswersAreTrue, StoredWhole, InBatch
  <2> QED BY <1>1, <1>2, <2>1, <2>2 DEF StoredWhole, InBatch
<1>6. ErrorsNameTheItem'
  BY <1>1 DEF ErrorsNameTheItem
<1>7. [Calls!CallsNext]_Calls!acVars
  BY <1>1 DEF Calls!CallsNext, Calls!Die, Calls!acVars
<1>8. BulkAssumption' /\ batch' \in Seq(Batches) /\ Len(batch') <= MaxTries
  BY <1>1 DEF BulkAssumption
<1> QED BY <1>1, <1>4, <1>5, <1>6, <1>7, <1>8

LEMMA BulkStep ==
    BulkInv /\ [BulkNext]_bulkVars => BulkInv' /\ [Calls!CallsNext]_Calls!acVars
<1> SUFFICES ASSUME BulkInv, [BulkNext]_bulkVars
             PROVE  BulkInv' /\ [Calls!CallsNext]_Calls!acVars
  OBVIOUS
<1>1. ASSUME WriteRow PROVE BulkInv' /\ Calls!CallsNext
  BY <1>1, RefusedStep, WrittenStep DEF WriteRow
<1>2. ASSUME WritePart PROVE BulkInv' /\ Calls!CallsNext
  <2>1. /\ pc = "parts" /\ at.part <= Item.parts
        /\ IF at.part = Item.refused THEN Fail ELSE Write(at.part)
    BY <1>2 DEF WritePart
  <2>2. CASE at.part = Item.refused
    <3>1. at.part \in Nat /\ at.part >= 1
      <4>1. InBatch
        BY <2>1 DEF InBatch
      <4>2. Item.parts \in Nat /\ at.part \in 1 .. Item.parts + 1
        BY <2>1, <4>1, WithinBatch DEF BulkInv, Progress
      <4> QED BY <4>2
    <3> QED BY <2>1, <2>2, <3>1, RefusedStep
  <2>3. CASE at.part # Item.refused
    BY <2>1, <2>3, WrittenStep
  <2> QED BY <2>2, <2>3
<1>3. ASSUME UNCHANGED bulkVars PROVE BulkInv' /\ UNCHANGED Calls!acVars
  <2>1. /\ UNCHANGED <<stored, calls, batch, at, pc, answer>>
    BY <1>3 DEF bulkVars
  <2>2. /\ Try' = Try /\ Asked' = Asked /\ (\A k : Earlier(k)' = Earlier(k))
        /\ \A n : AllRows(n)' = AllRows(n) /\ StoredOf(n)' = StoredOf(n)
    BY <2>1, BatchKept, StoredKept
  <2>3. Item' = Item /\ Own' = Own /\ \A r : NameOf(r)' = NameOf(r)
    BY <2>1, <2>2 DEF Item, Own, NameOf
  <2>4. Progress'
    BY <2>1, <2>2, <2>3 DEF BulkInv, Progress, InBatch
  <2>5. StoredWhole'
    BY <2>1, <2>2 DEF BulkInv, StoredWhole, WholeBatches, AnswersAreTrue, InBatch
  <2>6. ErrorsNameTheItem'
    BY <2>1, <2>2, <2>3 DEF BulkInv, ErrorsNameTheItem
  <2>7. BulkAssumption' /\ batch' \in Seq(Batches) /\ Len(batch') <= MaxTries
    BY <2>1 DEF BulkInv, BulkAssumption
  <2> QED BY <2>1, <2>4, <2>5, <2>6, <2>7 DEF BulkInv, Calls!acVars
<1> QED BY <1>1, <1>2, <1>3, SubmitStep, OpenStep, CloseStep, CommitStep, EndStep
        DEF BulkNext, Handling

\* Of every batch ever sent all rows are stored or none, also after the process
\* died in the middle of it; the answer says which, and an error names the item
\* to mend (executeBulkIngestion).  The writes keep the promise of
\* withTransaction.
THEOREM Ingested == BulkAssumption /\ BulkSpec => BatchesAreWhole
<1>1. BulkInv => BulkTypeOK /\ WholeBatches /\ AnswersAreTrue /\ ErrorsNameTheItem
  <2> SUFFICES ASSUME BulkInv PROVE BulkTypeOK /\ WholeBatches /\ AnswersAreTrue /\ ErrorsNameTheItem
    OBVIOUS
  <2>1. \A r \in AllRows(Try) : r.try = Try
    BY RowOfBatch, RowFields
  <2>2. pc = "parts" => Own \subseteq AllRows(Try)
    <3> SUFFICES ASSUME pc = "parts", NEW p \in 0 .. at.part - 1
                 PROVE  ItemRow(Try, at.item, p) \in AllRows(Try)
      BY DEF Own
    <3>1. InBatch /\ at.part \in 1 .. Item.parts + 1
      BY DEF BulkInv, Progress, InBatch
    <3>2. /\ at.item \in DOMAIN Asked /\ Asked = batch[Try] /\ Item = Asked[at.item]
          /\ Item.parts \in Nat
      BY <3>1, WithinBatch
    <3> QED BY <3>1, <3>2, RowOfBatch
  <2>3. \A k : Earlier(k) \subseteq AllRows(Try)
    BY DEF Earlier
  <2>4. /\ Len(calls) <= 2 /\ (InBatch <=> calls # <<>>)
        /\ \A i \in DOMAIN calls : \A r \in calls[i] : r \in AllRows(Try)
    <3>1. CASE InBatch
      <4>1. CASE calls = <<Earlier(at.item)>>
        BY <2>3, <3>1, <4>1
      <4>2. ASSUME NEW own, own \subseteq AllRows(Try), calls = <<Earlier(at.item), own>>
            PROVE  /\ Len(calls) <= 2 /\ calls # <<>>
                   /\ \A i \in DOMAIN calls : \A r \in calls[i] : r \in AllRows(Try)
        <5>1. /\ DOMAIN calls = {1, 2} /\ calls[1] = Earlier(at.item) /\ calls[2] = own
              /\ Len(calls) = 2 /\ calls # <<>>
          BY <4>2
        <5> QED BY <2>3, <4>2, <5>1
      <4> QED BY <2>2, <3>1, <4>1, <4>2 DEF BulkInv, Progress, InBatch
    <3>2. CASE ~InBatch
      <4>1. calls = <<>>
        BY <3>2 DEF BulkInv, Progress, InBatch
      <4> QED BY <3>2, <4>1
    <3> QED BY <3>1, <3>2
  <2>5. BulkTypeOK
    BY <2>1, <2>4 DEF BulkInv, BulkTypeOK, InBatch, StoredWhole
  <2> QED BY <2>5 DEF BulkInv, StoredWhole
<1> QED BY <1>1, BulkInitial, BulkStep, PTL
        DEF BulkSpec, BatchesAreWhole, KeepsTransactions, Calls!CallsSpec

(***************************************************************************)
(* Preventative maintenance: schedules and the orders they generate.       *)
(***************************************************************************)
\* Every due date that generated an order is before the one that its schedule
\* has now: so none comes twice.
GeneratedBefore ==
    \A g \in DOMAIN generated :
        /\ generated[g].schedule \in DOMAIN schedules
        /\ generated[g].due \in Dates
        /\ DayNumber(generated[g].due) < DayNumber(schedules[generated[g].schedule].due)

PMInv ==
    /\ PreventativeAssumption
    /\ schedules \in Seq(ScheduleRows) /\ pass \subseteq DOMAIN schedules
    /\ IsTable(generated)
    /\ GeneratedBefore /\ DueDateGeneratesOnce

\* The next date of a schedule: later, of its cadence, and a date.
CadenceKept(s, next) ==
    LET due == schedules[s].due
    IN  CASE schedules[s].frequency \in DOMAIN MonthsOf ->
                next.month = due.month + MonthsOf[schedules[s].frequency]
          [] schedules[s].frequency = "seasonal" ->
                next.month % 12 = schedules[s].season /\ next.month - due.month \in 1 .. 12
          [] OTHER -> DayNumber(next) = DayNumber(due) + 7

LEMMA NextDue ==
    ASSUME PMInv, NEW s \in DOMAIN schedules
    PROVE  LET next == ComputeNextDueDate(schedules[s].due, schedules[s].frequency,
                                          schedules[s].season)
           IN  /\ next \in Dates /\ DayNumber(schedules[s].due) < DayNumber(next)
               /\ CadenceKept(s, next)
<1> DEFINE row == schedules[s]
           next == ComputeNextDueDate(row.due, row.frequency, row.season)
<1>1. row \in ScheduleRows
  BY DEF PMInv
<1>2. row.due \in Dates /\ row.season \in 0 .. 11 /\ row.frequency \in Frequencies
  BY <1>1 DEF ScheduleRows
<1>3. DayNumber(row.due) \in Nat \ {0}
  BY <1>2, DayNumberType
<1>4. CASE row.frequency \in DOMAIN MonthsOf
  <2>1. /\ row.frequency # "weekly" /\ row.frequency # "seasonal"
        /\ MonthsOf[row.frequency] \in Nat \ {0}
    BY <1>4 DEF MonthsOf
  <2>2. next = AddMonths(row.due, MonthsOf[row.frequency])
    BY <1>4, <2>1 DEF ComputeNextDueDate
  <2>3. /\ next \in Dates /\ next.month = row.due.month + MonthsOf[row.frequency]
        /\ DayNumber(row.due) < DayNumber(next)
    BY <1>2, <2>1, <2>2, AddMonthsAdds
  <2> HIDE DEF next
  <2>4. CadenceKept(s, next)
    BY <1>4, <2>1, <2>3 DEF CadenceKept
  <2> QED BY <2>3, <2>4 DEF next
<1>5. CASE row.frequency = "seasonal"
  <2>1. row.frequency \notin DOMAIN MonthsOf /\ row.frequency # "weekly"
    BY <1>5 DEF MonthsOf
  <2>2. next = NextSeason(row.due, row.season)
    BY <1>5, <2>1 DEF ComputeNextDueDate
  <2> QED BY <1>2, <1>5, <2>1, <2>2, NextSeasonIs DEF CadenceKept
<1>6. CASE row.frequency = "weekly"
  <2>1. row.frequency \notin DOMAIN MonthsOf /\ row.frequency # "seasonal"
    BY <1>6 DEF MonthsOf
  <2>2. next = AddDays(row.due, 7)
    BY <1>6, <2>1 DEF ComputeNextDueDate
  <2>3. next \in Dates /\ DayNumber(next) = DayNumber(row.due) + 7
    BY <1>2, <2>2, AddDaysAdds
  <2> QED BY <1>3, <2>1, <2>3 DEF CadenceKept
<1> QED BY <1>2, <1>4, <1>5, <1>6 DEF Frequencies

\* Schedules that stay, their dates no earlier, without a new order.
LEMMA SchedulesKept ==
    ASSUME PMInv, schedules' \in Seq(ScheduleRows), DOMAIN schedules \subseteq DOMAIN schedules',
           \A s \in DOMAIN schedules : DayNumber(schedules[s].due) <= DayNumber(schedules'[s].due),
           generated' = generated, pass' \subseteq DOMAIN schedules'
    PROVE  PMInv'
<1>1. GeneratedBefore'
  <2> SUFFICES ASSUME NEW g \in DOMAIN generated
               PROVE  /\ generated[g].schedule \in DOMAIN schedules'
                      /\ generated[g].due \in Dates
                      /\ DayNumber(generated[g].due)
                           < DayNumber(schedules'[generated[g].schedule].due)
    BY DEF GeneratedBefore
  <2> DEFINE s == generated[g].schedule
  <2>1. /\ s \in DOMAIN schedules /\ generated[g].due \in Dates
        /\ DayNumber(generated[g].due) < DayNumber(schedules[s].due)
    BY DEF PMInv, GeneratedBefore
  <2>2. schedules[s].due \in Dates /\ schedules'[s].due \in Dates
    <3>1. schedules[s] \in ScheduleRows /\ schedules'[s] \in ScheduleRows
      BY <2>1 DEF PMInv
    <3> QED BY <3>1 DEF ScheduleRows
  <2>3. DayNumber(schedules[s].due) <= DayNumber(schedules'[s].due)
    BY <2>1
  <2>4. /\ DayNumber(generated[g].due) \in Nat /\ DayNumber(schedules[s].due) \in Nat
        /\ DayNumber(schedules'[s].due) \in Nat
    BY <2>1, <2>2, DayNumberType
  <2>5. DayNumber(generated[g].due) < DayNumber(schedules'[s].due)
    BY <2>1, <2>3, <2>4
  <2> QED BY <2>1, <2>5
<1>2. DueDateGeneratesOnce' /\ IsTable(generated')
  BY DEF PMInv, DueDateGeneratesOnce
<1> QED BY <1>1, <1>2 DEF PMInv, PreventativeAssumption

\* The columns and rows of a schedule that is advanced with its order.
LEMMA TriggerStep ==
    ASSUME PMInv, NEW s \in DOMAIN schedules, Trigger(s), pass' \subseteq pass
    PROVE  /\ PMInv'
           /\ generated' = Append(generated, [schedule |-> s, due |-> schedules[s].due,
                                              order |-> Len(orders) + 1])
           /\ CadenceKept(s, schedules'[s].due)
<1> DEFINE row == schedules[s]
           next == ComputeNextDueDate(row.due, row.frequency, row.season)
           new == [schedule |-> s, due |-> row.due, order |-> Len(orders) + 1]
           n == Len(generated)
<1>1. generated' = Append(generated, new) /\ schedules' = [schedules EXCEPT ![s].due = next]
  BY DEF Trigger, Insert
<1>2. row \in ScheduleRows /\ row.due \in Dates
  <2>1. row \in ScheduleRows
    BY DEF PMInv
  <2> QED BY <2>1 DEF ScheduleRows
<1>3. next \in Dates /\ DayNumber(row.due) < DayNumber(next) /\ CadenceKept(s, next)
  BY NextDue
<1> HIDE DEF next
<1> DEFINE moved == [row EXCEPT !.due = next]
<1>4. moved \in ScheduleRows /\ moved.due = next
  BY <1>2, <1>3 DEF ScheduleRows
<1>5. /\ schedules' \in Seq(ScheduleRows) /\ DOMAIN schedules' = DOMAIN schedules
      /\ schedules'[s] = moved /\ \A k \in DOMAIN schedules : k # s => schedules'[k] = schedules[k]
  <2>1. schedules' = [schedules EXCEPT ![s] = moved]
    BY <1>1
  <2> HIDE DEF moved
  <2> QED BY <1>4, <2>1 DEF PMInv
<1> HIDE DEF moved
<1> DEFINE rows == 1 .. n
<1>6. /\ IsTable(generated') /\ DOMAIN generated' = 1 .. n + 1 /\ DOMAIN generated = rows
      /\ n \in Nat /\ generated'[n + 1] = new /\ \A g \in rows : generated'[g] = generated[g]
  BY <1>1, TableAppended, TableRows DEF PMInv
<1>7. \A g \in rows : /\ generated[g].schedule \in DOMAIN schedules /\ generated[g].due \in Dates
                      /\ DayNumber(generated[g].due) \in Nat
                      /\ DayNumber(generated[g].due)
                           < DayNumber(schedules[generated[g].schedule].due)
  BY <1>6, DayNumberType DEF PMInv, GeneratedBefore
<1>8. DayNumber(row.due) \in Nat /\ DayNumber(next) \in Nat
  BY <1>2, <1>3, DayNumberType
<1>9. GeneratedBefore'
  <2> SUFFICES ASSUME NEW g \in DOMAIN generated'
               PROVE  /\ generated'[g].schedule \in DOMAIN schedules'
                      /\ generated'[g].due \in Dates
                      /\ DayNumber(generated'[g].due)
                           < DayNumber(schedules'[generated'[g].schedule].due)
    BY DEF GeneratedBefore
  <2>1. CASE g = n + 1
    BY <1>2, <1>3, <1>4, <1>5, <1>6, <2>1
  <2>2. CASE g \in rows /\ generated[g].schedule = s
    BY <1>3, <1>4, <1>5, <1>6, <1>7, <1>8, <2>2
  <2>3. CASE g \in rows /\ generated[g].schedule # s
    BY <1>5, <1>6, <1>7, <2>3
  <2> QED BY <1>6, <2>1, <2>2, <2>3
<1>10. DueDateGeneratesOnce'
  <2>1. \A g \in rows : generated[g].schedule = s => generated[g].due # row.due
    BY <1>7, <1>8
  <2> SUFFICES ASSUME NEW g \in DOMAIN generated', NEW h \in DOMAIN generated',
                      generated'[g].schedule = generated'[h].schedule,
                      generated'[g].due = generated'[h].due
               PROVE  g = h
    BY DEF DueDateGeneratesOnce
  <2>2. CASE g = n + 1 /\ h = n + 1
    BY <2>2
  <2>3. CASE g = n + 1 /\ h \in rows
    BY <1>6, <2>1, <2>3
  <2>4. CASE g \in rows /\ h = n + 1
    BY <1>6, <2>1, <2>4
  <2>5. CASE g \in rows /\ h \in rows
    BY <1>6, <2>5 DEF PMInv, DueDateGeneratesOnce
  <2> QED BY <1>6, <2>2, <2>3, <2>4, <2>5
<1>11. PreventativeAssumption' /\ pass' \subseteq DOMAIN schedules'
  BY <1>5 DEF PMInv, PreventativeAssumption
<1>12. PMInv'
  BY <1>5, <1>6, <1>9, <1>10, <1>11 DEF PMInv
<1> QED BY <1>1, <1>3, <1>4, <1>5, <1>12

\* No schedule generates an order: nothing to say of its next date.
LEMMA NoneGenerated ==
    ASSUME generated' = generated
    PROVE  \A s : ~\E g \in GeneratedBy(s)' : g \notin DOMAIN generated
BY DEF GeneratedBy

PassedOver ==
    \A s \in DOMAIN schedules :
        (\E g \in GeneratedBy(s)' : g \notin DOMAIN generated) => CadenceKept(s, schedules'[s].due)
Served ==
    pass # {} /\ ~Stop =>
        \A s \in pass : s \notin pass' /\ CanTrigger(s) =>
            \E g \in GeneratedBy(s)' : g \notin DOMAIN generated

\* The order that is new is that of the schedule.
LEMMA OneGenerated ==
    ASSUME PMInv, NEW s \in DOMAIN schedules, Trigger(s), pass' \subseteq pass,
           pass = {} \/ pass \ {s} \subseteq pass'
    PROVE  PMInv' /\ PassedOver /\ Served
<1> DEFINE n == Len(generated)
<1>1. /\ PMInv' /\ CadenceKept(s, schedules'[s].due)
      /\ generated' = Append(generated, [schedule |-> s, due |-> schedules[s].due,
                                         order |-> Len(orders) + 1])
  BY TriggerStep
<1>2. /\ DOMAIN generated' = 1 .. n + 1 /\ DOMAIN generated = 1 .. n /\ n \in Nat
      /\ generated'[n + 1].schedule = s
  BY <1>1, TableAppended, TableRows DEF PMInv
<1>3. n + 1 \in GeneratedBy(s)' /\ n + 1 \notin DOMAIN generated
  BY <1>2 DEF GeneratedBy
<1>4. ASSUME NEW k \in DOMAIN schedules, NEW g \in GeneratedBy(k)', g \notin DOMAIN generated
      PROVE  k = s
  BY <1>2, <1>4 DEF GeneratedBy
<1>5. PassedOver
  BY <1>1, <1>4 DEF PassedOver
<1>6. Served
  BY <1>3 DEF Served
<1> QED BY <1>1, <1>5, <1>6

LEMMA PMStep ==
    PMInv /\ [PMNext]_PMVars => PMInv' /\ [PassedOver]_PMVars /\ [Served]_PMVars
<1> SUFFICES ASSUME PMInv, [PMNext]_PMVars
             PROVE  PMInv' /\ [PassedOver]_PMVars /\ [Served]_PMVars
  OBVIOUS
<1>1. /\ schedules \in Seq(ScheduleRows) /\ DOMAIN schedules = 1 .. Len(schedules)
      /\ Len(schedules) \in Nat /\ ScheduleInputs \subseteq ScheduleRows /\ Today \subseteq Dates
  BY DEF PMInv, PreventativeAssumption
<1>2. \A s \in DOMAIN schedules : /\ schedules[s] \in ScheduleRows /\ schedules[s].due \in Dates
                                  /\ DayNumber(schedules[s].due) \in Nat
  <2>1. \A s \in DOMAIN schedules : schedules[s] \in ScheduleRows
    BY <1>1
  <2>2. \A s \in DOMAIN schedules : schedules[s].due \in Dates
    BY <2>1 DEF ScheduleRows
  <2> QED BY <2>1, <2>2, DayNumberType
<1>3. ASSUME NEW input \in ScheduleInputs, pass = {}, CreateSchedule(input)
      PROVE  PMInv' /\ PassedOver /\ Served
  <2>1. /\ schedules' = Append(schedules, [input EXCEPT !.active = TRUE])
        /\ generated' = generated /\ pass' = pass
    BY <1>3 DEF CreateSchedule
  <2>2. [input EXCEPT !.active = TRUE] \in ScheduleRows
    BY <1>1, <1>3 DEF ScheduleRows
  <2>3. /\ schedules' \in Seq(ScheduleRows) /\ DOMAIN schedules \subseteq DOMAIN schedules'
        /\ \A s \in DOMAIN schedules : schedules'[s] = schedules[s]
    BY <1>1, <2>1, <2>2
  <2>4. PMInv'
    BY <1>2, <1>3, <2>1, <2>3, SchedulesKept
  <2> QED BY <1>3, <2>1, <2>4, NoneGenerated DEF PassedOver, Served
<1>4. ASSUME NEW s \in DOMAIN schedules, NEW due \in Today, NEW active \in BOOLEAN, pass = {},
             due \in Later(s) \cup {schedules[s].due}, UpdateSchedule(s, due, active)
      PROVE  PMInv' /\ PassedOver /\ Served
  <2>1. /\ schedules' = [schedules EXCEPT ![s].due = due, ![s].active = active]
        /\ generated' = generated /\ pass' = pass
    BY <1>4 DEF UpdateSchedule
  <2>2. due \in Dates /\ DayNumber(schedules[s].due) <= DayNumber(due)
    BY <1>1, <1>2, <1>4 DEF Later
  <2> DEFINE row == [schedules[s] EXCEPT !.due = due, !.active = active]
  <2>3. row \in ScheduleRows /\ row.due = due
    BY <1>2, <2>2 DEF ScheduleRows
  <2>4. schedules' = [schedules EXCEPT ![s] = row]
    <3>1. [schedules EXCEPT ![s].due = due, ![s].active = active] = [schedules EXCEPT ![s] = row]
      BY <1>1, <1>2 DEF ScheduleRows
    <3> QED BY <2>1, <3>1
  <2> HIDE DEF row
  <2>5. /\ schedules' \in Seq(ScheduleRows) /\ DOMAIN schedules' = DOMAIN schedules
        /\ schedules'[s] = row /\ \A k \in DOMAIN schedules : k # s => schedules'[k] = schedules[k]
    BY <1>1, <2>3, <2>4
  <2>6. \A k \in DOMAIN schedules : DayNumber(schedules[k].due) <= DayNumber(schedules'[k].due)
    BY <1>2, <2>2, <2>3, <2>5
  <2>7. PMInv'
    BY <1>4, <2>1, <2>5, <2>6, SchedulesKept
  <2> QED BY <1>4, <2>1, <2>7, NoneGenerated DEF PassedOver, Served
<1>5. ASSUME NEW s \in DOMAIN schedules, pass = {}, DeleteSchedule(s)
      PROVE  PMInv' /\ PassedOver /\ Served
  <2>1. /\ schedules' = [schedules EXCEPT ![s].live = FALSE]
        /\ generated' = generated /\ pass' = pass
    BY <1>5 DEF DeleteSchedule
  <2> DEFINE row == [schedules[s] EXCEPT !.live = FALSE]
  <2>2. row \in ScheduleRows /\ row.due = schedules[s].due
    BY <1>2 DEF ScheduleRows
  <2>3. schedules' = [schedules EXCEPT ![s] = row]
    BY <2>1
  <2> HIDE DEF row
  <2>4. /\ schedules' \in Seq(ScheduleRows) /\ DOMAIN schedules' = DOMAIN schedules
        /\ schedules'[s] = row /\ \A k \in DOMAIN schedules : k # s => schedules'[k] = schedules[k]
    BY <1>1, <2>2, <2>3
  <2>5. \A k \in DOMAIN schedules : DayNumber(schedules[k].due) <= DayNumber(schedules'[k].due)
    BY <1>2, <2>2, <2>4
  <2>6. PMInv'
    BY <1>5, <2>1, <2>4, <2>5, SchedulesKept
  <2> QED BY <1>5, <2>1, <2>6, NoneGenerated DEF PassedOver, Served
<1>6. ASSUME NEW s \in DOMAIN schedules, pass = {}, TriggerByHand(s)
      PROVE  PMInv' /\ PassedOver /\ Served
  BY <1>6, OneGenerated DEF TriggerByHand
\* Steps that leave schedules and their orders alone.
<1>7. ASSUME UNCHANGED <<schedules, generated>>, pass' \subseteq DOMAIN schedules
      PROVE  PMInv' /\ PassedOver
  BY <1>1, <1>2, <1>7, SchedulesKept, NoneGenerated DEF PassedOver
<1>8. ASSUME NEW today \in Today, pass = {}, StartPass(today)
      PROVE  PMInv' /\ PassedOver /\ Served
  BY <1>7, <1>8 DEF StartPass, Served
<1>9. ASSUME pass = {}, RunOrders
      PROVE  PMInv' /\ PassedOver /\ Served
  BY <1>7, <1>9 DEF RunOrders, Served, PMInv
<1>10. ASSUME pass # {}, PassStep
       PROVE  PMInv' /\ PassedOver /\ Served
  <2>1. PICK s \in pass : PassFails(s) \/ (Trigger(s) /\ pass' = pass \ {s})
    BY <1>10 DEF PassStep
  <2>2. s \in DOMAIN schedules
    BY <2>1 DEF PMInv
  <2>3. CASE PassFails(s)
    <3>1. /\ ~CanTrigger(s) /\ pass' = pass \ {s} /\ UNCHANGED <<schedules, generated>>
      BY <2>3 DEF PassFails
    <3>2. PMInv' /\ PassedOver
      BY <1>7, <3>1 DEF PMInv
    <3> QED BY <3>1, <3>2 DEF Served
  <2>4. CASE Trigger(s) /\ pass' = pass \ {s}
    BY <2>2, <2>4, OneGenerated
  <2> QED BY <2>1, <2>3, <2>4
<1>11. ASSUME Stop PROVE PMInv' /\ PassedOver /\ Served
  BY <1>7, <1>11 DEF Stop, Served
<1>12. ASSUME UNCHANGED PMVars PROVE PMInv'
  BY <1>7, <1>12 DEF PMVars, PMInv
<1> QED BY <1>3, <1>4, <1>5, <1>6, <1>8, <1>9, <1>10, <1>11, <1>12 DEF PMNext, ManageSchedules

\* A due date of a schedule generates one order, though schedules are triggered
\* by hand, by passes that die half way and by the passes after them; no date of
\* its cadence is passed over, whatever the lengths of the months; and a pass
\* serves every schedule that was due and whose property is there
\* (runPreventativeMaintenanceCheck, triggerPreventativeSchedule).
THEOREM SchedulesGenerate == PreventativeAssumption /\ PMSpec => DatesGenerateOnce
<1>1. PreventativeAssumption /\ PMInit => PMInv
  <2>1. \A S : <<>> \in Seq(S)
    OBVIOUS
  <2> QED BY <2>1 DEF PMInit, PMInv, IsTable, GeneratedBefore, DueDateGeneratesOnce
<1>2. PMInv => PMTypeOK /\ DueDateGeneratesOnce
  <2> SUFFICES ASSUME PMInv PROVE PMTypeOK
    BY DEF PMInv
  <2>1. \A s \in DOMAIN schedules : schedules[s] \in ScheduleRows
    BY DEF PMInv
  <2>2. \A s \in DOMAIN schedules : schedules[s].due \in Dates
    BY <2>1 DEF ScheduleRows
  <2> QED BY <2>2 DEF PMInv, PMTypeOK
<1>3. PreventativeAssumption /\ PMSpec => [][PassedOver]_PMVars /\ [][Served]_PMVars /\ []PMInv
  BY <1>1, PMStep, PTL DEF PMSpec
<1>4. [PassedOver]_PMVars =>
        [\A s \in DOMAIN schedules :
          (\E g \in GeneratedBy(s)' : g \notin DOMAIN generated)
          => LET due == schedules[s].due
                 next == schedules'[s].due
             IN  CASE schedules[s].frequency \in DOMAIN MonthsOf ->
                        next.month = due.month + MonthsOf[schedules[s].frequency]
                   [] schedules[s].frequency = "seasonal" ->
                        /\ next.month % 12 = schedules[s].season
                        /\ next.month - due.month \in 1 .. 12
                   [] OTHER -> DayNumber(next) = DayNumber(due) + 7]_PMVars
  BY DEF PassedOver, CadenceKept
<1>5. [Served]_PMVars =>
        [pass # {} /\ ~Stop =>
         \A s \in pass : s \notin pass' /\ CanTrigger(s) =>
            \E g \in GeneratedBy(s)' : g \notin DOMAIN generated]_PMVars
  BY DEF Served
<1>6. PreventativeAssumption /\ PMSpec => NoMonthSkipped
  BY <1>3, <1>4, PTL DEF NoMonthSkipped
<1>7. PreventativeAssumption /\ PMSpec => PassServesTheRest
  BY <1>3, <1>5, PTL DEF PassServesTheRest
<1> QED BY <1>2, <1>3, <1>6, <1>7, PTL DEF DatesGenerateOnce
=============================================================================
