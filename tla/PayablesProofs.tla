--------------------------- MODULE PayablesProofs ----------------------------
(***************************************************************************)
(* Theorems about AccountsPayable, for any number of bills, checks and     *)
(* credits, any vendors and any amounts: what bills have stored about      *)
(* their payments is what checks and credits say, documents and journal    *)
(* entries match, and the journal stays an append-only ledger.  Then about *)
(* RecurringBills and, on its own journal, ClientAccounting: what may be   *)
(* paid out to owners.                                                     *)
(***************************************************************************)
EXTENDS RecurringBills, JournalProofs

CONSTANTS
    Properties, Portfolios, None, InitialPortfolio, UnitsOf, Amounts, Uses, Rate, FlatFee,
    MaxDay, MaxAgreements, DaysPerMonth

VARIABLES
    today, portfolioOf, cashEntries, contributions, distributions, agreements

Owners == INSTANCE ClientAccounting WITH entries <- cashEntries

(***************************************************************************)
(* Pouring an amount over lines.                                           *)
(***************************************************************************)
LEMMA MinOfTwo ==
    ASSUME NEW a \in Int, NEW b \in Int
    PROVE  Min({a, b}) = IF a <= b THEN a ELSE b
<1> DEFINE P(x) == x \in {a, b} /\ \A y \in {a, b} : x <= y
<1>1. P(IF a <= b THEN a ELSE b)
  OBVIOUS
<1>2. \A x : P(x) => x = IF a <= b THEN a ELSE b
  OBVIOUS
<1>3. Min({a, b}) = CHOOSE x \in {a, b} : \A y \in {a, b} : x <= y
  BY DEF Min
<1>4. Min({a, b}) \in {a, b} /\ \A y \in {a, b} : Min({a, b}) <= y
  BY <1>1, <1>3
<1> QED BY <1>2, <1>4

LEMMA MaxOfTwo ==
    ASSUME NEW a \in Int, NEW b \in Int
    PROVE  Max({a, b}) = IF a <= b THEN b ELSE a
<1> DEFINE P(x) == x \in {a, b} /\ \A y \in {a, b} : x >= y
<1>1. P(IF a <= b THEN b ELSE a)
  OBVIOUS
<1>2. \A x : P(x) => x = IF a <= b THEN b ELSE a
  OBVIOUS
<1>3. Max({a, b}) = CHOOSE x \in {a, b} : \A y \in {a, b} : x >= y
  BY DEF Max
<1>4. Max({a, b}) \in {a, b} /\ \A y \in {a, b} : Max({a, b}) >= y
  BY <1>1, <1>3
<1> QED BY <1>2, <1>4

\* The total of the first rows of a table is its running total there.
LEMMA TotalOfPrefix ==
    ASSUME NEW f \in Seq(Int), NEW r, IsRunning(r, f, Len(f)), NEW k \in 0 .. Len(f)
    PROVE  Total(SubSeq(f, 1, k)) = r[k]
<1> DEFINE g == SubSeq(f, 1, k)
           s == [i \in 0 .. k |-> r[i]]
<1>1. g \in Seq(Int) /\ Len(g) = k /\ \A i \in 1 .. k : g[i] = f[i]
  OBVIOUS
<1>2. k \in Nat /\ k <= Len(f) /\ Len(f) \in Nat
  OBVIOUS
<1> HIDE DEF g
<1>3. IsRunning(s, g, Len(g))
  <2>1. \A i \in 1 .. k : i \in 1 .. Len(f) /\ i \in 0 .. k /\ i - 1 \in 0 .. k
    BY <1>2
  <2>2. s \in [0 .. k -> Int] /\ s[0] = 0
    <3>1. \A i \in 0 .. k : i \in 0 .. Len(f)
      BY <1>2
    <3>2. \A i \in 0 .. k : r[i] \in Int
      BY <3>1 DEF IsRunning
    <3>3. 0 \in 0 .. k /\ r[0] = 0
      BY <1>2 DEF IsRunning
    <3> QED BY <3>2, <3>3
  <2>3. \A i \in 1 .. k : s[i] = s[i - 1] + g[i]
    BY <1>1, <1>2, <2>1 DEF IsRunning
  <2> QED BY <1>1, <2>2, <2>3 DEF IsRunning
<1>4. Total(g) = s[Len(g)]
  BY <1>1, <1>3, TotalIsRunning
<1> QED BY <1>1, <1>2, <1>4 DEF g

\* An amount that fits is poured in full, and no line gets more than its room.
LEMMA PourFills ==
    ASSUME NEW room \in Seq(Nat), NEW amt \in Nat, amt <= Total(room)
    PROVE  /\ Pour(amt, room) \in Seq(Nat) /\ Len(Pour(amt, room)) = Len(room)
           /\ \A k \in 1 .. Len(room) : Pour(amt, room)[k] <= room[k]
           /\ Total(Pour(amt, room)) = amt
<1> DEFINE n == Len(room)
           p == Pour(amt, room)
<1>1. n \in Nat /\ DOMAIN room = 1 .. n /\ room \in Seq(Int)
  OBVIOUS
<1>2. PICK r : IsRunning(r, room, n)
  BY <1>1, RunningExists
<1>3. /\ r \in [0 .. n -> Int] /\ r[0] = 0
      /\ \A k \in 1 .. n : r[k] = r[k - 1] + room[k] /\ room[k] \in Nat
  BY <1>1, <1>2 DEF IsRunning
<1>4. ASSUME NEW k \in 1 .. n
      PROVE  /\ Total(SubSeq(room, 1, k - 1)) = r[k - 1]
             /\ p[k] = Min({room[k], Max({0, amt - r[k - 1]})})
  <2>1. k - 1 \in 0 .. n
    BY <1>1
  <2>2. Total(SubSeq(room, 1, k - 1)) = r[k - 1]
    BY <1>1, <1>2, <2>1, TotalOfPrefix
  <2> QED BY <1>1, <2>2 DEF Pour
<1>5. ASSUME NEW k \in 1 .. n
      PROVE  /\ p[k] \in Nat /\ p[k] <= room[k]
             /\ (IF amt <= r[k] THEN amt ELSE r[k])
                  = (IF amt <= r[k - 1] THEN amt ELSE r[k - 1]) + p[k]
  <2>1. k - 1 \in 0 .. n /\ k \in 0 .. n
    BY <1>1
  <2>2. r[k - 1] \in Int /\ r[k] \in Int /\ room[k] \in Nat /\ r[k] = r[k - 1] + room[k]
    BY <1>3, <2>1
  <2>3. PICK d \in Int : d = amt - r[k - 1]
    BY <2>2
  <2>4. Max({0, d}) = IF 0 <= d THEN d ELSE 0
    BY MaxOfTwo
  <2>5. PICK x \in Int : x = Max({0, d})
    BY <2>4
  <2>6. PICK m \in Int : m = room[k]
    BY <2>2
  <2>7. p[k] = Min({m, x})
    BY <1>4, <2>3, <2>5, <2>6
  <2> HIDE DEF p
  <2>8. p[k] = IF m <= x THEN m ELSE x
    BY <2>7, MinOfTwo
  <2>9. PICK a \in Int, b \in Int : a = r[k - 1] /\ b = r[k]
    BY <2>2
  <2>10. PICK q \in Int : q = p[k] /\ q = IF m <= x THEN m ELSE x
    BY <2>8
  <2>11. x = IF 0 <= amt - a THEN amt - a ELSE 0
    BY <2>3, <2>4, <2>5, <2>9
  <2>12. b = a + m /\ m >= 0
    BY <2>2, <2>6, <2>9
  <2>13. /\ q >= 0 /\ q <= m
         /\ (IF amt <= b THEN amt ELSE b) = (IF amt <= a THEN amt ELSE a) + q
    BY <2>10, <2>11, <2>12
  <2> QED BY <2>6, <2>9, <2>10, <2>13
<1>6. DOMAIN p = 1 .. n
  BY <1>1 DEF Pour
<1>7. p = [k \in 1 .. n |-> p[k]]
  BY <1>1 DEF Pour
<1> HIDE DEF p
<1>8. p \in Seq(Nat) /\ Len(p) = n
  BY <1>1, <1>5, <1>7
<1> DEFINE s == [k \in 0 .. n |-> IF amt <= r[k] THEN amt ELSE r[k]]
<1>9. IsRunning(s, p, n)
  <2>1. s \in [0 .. n -> Int] /\ s[0] = 0
    BY <1>1, <1>3
  <2>2. \A k \in 1 .. n : k \in 0 .. n /\ k - 1 \in 0 .. n
    BY <1>1
  <2>3. \A k \in 1 .. n : s[k] = s[k - 1] + p[k]
    BY <1>5, <2>2
  <2> HIDE DEF s
  <2> QED BY <2>1, <2>3 DEF IsRunning
<1>10. Total(p) = s[n]
  <2>1. p \in Seq(Int) /\ IsRunning(s, p, Len(p))
    BY <1>8, <1>9
  <2> HIDE DEF s
  <2> QED BY <1>8, <2>1, TotalIsRunning
<1>11. Total(room) = r[n]
  BY <1>1, <1>2, TotalIsRunning
<1>12. s[n] = amt
  BY <1>1, <1>3, <1>11
<1> QED BY <1>5, <1>8, <1>10, <1>12 DEF p

LEMMA NaturalRows == \A f : f \in Seq(Nat) => f \in Seq(Int)
OBVIOUS

(***************************************************************************)
(* What a bill has stored about its payments.                              *)
(***************************************************************************)
SettledIs(bill) ==
    /\ bill \in Bills /\ bill.lines # << >> /\ Len(bill.settled) = Len(bill.lines)
    /\ bill.paid = Total(bill.settled)
    /\ \A k \in DOMAIN bill.lines : bill.settled[k] \in 0 .. bill.lines[k].amount
    /\ bill.status \in Entered \cup {"approved", "voided"} <=> bill.paid = 0
    /\ bill.status = "paid" <=> bill.paid = LinesTotal(bill.lines)

LEMMA LinesTotalIs ==
    ASSUME NEW lines \in Seq(Allocations)
    PROVE  /\ [k \in DOMAIN lines |-> lines[k].amount] \in Seq(Nat)
           /\ LinesTotal(lines) \in Nat
           /\ lines # << >> => LinesTotal(lines) > 0
<1> DEFINE f == [k \in DOMAIN lines |-> lines[k].amount]
<1>1. PICK n \in Nat : n = Len(lines) /\ DOMAIN lines = 1 .. n
  OBVIOUS
<1>2. \A k \in 1 .. n : lines[k] \in Allocations
  BY <1>1
<1>3. \A k \in 1 .. n : lines[k].amount \in Nat /\ lines[k].amount > 0
  BY <1>2 DEF Allocations
<1>4. f = [k \in 1 .. n |-> lines[k].amount]
  BY <1>1
<1>5. f \in Seq(Nat) /\ Len(f) = n /\ \A k \in 1 .. n : f[k] > 0
  BY <1>3, <1>4
<1>6. Total(f) = LinesTotal(lines)
  BY DEF LinesTotal
<1> HIDE DEF f
<1>7. Total(f) \in Nat /\ \A k \in 1 .. Len(f) : f[k] <= Total(f)
  BY <1>5, TotalOfNaturals
<1>8. lines # << >> => 1 \in 1 .. n
  BY <1>1
<1>9. lines # << >> => Total(f) > 0
  <2>1. SUFFICES ASSUME lines # << >> PROVE Total(f) > 0
    OBVIOUS
  <2>2. f[1] > 0 /\ f[1] <= Total(f) /\ f[1] \in Nat
    BY <1>5, <1>7, <1>8, <2>1
  <2> QED BY <1>7, <2>2
<1> QED BY <1>5, <1>6, <1>7, <1>9 DEF f

\* The columns of a bill.
LEMMA BillFields ==
    ASSUME NEW bill \in Bills
    PROVE  /\ bill.vendor \in Vendors /\ bill.wo \in WorkOrders \cup {NoWorkOrder}
           /\ bill.lines \in Seq(Allocations) /\ bill.settled \in Seq(Nat)
           /\ bill.paid \in Nat /\ bill.status \in Entered \cup Posted \cup {"voided"}
BY DEF Bills

\* What the lines of a bill still take adds up to what is owed.
LEMMA RoomIs ==
    ASSUME NEW bill, SettledIs(bill)
    PROVE  LET room == [k \in DOMAIN bill.lines |->
                          bill.lines[k].amount - bill.settled[k]]
           IN  /\ room \in Seq(Nat) /\ Len(room) = Len(bill.lines)
               /\ Total(room) = LinesTotal(bill.lines) - bill.paid
               /\ LinesTotal(bill.lines) \in Nat /\ LinesTotal(bill.lines) > 0
               /\ bill.paid \in Nat /\ bill.paid <= LinesTotal(bill.lines)
<1> DEFINE room == [k \in DOMAIN bill.lines |-> bill.lines[k].amount - bill.settled[k]]
           f == [k \in DOMAIN bill.lines |-> bill.lines[k].amount]
<1>1. /\ bill.lines \in Seq(Allocations) /\ bill.settled \in Seq(Nat) /\ bill.paid \in Nat
      /\ bill.lines # << >> /\ Len(bill.settled) = Len(bill.lines)
      /\ bill.paid = Total(bill.settled)
  BY BillFields DEF SettledIs
<1>2. PICK n \in Nat : /\ n = Len(bill.lines) /\ DOMAIN bill.lines = 1 .. n
                       /\ n = Len(bill.settled) /\ DOMAIN bill.settled = 1 .. n
  BY <1>1
<1>3. f \in Seq(Nat) /\ Total(f) = LinesTotal(bill.lines) /\ Total(f) \in Nat /\ Total(f) > 0
  BY <1>1, LinesTotalIs DEF LinesTotal
<1>4. ASSUME NEW k \in 1 .. n
      PROVE  /\ f[k] = bill.lines[k].amount /\ f[k] \in Nat /\ bill.settled[k] \in Nat
             /\ bill.settled[k] <= f[k] /\ room[k] = f[k] - bill.settled[k]
  <2>1. bill.settled[k] \in 0 .. bill.lines[k].amount
    BY <1>2 DEF SettledIs
  <2>2. f[k] = bill.lines[k].amount /\ f[k] \in Nat
    BY <1>2, <1>3
  <2>3. room[k] = f[k] - bill.settled[k]
    BY <1>2
  <2> QED BY <2>1, <2>2, <2>3
<1>5. /\ room = [k \in 1 .. n |-> room[k]] /\ Len(f) = n
  BY <1>2
<1> HIDE DEF room, f
<1>6. \A k \in 1 .. n : room[k] \in Nat
  BY <1>4
<1>7. room \in Seq(Nat) /\ Len(room) = n
  BY <1>5, <1>6
<1>8. \A k \in 1 .. n : f[k] = bill.settled[k] + room[k]
  BY <1>4, <1>6
<1>9. Total(f) = Total(bill.settled) + Total(room)
  <2>1. f \in Seq(Int) /\ bill.settled \in Seq(Int) /\ room \in Seq(Int)
    BY <1>1, <1>3, <1>7, NaturalRows
  <2>2. /\ Len(room) = Len(bill.settled) /\ Len(f) = Len(bill.settled)
        /\ \A k \in 1 .. Len(bill.settled) : f[k] = bill.settled[k] + room[k]
    BY <1>2, <1>5, <1>7, <1>8
  <2> QED BY <2>1, <2>2, TotalAdd
<1>10. Total(room) \in Nat
  BY <1>7, TotalOfNaturals
<1>11. PICK a \in Nat, b \in Nat, c \in Nat :
         a = Total(f) /\ b = bill.paid /\ c = Total(room) /\ a = b + c
  BY <1>1, <1>3, <1>9, <1>10
<1>12. c = a - b /\ b <= a
  BY <1>11
<1> QED BY <1>1, <1>2, <1>3, <1>7, <1>11, <1>12 DEF room

\* Adding what is poured over the lines, or taking it away.
LEMMA SettledGrows ==
    ASSUME NEW bill, SettledIs(bill), NEW amt \in Nat,
           amt <= LinesTotal(bill.lines) - bill.paid,
           NEW poured, poured = Pour(amt, [k \in DOMAIN bill.lines |->
                                             bill.lines[k].amount - bill.settled[k]]),
           NEW new, new = [k \in DOMAIN bill.settled |-> bill.settled[k] + poured[k]]
    PROVE  /\ new \in Seq(Nat) /\ Len(new) = Len(bill.lines)
           /\ Total(new) = bill.paid + amt
           /\ \A k \in DOMAIN bill.lines : new[k] \in 0 .. bill.lines[k].amount
<1> DEFINE room == [k \in DOMAIN bill.lines |-> bill.lines[k].amount - bill.settled[k]]
<1>1. /\ room \in Seq(Nat) /\ Len(room) = Len(bill.lines)
      /\ Total(room) = LinesTotal(bill.lines) - bill.paid
  BY RoomIs
<1>2. /\ bill.lines \in Seq(Allocations) /\ bill.settled \in Seq(Nat)
      /\ Len(bill.settled) = Len(bill.lines) /\ bill.paid = Total(bill.settled)
  BY BillFields DEF SettledIs
<1>3. PICK n \in Nat : /\ n = Len(bill.lines) /\ DOMAIN bill.lines = 1 .. n
                       /\ n = Len(bill.settled) /\ DOMAIN bill.settled = 1 .. n
  BY <1>2
<1>4. \A k \in 1 .. n : /\ room[k] = bill.lines[k].amount - bill.settled[k]
                        /\ bill.settled[k] \in 0 .. bill.lines[k].amount
                        /\ bill.lines[k].amount \in Nat
  <2>1. \A k \in 1 .. n : bill.lines[k] \in Allocations
    BY <1>2, <1>3
  <2> QED BY <1>3, <2>1 DEF SettledIs, Allocations
<1>5. poured = Pour(amt, room)
  OBVIOUS
<1> HIDE DEF room
<1>6. /\ poured \in Seq(Nat) /\ Len(poured) = n /\ Total(poured) = amt
      /\ \A k \in 1 .. n : poured[k] <= room[k]
  BY <1>1, <1>3, <1>5, PourFills
<1>7. ASSUME NEW k \in 1 .. n
      PROVE  new[k] = bill.settled[k] + poured[k] /\ new[k] \in 0 .. bill.lines[k].amount
  <2>1. new[k] = bill.settled[k] + poured[k]
    BY <1>3
  <2>2. PICK a \in Nat, b \in Nat, c \in Nat :
          a = bill.lines[k].amount /\ b = bill.settled[k] /\ c = poured[k]
    <3>1. bill.lines[k].amount \in Nat /\ bill.settled[k] \in Nat
      BY <1>2, <1>3, <1>4
    <3>2. poured[k] \in Nat
      BY <1>6
    <3> QED BY <3>1, <3>2
  <2>3. c <= a - b
    BY <1>4, <1>6, <2>2
  <2> QED BY <2>1, <2>2, <2>3
<1>8. new \in Seq(Nat) /\ Len(new) = n
  <2>1. \A k \in 1 .. n : bill.settled[k] + poured[k] \in Nat
    BY <1>2, <1>3, <1>6
  <2>2. new = [k \in 1 .. n |-> bill.settled[k] + poured[k]]
    BY <1>3
  <2> QED BY <2>1, <2>2
<1>9. Total(new) = Total(bill.settled) + Total(poured)
  <2>1. \A k \in 1 .. n : new[k] = bill.settled[k] + poured[k]
    BY <1>7
  <2>2. new \in Seq(Int) /\ bill.settled \in Seq(Int) /\ poured \in Seq(Int)
    BY <1>2, <1>6, <1>8, NaturalRows
  <2>3. /\ Len(poured) = Len(bill.settled) /\ Len(new) = Len(bill.settled)
        /\ \A k \in 1 .. Len(bill.settled) : new[k] = bill.settled[k] + poured[k]
    BY <1>3, <1>6, <1>8, <2>1
  <2> QED BY <2>2, <2>3, TotalAdd
<1> QED BY <1>2, <1>3, <1>6, <1>7, <1>8, <1>9

LEMMA SettledShrinks ==
    ASSUME NEW bill, SettledIs(bill), NEW amt \in Nat, amt <= bill.paid,
           NEW poured, poured = Pour(amt, bill.settled),
           NEW new, new = [k \in DOMAIN bill.settled |-> bill.settled[k] - poured[k]]
    PROVE  /\ new \in Seq(Nat) /\ Len(new) = Len(bill.lines)
           /\ Total(new) = bill.paid - amt
           /\ \A k \in DOMAIN bill.lines : new[k] \in 0 .. bill.lines[k].amount
<1>1. /\ bill.lines \in Seq(Allocations) /\ bill.settled \in Seq(Nat) /\ bill.paid \in Nat
      /\ Len(bill.settled) = Len(bill.lines) /\ bill.paid = Total(bill.settled)
  BY BillFields DEF SettledIs
<1>2. PICK n \in Nat : /\ n = Len(bill.lines) /\ DOMAIN bill.lines = 1 .. n
                       /\ n = Len(bill.settled) /\ DOMAIN bill.settled = 1 .. n
  BY <1>1
<1>3. /\ poured \in Seq(Nat) /\ Len(poured) = n /\ Total(poured) = amt
      /\ \A k \in 1 .. n : poured[k] <= bill.settled[k]
  BY <1>1, <1>2, PourFills
<1>4. ASSUME NEW k \in 1 .. n
      PROVE  /\ new[k] = bill.settled[k] - poured[k] /\ new[k] \in 0 .. bill.lines[k].amount
             /\ new[k] \in Nat /\ bill.settled[k] = new[k] + poured[k]
  <2>1. new[k] = bill.settled[k] - poured[k]
    BY <1>2
  <2>2. bill.lines[k].amount \in Nat /\ bill.settled[k] \in 0 .. bill.lines[k].amount
    <3>1. bill.lines[k] \in Allocations
      BY <1>1, <1>2
    <3> QED BY <1>2, <3>1 DEF SettledIs, Allocations
  <2>3. PICK a \in Nat, b \in Nat, c \in Nat :
          a = bill.lines[k].amount /\ b = bill.settled[k] /\ c = poured[k]
    BY <1>1, <1>2, <1>3, <2>2
  <2>4. c <= b /\ b <= a
    BY <1>3, <2>2, <2>3
  <2> QED BY <2>1, <2>3, <2>4
<1>5. new \in Seq(Nat) /\ Len(new) = n
  <2>1. \A k \in 1 .. n : bill.settled[k] - poured[k] \in Nat
    BY <1>4
  <2>2. new = [k \in 1 .. n |-> bill.settled[k] - poured[k]]
    BY <1>2
  <2> QED BY <2>1, <2>2
<1>6. Total(bill.settled) = Total(new) + Total(poured)
  <2>1. \A k \in 1 .. n : bill.settled[k] = new[k] + poured[k]
    BY <1>4
  <2>2. new \in Seq(Int) /\ bill.settled \in Seq(Int) /\ poured \in Seq(Int)
    BY <1>1, <1>3, <1>5, NaturalRows
  <2>3. /\ Len(poured) = Len(new) /\ Len(bill.settled) = Len(new)
        /\ \A k \in 1 .. Len(new) : bill.settled[k] = new[k] + poured[k]
    BY <1>2, <1>3, <1>5, <2>1
  <2> QED BY <2>2, <2>3, TotalAdd
<1>7. Total(new) \in Nat
  BY <1>5, TotalOfNaturals
<1>8. PICK a \in Nat, b \in Nat : a = Total(new) /\ b = bill.paid /\ b = a + amt
  BY <1>1, <1>3, <1>6, <1>7
<1>9. a = b - amt
  BY <1>8
<1> QED BY <1>1, <1>2, <1>4, <1>5, <1>8, <1>9

\* A bill that is paid more stays settled line by line.
LEMMA PayIs ==
    ASSUME NEW bill, SettledIs(bill), NEW amt \in Nat, amt > 0,
           amt <= LinesTotal(bill.lines) - bill.paid
    PROVE  /\ SettledIs(Pay(bill, amt)) /\ Pay(bill, amt).paid = bill.paid + amt
           /\ Pay(bill, amt).vendor = bill.vendor /\ Pay(bill, amt).wo = bill.wo
           /\ Pay(bill, amt).lines = bill.lines
           /\ Pay(bill, amt).status \in {"paid", "partially_paid"}
<1> DEFINE poured == Pour(amt, [k \in DOMAIN bill.lines |->
                                  bill.lines[k].amount - bill.settled[k]])
           new == [k \in DOMAIN bill.settled |-> bill.settled[k] + poured[k]]
           st == IF bill.paid + amt = LinesTotal(bill.lines) THEN "paid" ELSE "partially_paid"
<1>1. bill \in Bills /\ bill.lines # << >>
  BY DEF SettledIs
<1>2. Pay(bill, amt) = [bill EXCEPT !.paid = bill.paid + amt, !.status = st, !.settled = new]
  BY <1>1 DEF Pay, Bills
<1>3. /\ poured = Pour(amt, [k \in DOMAIN bill.lines |->
                              bill.lines[k].amount - bill.settled[k]])
      /\ new = [k \in DOMAIN bill.settled |-> bill.settled[k] + poured[k]]
      /\ st = IF bill.paid + amt = LinesTotal(bill.lines) THEN "paid" ELSE "partially_paid"
  OBVIOUS
<1> HIDE DEF poured, new, st
<1>4. Pay(bill, amt) = [vendor |-> bill.vendor, wo |-> bill.wo, lines |-> bill.lines,
                        settled |-> new, paid |-> bill.paid + amt, status |-> st]
  BY <1>2, <1>1 DEF Bills
<1>5. /\ new \in Seq(Nat) /\ Len(new) = Len(bill.lines) /\ Total(new) = bill.paid + amt
      /\ \A k \in DOMAIN bill.lines : new[k] \in 0 .. bill.lines[k].amount
  BY <1>3, SettledGrows
<1>6. /\ bill.paid \in Nat /\ LinesTotal(bill.lines) \in Nat
      /\ bill.paid + amt \in Nat /\ bill.paid + amt # 0
      /\ st = "paid" <=> bill.paid + amt = LinesTotal(bill.lines)
      /\ st \in {"paid", "partially_paid"}
  <2>1. bill.paid \in Nat /\ LinesTotal(bill.lines) \in Nat
    BY RoomIs
  <2> QED BY <1>3, <2>1
<1>7. /\ Pay(bill, amt).vendor = bill.vendor /\ Pay(bill, amt).wo = bill.wo
      /\ Pay(bill, amt).lines = bill.lines /\ Pay(bill, amt).settled = new
      /\ Pay(bill, amt).paid = bill.paid + amt /\ Pay(bill, amt).status = st
  BY <1>4
<1>8. Pay(bill, amt) \in Bills
  <2>1. st \in Entered \cup Posted \cup {"voided"}
    BY <1>6 DEF Posted, Payable
  <2> QED BY <1>1, <1>4, <1>5, <1>6, <2>1 DEF Bills
<1>9. st \notin Entered \cup {"approved", "voided"}
  BY <1>6 DEF Entered
<1>10. SettledIs(Pay(bill, amt))
  BY <1>1, <1>5, <1>6, <1>7, <1>8, <1>9 DEF SettledIs
<1> QED BY <1>6, <1>7, <1>10

\* So does one that loses a payment.
LEMMA UnpayIs ==
    ASSUME NEW bill, SettledIs(bill), NEW amt \in Nat, amt > 0, amt <= bill.paid
    PROVE  /\ SettledIs(Unpay(bill, amt)) /\ Unpay(bill, amt).paid = bill.paid - amt
           /\ Unpay(bill, amt).vendor = bill.vendor /\ Unpay(bill, amt).wo = bill.wo
           /\ Unpay(bill, amt).lines = bill.lines
           /\ Unpay(bill, amt).status \in {"approved", "partially_paid"}
<1> DEFINE poured == Pour(amt, bill.settled)
           new == [k \in DOMAIN bill.settled |-> bill.settled[k] - poured[k]]
           st == IF bill.paid - amt = 0 THEN "approved" ELSE "partially_paid"
<1>1. bill \in Bills /\ bill.lines # << >>
  BY DEF SettledIs
<1>2. /\ bill.paid \in Nat /\ LinesTotal(bill.lines) \in Nat
      /\ bill.paid <= LinesTotal(bill.lines)
  BY RoomIs
<1>3. Max({0, bill.paid - amt}) = bill.paid - amt
  <2>1. PICK d \in Nat : d = bill.paid - amt
    BY <1>2
  <2>2. Max({0, d}) = d
    BY MaxOfTwo
  <2> QED BY <2>1, <2>2
<1>4. Unpay(bill, amt) = [bill EXCEPT !.paid = bill.paid - amt, !.status = st,
                                      !.settled = new]
  BY <1>1, <1>3 DEF Unpay, Bills
<1>5. /\ poured = Pour(amt, bill.settled)
      /\ new = [k \in DOMAIN bill.settled |-> bill.settled[k] - poured[k]]
      /\ st = IF bill.paid - amt = 0 THEN "approved" ELSE "partially_paid"
  OBVIOUS
<1> HIDE DEF poured, new, st
<1>6. Unpay(bill, amt) = [vendor |-> bill.vendor, wo |-> bill.wo, lines |-> bill.lines,
                          settled |-> new, paid |-> bill.paid - amt, status |-> st]
  BY <1>4, <1>1 DEF Bills
<1>7. /\ new \in Seq(Nat) /\ Len(new) = Len(bill.lines) /\ Total(new) = bill.paid - amt
      /\ \A k \in DOMAIN bill.lines : new[k] \in 0 .. bill.lines[k].amount
  BY <1>5, SettledShrinks
<1>8. /\ bill.paid - amt \in Nat /\ bill.paid - amt # LinesTotal(bill.lines)
      /\ st = "approved" <=> bill.paid - amt = 0
      /\ st \in {"approved", "partially_paid"}
  BY <1>2, <1>5
<1>9. /\ Unpay(bill, amt).vendor = bill.vendor /\ Unpay(bill, amt).wo = bill.wo
      /\ Unpay(bill, amt).lines = bill.lines /\ Unpay(bill, amt).settled = new
      /\ Unpay(bill, amt).paid = bill.paid - amt /\ Unpay(bill, amt).status = st
  BY <1>6
<1>10. Unpay(bill, amt) \in Bills
  <2>1. st \in Entered \cup Posted \cup {"voided"}
    BY <1>8 DEF Posted, Payable
  <2> QED BY <1>1, <1>6, <1>7, <1>8, <2>1 DEF Bills
<1>11. st \in Entered \cup {"approved", "voided"} <=> st = "approved"
  BY <1>8 DEF Entered
<1>12. st # "paid"
  BY <1>8
<1>13. SettledIs(Unpay(bill, amt))
  BY <1>1, <1>7, <1>8, <1>9, <1>10, <1>11, <1>12 DEF SettledIs
<1> QED BY <1>8, <1>9, <1>13

(***************************************************************************)
(* What checks and credits put on a bill.                                  *)
(***************************************************************************)
Printed(b) == [c \in DOMAIN checks |->
                 IF checks[c].status = "printed" THEN checks[c].allocs[b] ELSE 0]
Applied(b) == [c \in DOMAIN credits |-> credits[c].applied[b]]

\* The columns of a check and of a credit.
LEMMA CheckFields ==
    ASSUME NEW row \in Checks
    PROVE  /\ row.vendor \in Vendors /\ row.bank \in BankAccounts
           /\ row.allocs \in [BillIds -> Nat] /\ row.status \in {"printed", "voided"}
BY DEF Checks

LEMMA CreditFields ==
    ASSUME NEW row \in Credits_
    PROVE  /\ row.vendor \in Vendors /\ row.total \in Nat /\ row.remaining \in Nat
           /\ row.applied \in [BillIds -> Nat]
           /\ row.status \in {"open", "partially_applied", "fully_applied", "voided"}
BY DEF Credits_

LEMMA ColumnsAre ==
    ASSUME NEW cs \in Seq(Checks), NEW ds \in Seq(Credits_), NEW b \in BillIds
    PROVE  LET f == [c \in DOMAIN cs |->
                       IF cs[c].status = "printed" THEN cs[c].allocs[b] ELSE 0]
               g == [d \in DOMAIN ds |-> ds[d].applied[b]]
           IN  /\ f \in Seq(Nat) /\ Len(f) = Len(cs)
               /\ g \in Seq(Nat) /\ Len(g) = Len(ds)
<1>1. \A c \in DOMAIN cs : cs[c].allocs[b] \in Nat
  <2>1. \A c \in DOMAIN cs : cs[c] \in Checks
    OBVIOUS
  <2> QED BY <2>1, CheckFields
<1>2. \A d \in DOMAIN ds : ds[d].applied[b] \in Nat
  <2>1. \A d \in DOMAIN ds : ds[d] \in Credits_
    OBVIOUS
  <2> QED BY <2>1, CreditFields
<1>3. PICK n \in Nat : n = Len(cs) /\ DOMAIN cs = 1 .. n
  OBVIOUS
<1>4. PICK m \in Nat : m = Len(ds) /\ DOMAIN ds = 1 .. m
  OBVIOUS
<1> QED BY <1>1, <1>2, <1>3, <1>4

LEMMA PaidByIs ==
    ASSUME checks \in Seq(Checks), credits \in Seq(Credits_), NEW b \in BillIds
    PROVE  /\ Printed(b) \in Seq(Nat) /\ Len(Printed(b)) = Len(checks)
           /\ Applied(b) \in Seq(Nat) /\ Len(Applied(b)) = Len(credits)
           /\ Total(Printed(b)) \in Nat /\ Total(Applied(b)) \in Nat
           /\ PaidBy(b) = Total(Printed(b)) + Total(Applied(b)) /\ PaidBy(b) \in Nat
<1>1. /\ Printed(b) \in Seq(Nat) /\ Len(Printed(b)) = Len(checks)
      /\ Applied(b) \in Seq(Nat) /\ Len(Applied(b)) = Len(credits)
  BY ColumnsAre DEF Printed, Applied
<1>2. PaidBy(b) = Total(Printed(b)) + Total(Applied(b))
  BY DEF PaidBy, Printed, Applied
<1>3. Total(Printed(b)) \in Nat /\ Total(Applied(b)) \in Nat
  BY <1>1, TotalOfNaturals
<1> QED BY <1>1, <1>2, <1>3

\* A check that is issued pays what it allocates.
LEMMA IssuedPays ==
    ASSUME checks \in Seq(Checks), credits \in Seq(Credits_), NEW b \in BillIds,
           NEW row \in Checks, row.status = "printed", checks' = Append(checks, row),
           UNCHANGED credits
    PROVE  PaidBy(b)' = PaidBy(b) + row.allocs[b]
<1>1. row.allocs[b] \in Nat
  BY CheckFields
<1>2. PICK n \in Nat : n = Len(checks) /\ DOMAIN checks = 1 .. n
  OBVIOUS
<1>3. /\ DOMAIN checks' = 1 .. (n + 1) /\ checks'[n + 1] = row
      /\ \A c \in 1 .. n : checks'[c] = checks[c]
  BY <1>2
<1>4. Printed(b) \in Seq(Nat) /\ Len(Printed(b)) = n /\ Total(Printed(b)) \in Nat
      /\ Total(Applied(b)) \in Nat /\ PaidBy(b) = Total(Printed(b)) + Total(Applied(b))
  BY <1>2, PaidByIs
<1>5. Printed(b)' = Append(Printed(b), row.allocs[b])
  <2> DEFINE f == [c \in 1 .. (n + 1) |->
                     IF checks'[c].status = "printed" THEN checks'[c].allocs[b] ELSE 0]
             g == Append(Printed(b), row.allocs[b])
  <2>1. Printed(b)' = f
    BY <1>3 DEF Printed
  <2>2. g \in Seq(Nat) /\ Len(g) = n + 1 /\ g[n + 1] = row.allocs[b]
        /\ \A c \in 1 .. n : g[c] = Printed(b)[c]
    BY <1>1, <1>4
  <2>3. \A c \in 1 .. n : Printed(b)[c] = f[c]
    BY <1>2, <1>3 DEF Printed
  <2>4. f[n + 1] = row.allocs[b]
    BY <1>3
  <2>5. \A c \in 1 .. (n + 1) : c \in 1 .. n \/ c = n + 1
    OBVIOUS
  <2>6. DOMAIN f = 1 .. (n + 1) /\ f = [c \in 1 .. (n + 1) |-> f[c]]
    OBVIOUS
  <2> HIDE DEF f, g
  <2>7. g = [c \in 1 .. (n + 1) |-> g[c]]
    BY <2>2
  <2>8. \A c \in 1 .. (n + 1) : f[c] = g[c]
    BY <2>2, <2>3, <2>4, <2>5
  <2> QED BY <2>1, <2>6, <2>7, <2>8 DEF g
<1>6. PaidBy(b)' = Total(Printed(b)') + Total(Applied(b))
  BY DEF PaidBy, Printed, Applied
<1>7. Total(Printed(b)') = Total(Printed(b)) + row.allocs[b]
  <2>1. Printed(b) \in Seq(Int)
    BY <1>4, NaturalRows
  <2> QED BY <1>1, <1>5, <2>1, TotalAppend
<1>8. PICK x \in Nat, y \in Nat, z \in Nat :
        x = Total(Printed(b)) /\ y = Total(Applied(b)) /\ z = row.allocs[b]
  BY <1>1, <1>4
<1> QED BY <1>4, <1>6, <1>7, <1>8

\* One that is voided takes it back, and had paid it.
LEMMA VoidedPays ==
    ASSUME checks \in Seq(Checks), credits \in Seq(Credits_), NEW b \in BillIds,
           NEW c \in DOMAIN checks, checks[c].status = "printed",
           checks' \in Seq(Checks), DOMAIN checks' = DOMAIN checks,
           checks'[c].status = "voided",
           \A d \in DOMAIN checks : d # c => checks'[d] = checks[d],
           UNCHANGED credits
    PROVE  /\ checks[c].allocs[b] \in Nat /\ checks[c].allocs[b] <= PaidBy(b)
           /\ PaidBy(b)' = PaidBy(b) - checks[c].allocs[b]
<1>1. checks[c].allocs[b] \in Nat
  BY CheckFields
<1>2. PICK n \in Nat : n = Len(checks) /\ DOMAIN checks = 1 .. n /\ Len(checks') = n
  OBVIOUS
<1>3. Printed(b) \in Seq(Nat) /\ Len(Printed(b)) = n /\ Total(Printed(b)) \in Nat
      /\ Total(Applied(b)) \in Nat /\ PaidBy(b) = Total(Printed(b)) + Total(Applied(b))
  BY <1>2, PaidByIs
<1>4. Printed(b)' \in Seq(Nat) /\ Len(Printed(b)') = n
  BY <1>2, ColumnsAre DEF Printed
<1>5. Printed(b)[c] = checks[c].allocs[b] /\ Printed(b)'[c] = 0
  BY DEF Printed
<1>6. \A d \in 1 .. n : d # c => Printed(b)'[d] = Printed(b)[d]
  BY <1>2 DEF Printed
<1>7. PICK f, g, z : f = Printed(b) /\ g = Printed(b)' /\ z = checks[c].allocs[b]
  OBVIOUS
<1>15. z \in Nat
  BY <1>1, <1>7
<1>8. /\ f \in Seq(Int) /\ g \in Seq(Int) /\ Len(f) = n /\ Len(g) = n /\ c \in 1 .. n
      /\ f[c] = z /\ g[c] = 0 /\ \A d \in 1 .. n : d # c => g[d] = f[d]
  BY <1>2, <1>3, <1>4, <1>5, <1>6, <1>7, NaturalRows
<1>9. Total(g) = Total(f) + (0 - z)
  <2>1. 0 - z \in Int /\ g[c] = f[c] + (0 - z)
    BY <1>8, <1>15
  <2>2. PICK d \in Int : d = 0 - z
    BY <2>1
  <2>3. Len(g) = Len(f) /\ c \in 1 .. Len(f) /\ \A e \in 1 .. Len(f) : e # c => g[e] = f[e]
    BY <1>8
  <2> QED BY <1>8, <2>1, <2>2, <2>3, TotalUpdate
<1>10. z <= Total(f)
  <2>1. f \in Seq(Nat) /\ c \in 1 .. Len(f)
    BY <1>3, <1>7, <1>8
  <2> QED BY <1>8, <1>15, <2>1, TotalOfNaturals
<1>11. PaidBy(b)' = Total(g) + Total(Applied(b))
  BY <1>7 DEF PaidBy, Printed, Applied
<1>12. PICK x \in Nat, y \in Nat : x = Total(f) /\ y = Total(Applied(b)) /\ PaidBy(b) = x + y
  BY <1>3, <1>7
<1>13. PaidBy(b)' = x + (0 - z) + y /\ z <= x
  BY <1>9, <1>10, <1>11, <1>12
<1>14. x + (0 - z) + y = (x + y) - z /\ z <= x + y
  BY <1>13, <1>15
<1> QED BY <1>1, <1>7, <1>12, <1>13, <1>14

\* A credit that is applied pays, and a new one has paid nothing.
LEMMA AppliedPays ==
    ASSUME checks \in Seq(Checks), credits \in Seq(Credits_), NEW b \in BillIds,
           NEW c \in DOMAIN credits, NEW d \in Int,
           credits' \in Seq(Credits_), DOMAIN credits' = DOMAIN credits,
           credits'[c].applied[b] = credits[c].applied[b] + d,
           \A e \in DOMAIN credits : e # c => credits'[e] = credits[e],
           UNCHANGED checks
    PROVE  PaidBy(b)' = PaidBy(b) + d
<1>1. PICK n \in Nat : n = Len(credits) /\ DOMAIN credits = 1 .. n /\ Len(credits') = n
  OBVIOUS
<1>2. Applied(b) \in Seq(Nat) /\ Len(Applied(b)) = n /\ Total(Printed(b)) \in Nat
      /\ Total(Applied(b)) \in Nat /\ PaidBy(b) = Total(Printed(b)) + Total(Applied(b))
  BY <1>1, PaidByIs
<1>3. Applied(b)' \in Seq(Nat) /\ Len(Applied(b)') = n
  BY <1>1, ColumnsAre DEF Applied
<1>4. Applied(b)'[c] = Applied(b)[c] + d
  BY DEF Applied
<1>5. \A e \in 1 .. n : e # c => Applied(b)'[e] = Applied(b)[e]
  BY <1>1 DEF Applied
<1>6. PICK f, g : f = Applied(b) /\ g = Applied(b)'
  OBVIOUS
<1>7. /\ f \in Seq(Int) /\ g \in Seq(Int) /\ Len(f) = n /\ Len(g) = n /\ c \in 1 .. n
      /\ g[c] = f[c] + d /\ \A e \in 1 .. n : e # c => g[e] = f[e]
  BY <1>1, <1>2, <1>3, <1>4, <1>5, <1>6, NaturalRows
<1>8. Total(g) = Total(f) + d
  <2>1. Len(g) = Len(f) /\ c \in 1 .. Len(f) /\ \A e \in 1 .. Len(f) : e # c => g[e] = f[e]
    BY <1>7
  <2> QED BY <1>7, <2>1, TotalUpdate
<1>9. PaidBy(b)' = Total(Printed(b)) + Total(g)
  BY <1>6 DEF PaidBy, Printed, Applied
<1>10. PICK x \in Nat, y \in Nat : x = Total(Printed(b)) /\ y = Total(f) /\ PaidBy(b) = x + y
  BY <1>2, <1>6
<1>11. PaidBy(b)' = x + (y + d)
  BY <1>8, <1>9, <1>10
<1>12. x + (y + d) = (x + y) + d
  OBVIOUS
<1> QED BY <1>10, <1>11, <1>12

LEMMA CreatedPays ==
    ASSUME checks \in Seq(Checks), credits \in Seq(Credits_), NEW b \in BillIds,
           NEW row \in Credits_, row.applied[b] = 0, credits' = Append(credits, row),
           UNCHANGED checks
    PROVE  PaidBy(b)' = PaidBy(b)
<1>1. PICK n \in Nat : n = Len(credits) /\ DOMAIN credits = 1 .. n
  OBVIOUS
<1>2. /\ DOMAIN credits' = 1 .. (n + 1) /\ credits'[n + 1] = row
      /\ \A c \in 1 .. n : credits'[c] = credits[c]
  BY <1>1
<1>3. Applied(b) \in Seq(Nat) /\ Len(Applied(b)) = n /\ Total(Applied(b)) \in Nat
  BY <1>1, PaidByIs
<1>4. Applied(b)' = Append(Applied(b), 0)
  <2> DEFINE f == [c \in 1 .. (n + 1) |-> credits'[c].applied[b]]
             g == Append(Applied(b), 0)
  <2>1. Applied(b)' = f
    BY <1>2 DEF Applied
  <2>2. g \in Seq(Nat) /\ Len(g) = n + 1 /\ g[n + 1] = 0
        /\ \A c \in 1 .. n : g[c] = Applied(b)[c]
    BY <1>3
  <2>3. \A c \in 1 .. n : Applied(b)[c] = f[c]
    BY <1>1, <1>2 DEF Applied
  <2>4. f[n + 1] = 0
    BY <1>2
  <2>5. \A c \in 1 .. (n + 1) : c \in 1 .. n \/ c = n + 1
    OBVIOUS
  <2>6. DOMAIN f = 1 .. (n + 1) /\ f = [c \in 1 .. (n + 1) |-> f[c]]
    OBVIOUS
  <2> HIDE DEF f, g
  <2>7. g = [c \in 1 .. (n + 1) |-> g[c]]
    BY <2>2
  <2>8. \A c \in 1 .. (n + 1) : f[c] = g[c]
    BY <2>2, <2>3, <2>4, <2>5
  <2> QED BY <2>1, <2>6, <2>7, <2>8 DEF g
<1>5. Total(Applied(b)') = Total(Applied(b)) + 0
  <2>1. Applied(b) \in Seq(Int)
    BY <1>3, NaturalRows
  <2> QED BY <1>4, <2>1, TotalAppend
<1>6. Total(Applied(b)') = Total(Applied(b))
  BY <1>3, <1>5
<1>7. PaidBy(b)' = Total(Printed(b)) + Total(Applied(b)')
  BY DEF PaidBy, Printed, Applied
<1>8. PaidBy(b) = Total(Printed(b)) + Total(Applied(b))
  BY PaidByIs
<1> QED BY <1>6, <1>7, <1>8

(***************************************************************************)
(* Documents and their entries.                                            *)
(***************************************************************************)
LEMMA LineIs ==
    ASSUME NEW account \in Accounts, NEW amount \in Nat, NEW ref \in Refs \cup {NoRef}
    PROVE  Debit(account, amount, ref) \in LineInputs /\ Credit(account, amount, ref) \in LineInputs
<1>1. account \in AccountIds /\ amount \in Int /\ 0 \in Int
  BY DEF AccountIds
<1> QED BY <1>1 DEF Debit, Credit, LineInputs

LEMMA SettlementLinesAre ==
    ASSUME PayablesAssumption, NEW account \in Accounts, NEW amount \in Nat
    PROVE  SettlementLines(account, amount) \in Seq(LineInputs)
<1>1. PayableAccount \in Accounts /\ NoRef \in Refs \cup {NoRef}
  BY DEF PayablesAssumption
<1>2. PICK d \in LineInputs, c \in LineInputs :
        d = Debit(PayableAccount, amount, NoRef) /\ c = Credit(account, amount, NoRef)
  BY <1>1, LineIs
<1>3. SettlementLines(account, amount) = <<d, c>>
  BY <1>2 DEF SettlementLines
<1> QED BY <1>2, <1>3

LEMMA AccrualLinesAre ==
    ASSUME PayablesAssumption, NEW lines \in Seq(Allocations)
    PROVE  AccrualLines(lines) \in Seq(LineInputs)
<1> DEFINE d == [k \in DOMAIN lines |-> Debit(lines[k].account, lines[k].amount, lines[k].ref)]
           c == [k \in DOMAIN lines |-> Credit(PayableAccount, lines[k].amount, lines[k].ref)]
<1>1. PICK n \in Nat : n = Len(lines) /\ DOMAIN lines = 1 .. n
  OBVIOUS
<1>2. PayableAccount \in Accounts
  BY DEF PayablesAssumption
<1>3. ASSUME NEW k \in 1 .. n
      PROVE  /\ Debit(lines[k].account, lines[k].amount, lines[k].ref) \in LineInputs
             /\ Credit(PayableAccount, lines[k].amount, lines[k].ref) \in LineInputs
  <2>1. lines[k] \in Allocations
    BY <1>1
  <2>2. PICK a \in Accounts, m \in Nat, r \in Refs \cup {NoRef} :
          a = lines[k].account /\ m = lines[k].amount /\ r = lines[k].ref
    BY <2>1 DEF Allocations
  <2>3. Debit(a, m, r) \in LineInputs /\ Credit(PayableAccount, m, r) \in LineInputs
    BY <1>2, LineIs
  <2> QED BY <2>2, <2>3
<1>4. d \in Seq(LineInputs) /\ c \in Seq(LineInputs)
  BY <1>1, <1>3
<1>5. AccrualLines(lines) = d \o c
  BY DEF AccrualLines
<1> HIDE DEF d, c
<1> QED BY <1>4, <1>5

\* An entry that is posted belongs to its document and to no other one.
LEMMA PostedTo ==
    ASSUME TypeOK, NEW source, NEW doc, NEW lines, PostEntry(source, doc, lines)
    PROVE  /\ PostingsOf(source, doc)' = PostingsOf(source, doc) \cup {Len(entries) + 1}
           /\ \A s, d : s # source \/ d # doc =>
                 /\ PostingsOf(s, d)' = PostingsOf(s, d)
                 /\ OpenPostings(s, d)' = OpenPostings(s, d)
<1>1. PICK n : n = Len(entries) + 1
  OBVIOUS
<1>2. /\ DOMAIN entries' = DOMAIN entries \cup {n} /\ n \notin DOMAIN entries
      /\ entries'[n].source = source /\ entries'[n].doc = doc /\ entries'[n].reversedBy = 0
      /\ \A i \in DOMAIN entries : entries'[i] = entries[i]
  BY <1>1, PostKeeps
<1>3. PostingsOf(source, doc)' = PostingsOf(source, doc) \cup {n}
  BY <1>2 DEF PostingsOf
<1>4. ASSUME NEW s, NEW d, s # source \/ d # doc
      PROVE  /\ PostingsOf(s, d)' = PostingsOf(s, d)
             /\ OpenPostings(s, d)' = OpenPostings(s, d)
  <2>1. PostingsOf(s, d)' = PostingsOf(s, d)
    BY <1>2, <1>4 DEF PostingsOf
  <2>2. \A i \in PostingsOf(s, d) : entries'[i] = entries[i]
    BY <1>2 DEF PostingsOf
  <2> QED BY <2>1, <2>2 DEF OpenPostings
<1> QED BY <1>1, <1>3, <1>4

\* A reversal belongs to no document, and closes one entry.
LEMMA ReversedIn ==
    ASSUME JournalInv, NEW i, ReverseEntry(i)
    PROVE  \A s, d : s # "reversal" =>
                 /\ PostingsOf(s, d)' = PostingsOf(s, d)
                 /\ OpenPostings(s, d)' = OpenPostings(s, d) \ {i}
<1>1. /\ Kept /\ i \in DOMAIN entries /\ entries'[i].reversedBy # 0
      /\ \A j \in DOMAIN entries' \ DOMAIN entries : entries'[j].source = "reversal"
      /\ \A j \in DOMAIN entries : j # i => entries'[j] = entries[j]
  BY ReverseKeeps
<1>2. ASSUME NEW s, NEW d, s # "reversal"
      PROVE  /\ PostingsOf(s, d)' = PostingsOf(s, d)
             /\ OpenPostings(s, d)' = OpenPostings(s, d) \ {i}
  <2>1. PostingsOf(s, d)' = PostingsOf(s, d)
    BY <1>1, <1>2 DEF PostingsOf, Kept
  <2>2. \A j \in PostingsOf(s, d) : j # i => entries'[j] = entries[j]
    BY <1>1 DEF PostingsOf
  <2> QED BY <1>1, <2>1, <2>2 DEF OpenPostings
<1> QED BY <1>2

\* Every entry names a document, or the entry that it reverses.
Documented ==
    \A i \in DOMAIN entries :
        /\ entries[i].source = "bill" => entries[i].doc \in DOMAIN bills
        /\ entries[i].source = "vendor_check" => entries[i].doc \in DOMAIN checks
        /\ entries[i].source = "vendor_credit" => entries[i].doc \in DOMAIN credits

\* The document that comes next has no entry yet.
LEMMA NoneYet ==
    ASSUME Documented, NEW d
    PROVE  /\ d \notin DOMAIN bills => PostingsOf("bill", d) = {}
           /\ d \notin DOMAIN checks => PostingsOf("vendor_check", d) = {}
           /\ d \notin DOMAIN credits => PostingsOf("vendor_credit", d) = {}
BY DEF Documented, PostingsOf

\* After a void nothing is open of the document, and nothing else is closed.
LEMMA ReversedPosting ==
    ASSUME JournalInv, Len(entries) <= MaxEntries, UNCHANGED liveRefs,
           NEW source, NEW doc, source # "reversal",
           PostingsOf(source, doc) = {} \/ \E i : PostingsOf(source, doc) = {i},
           ReversePosting(source, doc)
    PROVE  /\ JournalInv' /\ Kept
           /\ UNCHANGED entries \/ \E i \in DOMAIN entries : ReverseEntry(i)
           /\ \A j \in DOMAIN entries' \ DOMAIN entries : entries'[j].source = "reversal"
           /\ OpenPostings(source, doc)' = {}
           /\ \A s, d : s # "reversal" =>
                 /\ PostingsOf(s, d)' = PostingsOf(s, d)
                 /\ OpenPostings(s, d)' \subseteq OpenPostings(s, d)
<1>0. liveRefs' \subseteq Refs
  BY DEF JournalInv, TypeOK
<1>1. CASE OpenPostings(source, doc) = {} /\ UNCHANGED entries
  <2>1. JournalInv' /\ Kept
    BY <1>0, <1>1, JournalKept DEF Kept
  <2>2. \A s, d : /\ PostingsOf(s, d)' = PostingsOf(s, d)
                  /\ OpenPostings(s, d)' = OpenPostings(s, d)
    BY <1>1 DEF PostingsOf, OpenPostings
  <2> QED BY <1>1, <2>1, <2>2
<1>2. ASSUME NEW i \in OpenPostings(source, doc), ReverseEntry(i)
      PROVE  /\ JournalInv' /\ Kept /\ i \in DOMAIN entries
             /\ \A j \in DOMAIN entries' \ DOMAIN entries : entries'[j].source = "reversal"
             /\ OpenPostings(source, doc)' = {}
             /\ \A s, d : s # "reversal" =>
                   /\ PostingsOf(s, d)' = PostingsOf(s, d)
                   /\ OpenPostings(s, d)' \subseteq OpenPostings(s, d)
  <2>1. JournalInv'
    BY <1>0, <1>2, ReversePreserves
  <2>2. /\ Kept /\ i \in DOMAIN entries
        /\ \A j \in DOMAIN entries' \ DOMAIN entries : entries'[j].source = "reversal"
    BY <1>2, ReverseKeeps
  <2>3. \A s, d : s # "reversal" => /\ PostingsOf(s, d)' = PostingsOf(s, d)
                                    /\ OpenPostings(s, d)' = OpenPostings(s, d) \ {i}
    BY <1>2, ReversedIn
  <2>4. OpenPostings(source, doc) \subseteq {i}
    <3>1. OpenPostings(source, doc) \subseteq PostingsOf(source, doc)
      BY DEF OpenPostings
    <3> QED BY <1>2, <3>1
  <2> QED BY <2>1, <2>2, <2>3, <2>4
<1>3. \/ OpenPostings(source, doc) = {} /\ UNCHANGED entries
      \/ \E i \in OpenPostings(source, doc) : ReverseEntry(i)
  BY DEF ReversePosting
<1> QED BY <1>1, <1>2, <1>3

(***************************************************************************)
(* The invariant.                                                          *)
(***************************************************************************)
PaidRows ==
    /\ \A b \in DOMAIN bills : SettledIs(bills[b]) /\ bills[b].paid = PaidBy(b)
    /\ \A b \in BillIds \ DOMAIN bills : PaidBy(b) = 0

Tables ==
    /\ PayablesAssumption
    /\ bills \in Seq(Bills) /\ Len(bills) <= MaxBills
    /\ checks \in Seq(Checks) /\ Len(checks) <= MaxChecks
    /\ credits \in Seq(Credits_) /\ Len(credits) <= MaxCredits
    /\ actualCost \in [WorkOrders -> Nat]

BillMatch(b) ==
    PostingsMatch("bill", b, bills[b].status \in Posted, bills[b].status = "voided")
CheckMatch(c) ==
    PostingsMatch("vendor_check", c, checks[c].status = "printed",
                  checks[c].status = "voided")
CreditMatch(c) ==
    PostingsMatch("vendor_credit", c, credits[c].status # "voided",
                  credits[c].status = "voided")

Matches ==
    /\ \A b \in DOMAIN bills : BillMatch(b)
    /\ \A c \in DOMAIN checks : CheckMatch(c)
    /\ \A c \in DOMAIN credits : CreditMatch(c)

APInv ==
    /\ JournalInv /\ Len(entries) <= MaxEntries
    /\ Tables /\ PaidRows /\ CreditsConserved /\ Documented /\ Matches

LEMMA BillsAreNumbered ==
    ASSUME Tables
    PROVE  /\ MaxBills \in Nat /\ DOMAIN bills \subseteq BillIds
           /\ DOMAIN bills = 1 .. Len(bills) /\ Len(bills) \in Nat
<1>1. MaxBills \in Nat /\ Len(bills) \in Nat /\ Len(bills) <= MaxBills
      /\ DOMAIN bills = 1 .. Len(bills)
  BY DEF Tables, PayablesAssumption
<1> QED BY <1>1 DEF BillIds

LEMMA PayablesInitial == PayablesAssumption /\ APInit => APInv
<1> SUFFICES ASSUME PayablesAssumption, APInit PROVE APInv
  OBVIOUS
<1>1. JournalInv /\ entries = << >> /\ bills = << >> /\ checks = << >> /\ credits = << >>
  BY JournalInit DEF APInit, Init
<1>2. Len(entries) <= MaxEntries
  BY <1>1, JournalAssumption
<1>3. Tables
  <2>1. {MaxBills, MaxChecks, MaxCredits} \subseteq Nat
    BY DEF PayablesAssumption
  <2>2. actualCost \in [WorkOrders -> Nat]
    BY DEF APInit
  <2> QED BY <1>1, <2>1, <2>2 DEF Tables
<1>4. PaidRows
  <2>1. \A b \in BillIds : PaidBy(b) = 0
    <3>1. ASSUME NEW b \in BillIds PROVE PaidBy(b) = Total(<< >>) + Total(<< >>)
      BY <1>1 DEF PaidBy
    <3> QED BY <3>1, TotalEmpty
  <2> QED BY <1>1, <2>1 DEF PaidRows
<1>5. CreditsConserved /\ Documented /\ Matches
  BY <1>1 DEF CreditsConserved, Documented, Matches
<1> QED BY <1>1, <1>2, <1>3, <1>4, <1>5 DEF APInv

\* What a document's entries say does not change with entries of others.
LEMMA BillMatchKept ==
    ASSUME NEW b, BillMatch(b), PostingsOf("bill", b)' = PostingsOf("bill", b),
           OpenPostings("bill", b)' \subseteq OpenPostings("bill", b),
           bills'[b].status \in Posted <=> bills[b].status \in Posted,
           bills'[b].status = "voided" <=> bills[b].status = "voided"
    PROVE  BillMatch(b)'
<1>1. PICK p, o : p = PostingsOf("bill", b) /\ o = OpenPostings("bill", b)
  OBVIOUS
<1>2. /\ bills[b].status \in Posted => \E i \in p : p = {i}
      /\ ~ (bills[b].status \in Posted) /\ ~ (bills[b].status = "voided") => p = {}
      /\ bills[b].status = "voided" => o = {}
  BY <1>1 DEF BillMatch, PostingsMatch
<1>3. PostingsOf("bill", b)' = p /\ OpenPostings("bill", b)' \subseteq o
  BY <1>1
<1> QED BY <1>2, <1>3 DEF BillMatch, PostingsMatch

LEMMA CheckMatchKept ==
    ASSUME NEW c, CheckMatch(c),
           PostingsOf("vendor_check", c)' = PostingsOf("vendor_check", c),
           OpenPostings("vendor_check", c)' \subseteq OpenPostings("vendor_check", c),
           checks'[c].status = checks[c].status
    PROVE  CheckMatch(c)'
<1>1. PICK p, o : p = PostingsOf("vendor_check", c) /\ o = OpenPostings("vendor_check", c)
  OBVIOUS
<1>2. /\ checks[c].status = "printed" => \E i \in p : p = {i}
      /\ ~ (checks[c].status = "printed") /\ ~ (checks[c].status = "voided") => p = {}
      /\ checks[c].status = "voided" => o = {}
  BY <1>1 DEF CheckMatch, PostingsMatch
<1>3. /\ PostingsOf("vendor_check", c)' = p /\ OpenPostings("vendor_check", c)' \subseteq o
  BY <1>1
<1> QED BY <1>2, <1>3 DEF CheckMatch, PostingsMatch

LEMMA CreditMatchKept ==
    ASSUME NEW c, CreditMatch(c),
           PostingsOf("vendor_credit", c)' = PostingsOf("vendor_credit", c),
           OpenPostings("vendor_credit", c)' \subseteq OpenPostings("vendor_credit", c),
           credits'[c].status = "voided" <=> credits[c].status = "voided"
    PROVE  CreditMatch(c)'
<1>1. PICK p, o : p = PostingsOf("vendor_credit", c) /\ o = OpenPostings("vendor_credit", c)
  OBVIOUS
<1>2. /\ credits[c].status # "voided" => \E i \in p : p = {i}
      /\ credits[c].status = "voided" => o = {}
  BY <1>1 DEF CreditMatch, PostingsMatch
<1>3. /\ PostingsOf("vendor_credit", c)' = p /\ OpenPostings("vendor_credit", c)' \subseteq o
  BY <1>1
<1> QED BY <1>2, <1>3 DEF CreditMatch, PostingsMatch

\* Steps that touch no document: reversals by hand, completions, deletions.
LEMMA OthersKeepPayables ==
    ASSUME APInv, JournalInv', Len(entries') <= MaxEntries,
           UNCHANGED <<bills, checks, credits>>, actualCost' \in [WorkOrders -> Nat],
           DOMAIN entries \subseteq DOMAIN entries',
           \A i \in DOMAIN entries : /\ entries'[i].source = entries[i].source
                                     /\ entries'[i].doc = entries[i].doc,
           \A j \in DOMAIN entries' \ DOMAIN entries : entries'[j].source = "reversal",
           \A s, d : s # "reversal" =>
              /\ PostingsOf(s, d)' = PostingsOf(s, d)
              /\ OpenPostings(s, d)' \subseteq OpenPostings(s, d)
    PROVE  APInv'
<1>1. Tables'
  BY DEF APInv, Tables, PayablesAssumption
<1>2. PaidRows'
  BY DEF APInv, PaidRows, PaidBy
<1>3. CreditsConserved'
  BY DEF APInv, CreditsConserved
<1>4. Documented'
  BY DEF APInv, Documented
<1>5. Matches'
  <2>1. \A b \in DOMAIN bills : BillMatch(b)'
    BY BillMatchKept DEF APInv, Matches
  <2>2. \A c \in DOMAIN checks : CheckMatch(c)'
    BY CheckMatchKept DEF APInv, Matches
  <2>3. \A c \in DOMAIN credits : CreditMatch(c)'
    BY CreditMatchKept DEF APInv, Matches
  <2> QED BY <2>1, <2>2, <2>3 DEF Matches
<1> QED BY <1>1, <1>2, <1>3, <1>4, <1>5 DEF APInv

(***************************************************************************)
(* Requests about bills.                                                   *)
(***************************************************************************)
LEMMA ZeroTotal ==
    ASSUME NEW f \in Seq(Int), \A k \in 1 .. Len(f) : f[k] = 0
    PROVE  Total(f) = 0
<1>1. PICK n \in Nat : n = Len(f)
  OBVIOUS
<1> DEFINE r == [k \in 0 .. n |-> 0]
<1>2. r \in [0 .. n -> Int] /\ r[0] = 0 /\ r[n] = 0
  OBVIOUS
<1>3. \A k \in 1 .. n : r[k] = r[k - 1] + f[k]
  <2>1. \A k \in 1 .. n : r[k] = 0 /\ r[k - 1] = 0 /\ f[k] = 0
    BY <1>1
  <2> HIDE DEF r
  <2> QED BY <2>1
<1> HIDE DEF r
<1>4. IsRunning(r, f, Len(f))
  BY <1>1, <1>2, <1>3 DEF IsRunning
<1>5. Total(f) = r[Len(f)]
  BY <1>4, TotalIsRunning
<1> QED BY <1>1, <1>2, <1>5

\* A bill that has just been entered, or entered anew.
LEMMA FreshBill ==
    ASSUME NEW v \in Vendors, NEW wo \in WorkOrders \cup {NoWorkOrder},
           NEW lines \in Seq(Allocations), lines # << >>, NEW st \in Entered,
           NEW bill, bill = [vendor |-> v, wo |-> wo, lines |-> lines,
                             settled |-> [k \in DOMAIN lines |-> 0],
                             paid |-> 0, status |-> st]
    PROVE  SettledIs(bill) /\ bill \in Bills
<1> DEFINE zeros == [k \in DOMAIN lines |-> 0]
<1>1. PICK n \in Nat : n = Len(lines) /\ DOMAIN lines = 1 .. n
  OBVIOUS
<1>2. zeros \in Seq(Nat) /\ Len(zeros) = n /\ \A k \in 1 .. n : zeros[k] = 0
  BY <1>1
<1>3. bill = [vendor |-> v, wo |-> wo, lines |-> lines, settled |-> zeros,
              paid |-> 0, status |-> st]
  OBVIOUS
<1> HIDE DEF zeros
<1>4. Total(zeros) = 0
  <2>1. zeros \in Seq(Int) /\ Len(zeros) = n
    BY <1>2, NaturalRows
  <2> QED BY <1>2, <2>1, ZeroTotal
<1>5. /\ bill.lines = lines /\ bill.settled = zeros /\ bill.paid = 0 /\ bill.status = st
  BY <1>3
<1>6. bill \in Bills
  BY <1>2, <1>3 DEF Bills
<1>7. LinesTotal(lines) \in Nat /\ LinesTotal(lines) > 0
  BY LinesTotalIs
<1>8. \A k \in 1 .. n : zeros[k] \in 0 .. lines[k].amount
  <2>1. \A k \in 1 .. n : lines[k] \in Allocations
    BY <1>1
  <2>2. \A k \in 1 .. n : lines[k].amount \in Nat
    BY <2>1 DEF Allocations
  <2> QED BY <1>2, <2>2
<1>9. st # "paid" /\ LinesTotal(lines) # 0
  BY <1>7 DEF Entered
<1> QED BY <1>1, <1>2, <1>4, <1>5, <1>6, <1>8, <1>9 DEF SettledIs

\* A bill without payments may be approved or voided.
LEMMA UnpaidBill ==
    ASSUME NEW bill, SettledIs(bill), bill.paid = 0, NEW st \in {"approved", "voided"},
           NEW new, new = [bill EXCEPT !.status = st]
    PROVE  /\ SettledIs(new) /\ new \in Bills /\ new.status = st /\ new.paid = 0
           /\ new.vendor = bill.vendor /\ new.wo = bill.wo /\ new.lines = bill.lines
<1>1. bill \in Bills
  BY DEF SettledIs
<1>2. new = [vendor |-> bill.vendor, wo |-> bill.wo, lines |-> bill.lines,
             settled |-> bill.settled, paid |-> bill.paid, status |-> st]
  BY <1>1 DEF Bills
<1>3. /\ new.lines = bill.lines /\ new.settled = bill.settled /\ new.paid = bill.paid
      /\ new.status = st /\ new.vendor = bill.vendor /\ new.wo = bill.wo
  BY <1>2
<1>4. st \in Entered \cup Posted \cup {"voided"} /\ st # "paid"
  BY DEF Posted, Payable
<1>5. new \in Bills
  BY <1>1, <1>2, <1>4 DEF Bills
<1>6. bill.paid # LinesTotal(bill.lines)
  <2>1. LinesTotal(bill.lines) \in Nat /\ LinesTotal(bill.lines) > 0
    BY RoomIs
  <2> QED BY <2>1
<1> QED BY <1>3, <1>4, <1>5, <1>6 DEF SettledIs

\* The cost of a work order is a sum over bills.
LEMMA CostIs ==
    ASSUME NEW table \in Seq(Bills), NEW w
    PROVE  /\ [b \in DOMAIN table |->
                 IF table[b].wo = w /\ table[b].status # "voided"
                 THEN LinesTotal(table[b].lines) ELSE 0] \in Seq(Nat)
           /\ WorkOrderTotal(table, w) \in Nat
<1> DEFINE f == [b \in DOMAIN table |->
                   IF table[b].wo = w /\ table[b].status # "voided"
                   THEN LinesTotal(table[b].lines) ELSE 0]
<1>1. PICK n \in Nat : n = Len(table) /\ DOMAIN table = 1 .. n
  OBVIOUS
<1>2. \A b \in 1 .. n : LinesTotal(table[b].lines) \in Nat
  <2>1. \A b \in 1 .. n : table[b] \in Bills
    BY <1>1
  <2>2. \A b \in 1 .. n : table[b].lines \in Seq(Allocations)
    BY <2>1, BillFields
  <2> QED BY <2>2, LinesTotalIs
<1>3. f \in Seq(Nat)
  BY <1>1, <1>2
<1>4. WorkOrderTotal(table, w) = Total(f)
  BY DEF WorkOrderTotal
<1> HIDE DEF f
<1> QED BY <1>3, <1>4, TotalOfNaturals DEF f

LEMMA CostsAre ==
    ASSUME actualCost \in [WorkOrders -> Nat], bills' \in Seq(Bills), NEW W, RecalcCosts(W)
    PROVE  actualCost' \in [WorkOrders -> Nat]
<1>1. \A w \in WorkOrders : WorkOrderTotal(bills', w) \in Nat
  BY CostIs
<1> QED BY <1>1 DEF RecalcCosts

\* A bill is added, or one is changed whose payments stay as they are.
LEMMA BillRowsKept ==
    ASSUME Tables, PaidRows, UNCHANGED <<checks, credits>>,
           bills' \in Seq(Bills), Len(bills') <= MaxBills, DOMAIN bills \subseteq DOMAIN bills',
           \A b \in DOMAIN bills' :
              /\ SettledIs(bills'[b])
              /\ bills'[b].paid = IF b \in DOMAIN bills THEN bills[b].paid ELSE 0
    PROVE  PaidRows'
<1>1. \A b : PaidBy(b)' = PaidBy(b)
  BY DEF PaidBy
<1>2. MaxBills \in Nat /\ DOMAIN bills' \subseteq BillIds
  <2>1. MaxBills \in Nat /\ Len(bills') \in Nat /\ DOMAIN bills' = 1 .. Len(bills')
    BY BillsAreNumbered
  <2> QED BY <2>1 DEF BillIds
<1>3. ASSUME NEW b \in DOMAIN bills' PROVE bills'[b].paid = PaidBy(b)'
  <2>1. CASE b \in DOMAIN bills
    BY <1>1, <2>1 DEF PaidRows
  <2>2. CASE b \notin DOMAIN bills
    BY <1>1, <1>2, <2>2 DEF PaidRows
  <2> QED BY <2>1, <2>2
<1>4. \A b \in BillIds \ DOMAIN bills' : PaidBy(b)' = 0
  BY <1>1 DEF PaidRows
<1> QED BY <1>3, <1>4 DEF PaidRows

LEMMA CreateBillStep ==
    ASSUME APInv, NEW input \in BillInputs, CreateBill(input)
    PROVE  APInv' /\ UNCHANGED entries
<1> DEFINE row == [vendor |-> input.vendor, wo |-> input.wo, lines |-> input.lines,
                   settled |-> [k \in DOMAIN input.lines |-> 0],
                   paid |-> 0, status |-> input.status]
<1>1. /\ Len(bills) < MaxBills /\ bills' = Append(bills, row)
      /\ RecalcCosts({input.wo}) /\ UNCHANGED <<entries, liveRefs, checks, credits>>
  BY DEF CreateBill
<1>2. JournalInv /\ Tables /\ PaidRows /\ bills \in Seq(Bills) /\ Len(entries) <= MaxEntries
  BY DEF APInv, Tables
<1>3. /\ input.vendor \in Vendors /\ input.wo \in WorkOrders \cup {NoWorkOrder}
      /\ input.lines \in Seq(Allocations) /\ input.lines # << >> /\ input.status \in Entered
  <2>1. input \in [vendor : Vendors, wo : WorkOrders \cup {NoWorkOrder},
                   lines : Seq(Allocations) \ {<<>>}, status : Entered]
    BY <1>2 DEF Tables, PayablesAssumption
  <2> QED BY <2>1
<1>4. SettledIs(row) /\ row \in Bills
  BY <1>3, FreshBill
<1>5. row.paid = 0 /\ row.status \in Entered
  BY <1>3
<1> HIDE DEF row
<1>6. PICK n \in Nat : n = Len(bills) /\ DOMAIN bills = 1 .. n
  BY <1>2
<1>7. /\ bills' \in Seq(Bills) /\ DOMAIN bills' = DOMAIN bills \cup {n + 1}
      /\ Len(bills') = n + 1 /\ bills'[n + 1] = row /\ n + 1 \notin DOMAIN bills
      /\ \A b \in DOMAIN bills : bills'[b] = bills[b]
  BY <1>1, <1>2, <1>4, <1>6
<1>8. Len(bills') <= MaxBills
  <2>1. MaxBills \in Nat
    BY <1>2, BillsAreNumbered
  <2> QED BY <1>1, <1>6, <1>7, <2>1
<1>9. PaidRows'
  <2>1. \A b \in DOMAIN bills' :
              /\ SettledIs(bills'[b])
              /\ bills'[b].paid = IF b \in DOMAIN bills THEN bills[b].paid ELSE 0
    BY <1>2, <1>4, <1>5, <1>7 DEF PaidRows
  <2>2. DOMAIN bills \subseteq DOMAIN bills'
    BY <1>7
  <2> QED BY <1>1, <1>2, <1>7, <1>8, <2>1, <2>2, BillRowsKept
<1>10. Tables'
  <2>1. actualCost' \in [WorkOrders -> Nat]
    BY <1>1, <1>2, <1>7, CostsAre DEF Tables
  <2> QED BY <1>1, <1>2, <1>7, <1>8, <2>1 DEF Tables, PayablesAssumption
<1>11. JournalInv'
  <2>1. liveRefs' \subseteq Refs
    BY <1>1, <1>2 DEF JournalInv, TypeOK
  <2> QED BY <1>1, <1>2, <2>1, JournalKept
<1>12. CreditsConserved' /\ Documented'
  BY <1>1, <1>7 DEF APInv, CreditsConserved, Documented
<1>13. \A s, d : PostingsOf(s, d)' = PostingsOf(s, d) /\ OpenPostings(s, d)' = OpenPostings(s, d)
  BY <1>1 DEF PostingsOf, OpenPostings
<1>14. Matches'
  <2>1. ASSUME NEW b \in DOMAIN bills PROVE BillMatch(b)'
    <3>1. BillMatch(b) /\ bills'[b] = bills[b]
      BY <1>7 DEF APInv, Matches
    <3> QED BY <1>13, <3>1, BillMatchKept
  <2>2. BillMatch(n + 1)'
    <3>1. PostingsOf("bill", n + 1)' = {}
      BY <1>7, <1>13, NoneYet DEF APInv
    <3>2. bills'[n + 1].status \notin Posted /\ bills'[n + 1].status # "voided"
      BY <1>5, <1>7 DEF Entered, Posted, Payable
    <3> QED BY <3>1, <3>2 DEF BillMatch, PostingsMatch
  <2>3. \A c \in DOMAIN checks : CheckMatch(c)'
    BY <1>1, <1>13, CheckMatchKept DEF APInv, Matches
  <2>4. \A c \in DOMAIN credits : CreditMatch(c)'
    BY <1>1, <1>13, CreditMatchKept DEF APInv, Matches
  <2> QED BY <1>1, <1>7, <2>1, <2>2, <2>3, <2>4 DEF Matches
<1> QED BY <1>1, <1>2, <1>9, <1>10, <1>11, <1>12, <1>14 DEF APInv

\* One bill is replaced by a row with the same payments.
LEMMA BillReplaced ==
    ASSUME Tables, PaidRows, NEW b \in DOMAIN bills, NEW row,
           SettledIs(row), row.paid = bills[b].paid, bills' = [bills EXCEPT ![b] = row],
           UNCHANGED <<checks, credits>>
    PROVE  /\ PaidRows' /\ bills' \in Seq(Bills) /\ Len(bills') = Len(bills)
           /\ Len(bills') <= MaxBills /\ DOMAIN bills' = DOMAIN bills
           /\ bills'[b] = row /\ \A d \in DOMAIN bills : d # b => bills'[d] = bills[d]
<1>1. bills \in Seq(Bills) /\ Len(bills) <= MaxBills /\ row \in Bills
  BY DEF Tables, SettledIs
<1>2. /\ bills' \in Seq(Bills) /\ Len(bills') = Len(bills) /\ DOMAIN bills' = DOMAIN bills
      /\ bills'[b] = row /\ \A d \in DOMAIN bills : d # b => bills'[d] = bills[d]
  BY <1>1
<1>3. Len(bills') <= MaxBills
  BY <1>1, <1>2
<1>4. \A d \in DOMAIN bills' :
              /\ SettledIs(bills'[d])
              /\ bills'[d].paid = IF d \in DOMAIN bills THEN bills[d].paid ELSE 0
  BY <1>2 DEF PaidRows
<1>5. PaidRows'
  BY <1>2, <1>3, <1>4, BillRowsKept
<1> QED BY <1>2, <1>3, <1>5

LEMMA UpdateBillStep ==
    ASSUME APInv, NEW b \in DOMAIN bills, NEW input \in BillInputs, NEW given \in Edits,
           UpdateBill(b, input, given)
    PROVE  APInv' /\ UNCHANGED entries
<1> DEFINE e == Edited(b, input, given)
           row == [bills[b] EXCEPT !.vendor = e.vendor, !.wo = e.wo, !.lines = e.lines,
                                   !.settled = [k \in DOMAIN e.lines |-> 0]]
<1>1. /\ bills[b].status \in Entered
      /\ RecalcCosts({bills[b].wo, e.wo}) /\ UNCHANGED <<entries, liveRefs, checks, credits>>
  BY DEF UpdateBill
<1>2. JournalInv /\ Tables /\ PaidRows /\ bills \in Seq(Bills) /\ Len(entries) <= MaxEntries
  BY DEF APInv, Tables
<1>3. bills' = [bills EXCEPT ![b] = row]
  BY <1>2 DEF UpdateBill
<1>4. bills[b] \in Bills /\ SettledIs(bills[b]) /\ bills[b].lines # << >>
  BY <1>2 DEF PaidRows, SettledIs
<1>5. bills[b].paid = 0
  BY <1>1, <1>4 DEF SettledIs
<1>6. /\ input.vendor \in Vendors /\ input.wo \in WorkOrders \cup {NoWorkOrder}
      /\ input.lines \in Seq(Allocations) /\ input.lines # << >>
  <2>1. input \in [vendor : Vendors, wo : WorkOrders \cup {NoWorkOrder},
                   lines : Seq(Allocations) \ {<<>>}, status : Entered]
    BY <1>2 DEF Tables, PayablesAssumption
  <2> QED BY <2>1
<1>7. /\ e.vendor \in Vendors /\ e.wo \in WorkOrders \cup {NoWorkOrder}
      /\ e.lines \in Seq(Allocations) /\ e.lines # << >>
  <2>1. /\ e.vendor = (IF "vendor" \in given THEN input.vendor ELSE bills[b].vendor)
        /\ e.wo = (IF "wo" \in given THEN input.wo ELSE bills[b].wo)
        /\ e.lines = (IF "lines" \in given THEN input.lines ELSE bills[b].lines)
    BY DEF Edited, Columns
  <2> HIDE DEF e
  <2> QED BY <1>4, <1>6, <2>1, BillFields
<1>8. row = [vendor |-> e.vendor, wo |-> e.wo, lines |-> e.lines,
             settled |-> [k \in DOMAIN e.lines |-> 0], paid |-> 0, status |-> bills[b].status]
  <2> HIDE DEF e
  <2>1. PICK v, wo, lines, old, zeros : /\ v = e.vendor /\ wo = e.wo /\ lines = e.lines
                                         /\ old = bills[b]
                                         /\ zeros = [k \in DOMAIN e.lines |-> 0]
    OBVIOUS
  <2>2. old \in Bills /\ old.paid = 0
    BY <1>4, <1>5, <2>1
  <2>3. row = [old EXCEPT !.vendor = v, !.wo = wo, !.lines = lines, !.settled = zeros]
    BY <2>1
  <2> HIDE DEF row
  <2>4. row = [vendor |-> v, wo |-> wo, lines |-> lines, settled |-> zeros,
               paid |-> old.paid, status |-> old.status]
    BY <2>2, <2>3 DEF Bills
  <2> QED BY <2>1, <2>2, <2>4
<1>9. SettledIs(row) /\ row.paid = 0 /\ row.status = bills[b].status
  <2>1. SettledIs(row)
    <3> HIDE DEF e, row
    <3> QED BY <1>1, <1>7, <1>8, FreshBill
  <2> HIDE DEF e
  <2> QED BY <1>8, <2>1
<1> HIDE DEF row, e
<1>10. /\ PaidRows' /\ bills' \in Seq(Bills) /\ Len(bills') <= MaxBills
       /\ DOMAIN bills' = DOMAIN bills /\ bills'[b] = row
       /\ \A d \in DOMAIN bills : d # b => bills'[d] = bills[d]
  BY <1>1, <1>2, <1>3, <1>5, <1>9, BillReplaced
<1>11. Tables'
  <2>1. actualCost' \in [WorkOrders -> Nat]
    BY <1>1, <1>2, <1>10, CostsAre DEF Tables
  <2> QED BY <1>1, <1>2, <1>10, <2>1 DEF Tables, PayablesAssumption
<1>12. JournalInv'
  <2>1. liveRefs' \subseteq Refs
    BY <1>1, <1>2 DEF JournalInv, TypeOK
  <2> QED BY <1>1, <1>2, <2>1, JournalKept
<1>13. CreditsConserved' /\ Documented'
  BY <1>1, <1>10 DEF APInv, CreditsConserved, Documented
<1>14. \A s, d : PostingsOf(s, d)' = PostingsOf(s, d) /\ OpenPostings(s, d)' = OpenPostings(s, d)
  BY <1>1 DEF PostingsOf, OpenPostings
<1>15. Matches'
  <2>1. ASSUME NEW d \in DOMAIN bills PROVE BillMatch(d)'
    <3>1. BillMatch(d) /\ bills'[d].status = bills[d].status
      BY <1>9, <1>10 DEF APInv, Matches
    <3> QED BY <1>14, <3>1, BillMatchKept
  <2>2. \A c \in DOMAIN checks : CheckMatch(c)'
    BY <1>1, <1>14, CheckMatchKept DEF APInv, Matches
  <2>3. \A c \in DOMAIN credits : CreditMatch(c)'
    BY <1>1, <1>14, CreditMatchKept DEF APInv, Matches
  <2> QED BY <1>1, <1>10, <2>1, <2>2, <2>3 DEF Matches
<1> QED BY <1>1, <1>2, <1>10, <1>11, <1>12, <1>13, <1>15 DEF APInv

LEMMA ApproveBillStep ==
    ASSUME APInv, NEW b \in DOMAIN bills, ApproveBill(b)
    PROVE  APInv' /\ \E doc, lines : PostEntry("bill", doc, lines)
<1> DEFINE row == [bills[b] EXCEPT !.status = "approved"]
           lines == AccrualLines(bills[b].lines)
<1>1. /\ bills[b].status \in Entered /\ PostEntry("bill", b, lines)
      /\ UNCHANGED <<liveRefs, checks, credits, actualCost>>
  BY DEF ApproveBill
<1>2. JournalInv /\ Tables /\ PaidRows /\ bills \in Seq(Bills) /\ TypeOK /\ liveRefs \subseteq Refs
  BY DEF APInv, Tables, JournalInv, TypeOK
<1>3. bills' = [bills EXCEPT ![b] = row]
  BY <1>2 DEF ApproveBill
<1>4. bills[b] \in Bills /\ SettledIs(bills[b]) /\ bills[b].paid = 0
  BY <1>1, <1>2 DEF PaidRows, SettledIs
<1>5. SettledIs(row) /\ row.paid = 0 /\ row.status = "approved"
  BY <1>4, UnpaidBill
<1>6. lines \in Seq(LineInputs)
  BY <1>2, <1>4, BillFields, AccrualLinesAre DEF Tables
<1> HIDE DEF row, lines
<1>7. /\ PaidRows' /\ bills' \in Seq(Bills) /\ Len(bills') <= MaxBills
      /\ DOMAIN bills' = DOMAIN bills /\ bills'[b] = row
      /\ \A d \in DOMAIN bills : d # b => bills'[d] = bills[d]
  BY <1>1, <1>2, <1>3, <1>4, <1>5, BillReplaced
<1>8. Tables'
  BY <1>1, <1>2, <1>7 DEF Tables, PayablesAssumption
<1>9. JournalInv'
  <2>1. "bill" \in Sources /\ "bill" # "reversal" /\ b \in Nat /\ liveRefs' \subseteq Refs
    BY <1>1, <1>2 DEF Sources, DocumentSources
  <2> QED BY <1>1, <1>2, <1>6, <2>1, PostPreserves
<1>10. /\ Kept /\ DOMAIN entries' = DOMAIN entries \cup {Len(entries) + 1}
       /\ entries'[Len(entries) + 1].source = "bill" /\ entries'[Len(entries) + 1].doc = b
  BY <1>1, <1>2, PostKeeps
<1>11. CreditsConserved' /\ Len(entries') <= MaxEntries
  BY <1>1, <1>10 DEF APInv, CreditsConserved, Kept
<1>12. Documented'
  BY <1>1, <1>7, <1>10 DEF APInv, Documented, Kept
<1>13. /\ PostingsOf("bill", b)' = PostingsOf("bill", b) \cup {Len(entries) + 1}
       /\ \A s, d : s # "bill" \/ d # b =>
             /\ PostingsOf(s, d)' = PostingsOf(s, d)
             /\ OpenPostings(s, d)' = OpenPostings(s, d)
  BY <1>1, <1>2, PostedTo
<1>14. BillMatch(b)'
  <2>1. BillMatch(b) /\ bills[b].status \notin Posted /\ bills[b].status # "voided"
    BY <1>1 DEF APInv, Matches, Entered, Posted, Payable
  <2>2. PostingsOf("bill", b) = {}
    BY <2>1 DEF BillMatch, PostingsMatch
  <2>3. PICK i : i = Len(entries) + 1
    OBVIOUS
  <2>4. PostingsOf("bill", b)' = {i}
    BY <1>13, <2>2, <2>3
  <2>5. bills'[b].status \in Posted /\ bills'[b].status # "voided"
    BY <1>5, <1>7 DEF Posted, Payable
  <2> QED BY <2>4, <2>5 DEF BillMatch, PostingsMatch
<1>15. Matches'
  <2>1. ASSUME NEW d \in DOMAIN bills, d # b PROVE BillMatch(d)'
    <3>1. BillMatch(d) /\ bills'[d] = bills[d]
      BY <1>7, <2>1 DEF APInv, Matches
    <3> QED BY <1>13, <2>1, <3>1, BillMatchKept
  <2>2. \A c \in DOMAIN checks : CheckMatch(c)'
    BY <1>1, <1>13, CheckMatchKept DEF APInv, Matches
  <2>3. \A c \in DOMAIN credits : CreditMatch(c)'
    BY <1>1, <1>13, CreditMatchKept DEF APInv, Matches
  <2> QED BY <1>1, <1>7, <1>14, <2>1, <2>2, <2>3 DEF Matches
<1> QED BY <1>1, <1>7, <1>8, <1>9, <1>11, <1>12, <1>15 DEF APInv

\* A document that is voided has at most one entry.
LEMMA FewPostings ==
    ASSUME APInv
    PROVE  /\ \A b \in DOMAIN bills : bills[b].status # "voided" =>
                 PostingsOf("bill", b) = {} \/ \E i : PostingsOf("bill", b) = {i}
           /\ \A c \in DOMAIN checks : checks[c].status # "voided" =>
                 \E i : PostingsOf("vendor_check", c) = {i}
           /\ \A c \in DOMAIN credits : credits[c].status # "voided" =>
                 \E i : PostingsOf("vendor_credit", c) = {i}
<1>1. \A c \in DOMAIN checks : checks[c].status # "voided" => checks[c].status = "printed"
  <2>1. \A c \in DOMAIN checks : checks[c] \in Checks
    BY DEF APInv, Tables
  <2> QED BY <2>1, CheckFields
<1> QED BY <1>1 DEF APInv, Matches, BillMatch, CheckMatch, CreditMatch, PostingsMatch

LEMMA VoidBillStep ==
    ASSUME APInv, NEW b \in DOMAIN bills, VoidBill(b)
    PROVE  APInv' /\ (UNCHANGED entries \/ \E i \in DOMAIN entries : ReverseEntry(i))
<1> DEFINE row == [bills[b] EXCEPT !.status = "voided"]
<1>1. /\ bills[b].status # "voided" /\ bills[b].paid = 0
      /\ IF bills[b].status = "approved" THEN ReversePosting("bill", b) ELSE UNCHANGED entries
      /\ RecalcCosts({bills[b].wo}) /\ UNCHANGED <<liveRefs, checks, credits>>
      /\ bills[b].status \notin {"paid", "partially_paid"}
  BY DEF VoidBill
<1>2. /\ JournalInv /\ Tables /\ PaidRows /\ bills \in Seq(Bills) /\ TypeOK
      /\ liveRefs \subseteq Refs /\ Len(entries) <= MaxEntries
  BY DEF APInv, Tables, JournalInv, TypeOK
<1>3. bills' = [bills EXCEPT ![b] = row]
  BY <1>2 DEF VoidBill
<1>4. bills[b] \in Bills /\ SettledIs(bills[b])
  BY <1>2 DEF PaidRows, SettledIs
<1>5. SettledIs(row) /\ row.paid = 0 /\ row.status = "voided"
  BY <1>1, <1>4, UnpaidBill
<1> HIDE DEF row
<1>6. /\ PaidRows' /\ bills' \in Seq(Bills) /\ Len(bills') <= MaxBills
      /\ DOMAIN bills' = DOMAIN bills /\ bills'[b] = row
      /\ \A d \in DOMAIN bills : d # b => bills'[d] = bills[d]
  BY <1>1, <1>2, <1>3, <1>5, BillReplaced
<1>7. Tables'
  <2>1. actualCost' \in [WorkOrders -> Nat]
    BY <1>1, <1>2, <1>6, CostsAre DEF Tables
  <2> QED BY <1>1, <1>2, <1>6, <2>1 DEF Tables, PayablesAssumption
<1>8. /\ JournalInv' /\ Kept
      /\ UNCHANGED entries \/ \E i \in DOMAIN entries : ReverseEntry(i)
      /\ \A j \in DOMAIN entries' \ DOMAIN entries : entries'[j].source = "reversal"
      /\ OpenPostings("bill", b)' = {}
      /\ \A s, d : s # "reversal" =>
            /\ PostingsOf(s, d)' = PostingsOf(s, d)
            /\ OpenPostings(s, d)' \subseteq OpenPostings(s, d)
  <2>1. CASE bills[b].status = "approved"
    <3>1. PostingsOf("bill", b) = {} \/ \E i : PostingsOf("bill", b) = {i}
      BY <1>1, FewPostings
    <3>2. ReversePosting("bill", b) /\ UNCHANGED liveRefs
      BY <1>1, <2>1
    <3> QED BY <1>2, <3>1, <3>2, ReversedPosting
  <2>2. CASE bills[b].status # "approved"
    <3>1. UNCHANGED entries /\ liveRefs' \subseteq Refs
      BY <1>1, <1>2, <2>2
    <3>2. JournalInv' /\ Kept
      BY <1>2, <3>1, JournalKept DEF Kept
    <3>3. \A s, d : /\ PostingsOf(s, d)' = PostingsOf(s, d)
                    /\ OpenPostings(s, d)' = OpenPostings(s, d)
      BY <3>1 DEF PostingsOf, OpenPostings
    <3>4. bills[b].status \notin Posted
      BY <1>1, <2>2 DEF Posted, Payable
    <3>5. PostingsOf("bill", b) = {}
      BY <1>1, <3>4 DEF APInv, Matches, BillMatch, PostingsMatch
    <3>6. OpenPostings("bill", b)' = {}
      BY <3>3, <3>5 DEF OpenPostings
    <3> QED BY <3>1, <3>2, <3>3, <3>6
  <2> QED BY <2>1, <2>2
<1>9. CreditsConserved' /\ Len(entries') <= MaxEntries
  BY <1>1, <1>8 DEF APInv, CreditsConserved, Kept
<1>10. Documented'
  BY <1>1, <1>6, <1>8 DEF APInv, Documented, Kept
<1>11. Matches'
  <2>1. ASSUME NEW d \in DOMAIN bills, d # b PROVE BillMatch(d)'
    <3>1. BillMatch(d) /\ bills'[d] = bills[d]
      BY <1>6, <2>1 DEF APInv, Matches
    <3> QED BY <1>8, <2>1, <3>1, BillMatchKept
  <2>2. BillMatch(b)'
    <3>1. bills'[b].status = "voided" /\ bills'[b].status \notin Posted
      BY <1>5, <1>6 DEF Posted, Payable
    <3> QED BY <1>8, <3>1 DEF BillMatch, PostingsMatch
  <2>3. \A c \in DOMAIN checks : CheckMatch(c)'
    BY <1>1, <1>8, CheckMatchKept DEF APInv, Matches
  <2>4. \A c \in DOMAIN credits : CreditMatch(c)'
    BY <1>1, <1>8, CreditMatchKept DEF APInv, Matches
  <2> QED BY <1>1, <1>6, <2>1, <2>2, <2>3, <2>4 DEF Matches
<1> QED BY <1>6, <1>7, <1>8, <1>9, <1>10, <1>11 DEF APInv

(***************************************************************************)
(* Requests about checks.                                                  *)
(***************************************************************************)
\* What a payment, or the void of one, does to a bill: nothing, or the bill is
\* posted, stays so and keeps what it was posted from.
Settling(b) ==
    \/ bills'[b] = bills[b]
    \/ /\ {bills[b].status, bills'[b].status} \subseteq Posted
       /\ bills'[b].vendor = bills[b].vendor /\ bills'[b].wo = bills[b].wo
       /\ bills'[b].lines = bills[b].lines

LEMMA IssueCheckStep ==
    ASSUME APInv, NEW vendor \in Vendors, NEW bank \in BankAccounts,
           NEW allocs \in [BillIds -> 0 .. MaxAmount], IssueCheck(vendor, bank, allocs)
    PROVE  /\ APInv' /\ \E doc, lines : PostEntry("vendor_check", doc, lines)
           /\ DOMAIN bills' = DOMAIN bills /\ \A b \in DOMAIN bills : Settling(b)
<1> DEFINE row == [vendor |-> vendor, bank |-> bank, allocs |-> allocs, status |-> "printed"]
           lines == SettlementLines(bank, Total(allocs))
<1>1. PICK n : n = Len(checks)
  OBVIOUS
<1>2. /\ Len(checks) < MaxChecks
      /\ \A b \in BillIds : allocs[b] > 0 =>
            /\ b \in DOMAIN bills /\ bills[b].status \in Payable
            /\ allocs[b] <= Owed(b)
      /\ checks' = Append(checks, row)
      /\ bills' = [b \in DOMAIN bills |->
                     IF allocs[b] > 0 THEN Pay(bills[b], allocs[b]) ELSE bills[b]]
      /\ PostEntry("vendor_check", n + 1, lines)
      /\ UNCHANGED <<liveRefs, credits, actualCost>>
  BY <1>1 DEF IssueCheck
<1>3. /\ JournalInv /\ Tables /\ PaidRows /\ bills \in Seq(Bills) /\ TypeOK
      /\ liveRefs \subseteq Refs /\ checks \in Seq(Checks) /\ credits \in Seq(Credits_)
      /\ n \in Nat /\ DOMAIN checks = 1 .. n /\ Len(checks) = n
  BY <1>1 DEF APInv, Tables, JournalInv, TypeOK
<1>4. MaxAmount \in Nat /\ MaxBills \in Nat /\ MaxChecks \in Nat /\ bank \in Accounts
  BY <1>3 DEF Tables, PayablesAssumption
<1>5. /\ \A b \in BillIds : allocs[b] \in Nat
      /\ allocs \in [BillIds -> Nat] /\ allocs \in Seq(Nat)
  <2>1. \A b \in BillIds : allocs[b] \in Nat
    BY <1>4
  <2>2. allocs \in [BillIds -> Nat]
    BY <2>1
  <2> QED BY <1>4, <2>1, <2>2 DEF BillIds
<1>6. lines \in Seq(LineInputs)
  <2>1. Total(allocs) \in Nat
    BY <1>5, TotalOfNaturals
  <2> QED BY <1>3, <1>4, <2>1, SettlementLinesAre DEF Tables
<1>7. row \in Checks /\ row.status = "printed" /\ row.allocs = allocs
  BY <1>5 DEF Checks
<1> HIDE DEF row, lines
<1>8. /\ checks' \in Seq(Checks) /\ DOMAIN checks' = DOMAIN checks \cup {n + 1}
      /\ Len(checks') = n + 1 /\ checks'[n + 1] = row /\ n + 1 \notin DOMAIN checks
      /\ \A c \in DOMAIN checks : checks'[c] = checks[c]
  BY <1>2, <1>3, <1>7
<1>9. \A b \in BillIds : PaidBy(b)' = PaidBy(b) + allocs[b] /\ PaidBy(b) \in Nat
  <2>1. \A b \in BillIds : PaidBy(b)' = PaidBy(b) + row.allocs[b]
    BY <1>2, <1>3, <1>7, IssuedPays
  <2>2. \A b \in BillIds : PaidBy(b) \in Nat
    BY <1>3, PaidByIs
  <2> QED BY <1>7, <2>1, <2>2
<1>10. DOMAIN bills \subseteq BillIds /\ DOMAIN bills = 1 .. Len(bills) /\ Len(bills) \in Nat
       /\ Len(bills) <= MaxBills
  BY <1>3, BillsAreNumbered DEF Tables
<1>11. ASSUME NEW b \in DOMAIN bills
       PROVE  /\ SettledIs(bills'[b]) /\ bills'[b].paid = PaidBy(b)'
              /\ bills'[b].status \in Posted <=> bills[b].status \in Posted
              /\ bills'[b].status = "voided" <=> bills[b].status = "voided"
              /\ Settling(b)
  <2>1. SettledIs(bills[b]) /\ bills[b].paid = PaidBy(b) /\ b \in BillIds
    BY <1>3, <1>10 DEF PaidRows
  <2>2. CASE allocs[b] > 0
    <3>1. bills'[b] = Pay(bills[b], allocs[b])
      BY <1>2, <2>2
    <3>2. bills[b].status \in Payable /\ allocs[b] <= LinesTotal(bills[b].lines) - bills[b].paid
          /\ allocs[b] \in Nat
      BY <1>2, <1>5, <2>1, <2>2 DEF Owed, BillTotal
    <3>3. /\ SettledIs(bills'[b]) /\ bills'[b].paid = bills[b].paid + allocs[b]
          /\ bills'[b].status \in {"paid", "partially_paid"}
          /\ bills'[b].vendor = bills[b].vendor /\ bills'[b].wo = bills[b].wo
          /\ bills'[b].lines = bills[b].lines
      BY <2>1, <2>2, <3>1, <3>2, PayIs
    <3>4. bills'[b].paid = PaidBy(b)'
      BY <1>9, <2>1, <3>3
    <3>5. Settling(b)
      BY <3>2, <3>3 DEF Settling, Posted, Payable
    <3> QED BY <3>2, <3>3, <3>4, <3>5 DEF Posted, Payable
  <2>3. CASE ~(allocs[b] > 0)
    <3>1. bills'[b] = bills[b] /\ allocs[b] = 0
      BY <1>2, <1>5, <2>1, <2>3
    <3>2. PaidBy(b)' = PaidBy(b)
      BY <1>9, <2>1, <3>1
    <3> QED BY <2>1, <3>1, <3>2 DEF Settling
  <2> QED BY <2>2, <2>3
<1>12. DOMAIN bills' = DOMAIN bills /\ bills' \in Seq(Bills) /\ Len(bills') = Len(bills)
  <2>1. DOMAIN bills' = 1 .. Len(bills) /\ bills' = [b \in 1 .. Len(bills) |-> bills'[b]]
    BY <1>2, <1>10
  <2>2. \A b \in 1 .. Len(bills) : bills'[b] \in Bills
    BY <1>10, <1>11 DEF SettledIs
  <2> QED BY <1>10, <2>1, <2>2
<1>13. PaidRows'
  <2>1. ASSUME NEW b \in BillIds \ DOMAIN bills PROVE PaidBy(b)' = 0
    <3>1. ~(allocs[b] > 0)
      BY <1>2
    <3>2. PaidBy(b) = 0 /\ allocs[b] = 0
      BY <1>3, <1>5, <3>1 DEF PaidRows
    <3> QED BY <1>9, <3>2
  <2> QED BY <1>11, <1>12, <2>1 DEF PaidRows
<1>14. Tables'
  <2>1. Len(checks') <= MaxChecks
    BY <1>2, <1>3, <1>4, <1>8
  <2> QED BY <1>2, <1>3, <1>8, <1>10, <1>12, <2>1 DEF Tables, PayablesAssumption
<1>15. JournalInv'
  <2>1. /\ "vendor_check" \in Sources /\ "vendor_check" # "reversal" /\ n + 1 \in Nat
        /\ liveRefs' \subseteq Refs
    BY <1>2, <1>3 DEF Sources, DocumentSources
  <2> QED BY <1>2, <1>3, <1>6, <2>1, PostPreserves
<1>16. /\ Kept /\ DOMAIN entries' = DOMAIN entries \cup {Len(entries) + 1}
       /\ entries'[Len(entries) + 1].source = "vendor_check"
       /\ entries'[Len(entries) + 1].doc = n + 1
  BY <1>2, <1>3, PostKeeps
<1>17. CreditsConserved' /\ Len(entries') <= MaxEntries
  BY <1>2, <1>16 DEF APInv, CreditsConserved, Kept
<1>18. Documented'
  BY <1>2, <1>8, <1>12, <1>16 DEF APInv, Documented, Kept
<1>19. /\ PostingsOf("vendor_check", n + 1)' =
             PostingsOf("vendor_check", n + 1) \cup {Len(entries) + 1}
       /\ \A s, d : s # "vendor_check" \/ d # n + 1 =>
             /\ PostingsOf(s, d)' = PostingsOf(s, d)
             /\ OpenPostings(s, d)' = OpenPostings(s, d)
  BY <1>2, <1>3, PostedTo
<1>20. CheckMatch(n + 1)'
  <2>1. PostingsOf("vendor_check", n + 1) = {}
    BY <1>8, NoneYet DEF APInv
  <2>2. PICK i : i = Len(entries) + 1
    OBVIOUS
  <2>3. PostingsOf("vendor_check", n + 1)' = {i}
    BY <1>19, <2>1, <2>2
  <2>4. checks'[n + 1].status = "printed" /\ checks'[n + 1].status # "voided"
    BY <1>7, <1>8
  <2> QED BY <2>3, <2>4 DEF CheckMatch, PostingsMatch
<1>21. Matches'
  <2>1. \A b \in DOMAIN bills : BillMatch(b)'
    BY <1>11, <1>19, BillMatchKept DEF APInv, Matches
  <2>2. ASSUME NEW c \in DOMAIN checks PROVE CheckMatch(c)'
    <3>1. CheckMatch(c) /\ checks'[c] = checks[c] /\ c # n + 1
      BY <1>8 DEF APInv, Matches
    <3> QED BY <1>19, <3>1, CheckMatchKept
  <2>3. \A c \in DOMAIN credits : CreditMatch(c)'
    BY <1>2, <1>19, CreditMatchKept DEF APInv, Matches
  <2> QED BY <1>2, <1>8, <1>12, <1>20, <2>1, <2>2, <2>3 DEF Matches
<1> QED BY <1>2, <1>11, <1>12, <1>13, <1>14, <1>15, <1>17, <1>18, <1>21 DEF APInv

LEMMA VoidCheckStep ==
    ASSUME APInv, NEW c \in DOMAIN checks, VoidCheck(c)
    PROVE  /\ APInv' /\ (UNCHANGED entries \/ \E i \in DOMAIN entries : ReverseEntry(i))
           /\ DOMAIN bills' = DOMAIN bills /\ \A b \in DOMAIN bills : Settling(b)
<1> DEFINE row == [checks[c] EXCEPT !.status = "voided"]
<1>1. /\ checks[c].status # "voided" /\ ReversePosting("vendor_check", c)
      /\ bills' = [b \in DOMAIN bills |->
                     IF checks[c].allocs[b] > 0
                     THEN Unpay(bills[b], checks[c].allocs[b]) ELSE bills[b]]
      /\ UNCHANGED <<liveRefs, credits, actualCost>>
  BY DEF VoidCheck
<1>2. /\ JournalInv /\ Tables /\ PaidRows /\ bills \in Seq(Bills) /\ TypeOK
      /\ liveRefs \subseteq Refs /\ checks \in Seq(Checks) /\ credits \in Seq(Credits_)
      /\ Len(entries) <= MaxEntries
  BY DEF APInv, Tables, JournalInv, TypeOK
<1>3. checks' = [checks EXCEPT ![c] = row]
  BY <1>2 DEF VoidCheck
<1>4. checks[c] \in Checks
  BY <1>2
<1>5. checks[c].status = "printed" /\ checks[c].allocs \in [BillIds -> Nat]
  BY <1>1, <1>4, CheckFields
<1>6. row \in Checks /\ row.status = "voided"
  BY <1>4 DEF Checks
<1> HIDE DEF row
<1>7. /\ checks' \in Seq(Checks) /\ DOMAIN checks' = DOMAIN checks
      /\ Len(checks') = Len(checks) /\ checks'[c] = row /\ checks'[c].status = "voided"
      /\ \A d \in DOMAIN checks : d # c => checks'[d] = checks[d]
  BY <1>2, <1>3, <1>6
<1>8. PICK allocs \in [BillIds -> Nat] : allocs = checks[c].allocs
  BY <1>5
<1>9. ASSUME NEW b \in BillIds
      PROVE  /\ allocs[b] \in Nat /\ allocs[b] <= PaidBy(b) /\ PaidBy(b) \in Nat
             /\ PaidBy(b)' = PaidBy(b) - allocs[b]
  <2>1. /\ checks[c].allocs[b] <= PaidBy(b)
        /\ PaidBy(b)' = PaidBy(b) - checks[c].allocs[b]
    BY <1>1, <1>2, <1>5, <1>7, VoidedPays
  <2>2. PaidBy(b) \in Nat
    BY <1>2, PaidByIs
  <2> QED BY <1>8, <2>1, <2>2
<1>10. DOMAIN bills \subseteq BillIds /\ DOMAIN bills = 1 .. Len(bills) /\ Len(bills) \in Nat
       /\ Len(bills) <= MaxBills
  BY <1>2, BillsAreNumbered DEF Tables
<1>11. ASSUME NEW b \in DOMAIN bills
       PROVE  /\ SettledIs(bills'[b]) /\ bills'[b].paid = PaidBy(b)'
              /\ bills'[b].status \in Posted <=> bills[b].status \in Posted
              /\ bills'[b].status = "voided" <=> bills[b].status = "voided"
              /\ Settling(b)
  <2>1. SettledIs(bills[b]) /\ bills[b].paid = PaidBy(b) /\ b \in BillIds
    BY <1>2, <1>10 DEF PaidRows
  <2>2. CASE allocs[b] > 0
    <3>1. bills'[b] = Unpay(bills[b], allocs[b])
      BY <1>1, <1>8, <2>2
    <3>2. allocs[b] \in Nat /\ allocs[b] <= bills[b].paid /\ bills[b].paid # 0
      BY <1>9, <2>1, <2>2
    <3>3. /\ SettledIs(bills'[b]) /\ bills'[b].paid = bills[b].paid - allocs[b]
          /\ bills'[b].status \in {"approved", "partially_paid"}
          /\ bills'[b].vendor = bills[b].vendor /\ bills'[b].wo = bills[b].wo
          /\ bills'[b].lines = bills[b].lines
      BY <2>1, <2>2, <3>1, <3>2, UnpayIs
    <3>4. bills'[b].paid = PaidBy(b)'
      BY <1>9, <2>1, <3>3
    <3>5. bills[b].status \in Posted /\ bills[b].status # "voided"
      <4>1. bills[b].status \notin Entered \cup {"approved", "voided"}
        BY <2>1, <3>2 DEF SettledIs
      <4>2. bills[b].status \in Entered \cup Posted \cup {"voided"}
        BY <1>2, BillFields
      <4> QED BY <4>1, <4>2
    <3>6. Settling(b)
      BY <3>3, <3>5 DEF Settling, Posted, Payable
    <3> QED BY <3>3, <3>4, <3>5, <3>6 DEF Posted, Payable
  <2>3. CASE ~(allocs[b] > 0)
    <3>1. bills'[b] = bills[b]
      BY <1>1, <1>8, <2>3
    <3>2. allocs[b] = 0
      BY <1>9, <2>1, <2>3
    <3>3. PaidBy(b)' = PaidBy(b)
      BY <1>9, <2>1, <3>2
    <3> QED BY <2>1, <3>1, <3>3 DEF Settling
  <2> QED BY <2>2, <2>3
<1>12. DOMAIN bills' = DOMAIN bills /\ bills' \in Seq(Bills) /\ Len(bills') = Len(bills)
  <2>1. DOMAIN bills' = 1 .. Len(bills) /\ bills' = [b \in 1 .. Len(bills) |-> bills'[b]]
    BY <1>1, <1>10
  <2>2. \A b \in 1 .. Len(bills) : bills'[b] \in Bills
    BY <1>10, <1>11 DEF SettledIs
  <2> QED BY <1>10, <2>1, <2>2
<1>13. PaidRows'
  <2>1. ASSUME NEW b \in BillIds \ DOMAIN bills PROVE PaidBy(b)' = 0
    <3>1. PaidBy(b) = 0
      BY <1>2 DEF PaidRows
    <3> QED BY <1>9, <3>1
  <2> QED BY <1>11, <1>12, <2>1 DEF PaidRows
<1>14. Tables'
  BY <1>1, <1>2, <1>7, <1>10, <1>12 DEF Tables, PayablesAssumption
<1>15. /\ JournalInv' /\ Kept
       /\ UNCHANGED entries \/ \E i \in DOMAIN entries : ReverseEntry(i)
       /\ \A j \in DOMAIN entries' \ DOMAIN entries : entries'[j].source = "reversal"
       /\ OpenPostings("vendor_check", c)' = {}
       /\ \A s, d : s # "reversal" =>
             /\ PostingsOf(s, d)' = PostingsOf(s, d)
             /\ OpenPostings(s, d)' \subseteq OpenPostings(s, d)
  <2>1. \E i : PostingsOf("vendor_check", c) = {i}
    BY <1>1, FewPostings
  <2>2. UNCHANGED liveRefs
    BY <1>1
  <2> QED BY <1>1, <1>2, <2>1, <2>2, ReversedPosting
<1>16. CreditsConserved' /\ Len(entries') <= MaxEntries
  BY <1>1, <1>15 DEF APInv, CreditsConserved, Kept
<1>17. Documented'
  BY <1>1, <1>7, <1>12, <1>15 DEF APInv, Documented, Kept
<1>18. Matches'
  <2>1. \A b \in DOMAIN bills : BillMatch(b)'
    BY <1>11, <1>15, BillMatchKept DEF APInv, Matches
  <2>2. ASSUME NEW d \in DOMAIN checks, d # c PROVE CheckMatch(d)'
    <3>1. CheckMatch(d) /\ checks'[d] = checks[d]
      BY <1>7, <2>2 DEF APInv, Matches
    <3> QED BY <1>15, <3>1, CheckMatchKept
  <2>3. CheckMatch(c)'
    <3>1. checks'[c].status = "voided" /\ checks'[c].status # "printed"
      BY <1>7
    <3> QED BY <1>15, <3>1 DEF CheckMatch, PostingsMatch
  <2>4. \A d \in DOMAIN credits : CreditMatch(d)'
    BY <1>1, <1>15, CreditMatchKept DEF APInv, Matches
  <2> QED BY <1>1, <1>7, <1>12, <2>1, <2>2, <2>3, <2>4 DEF Matches
<1> QED BY <1>11, <1>12, <1>13, <1>14, <1>15, <1>16, <1>17, <1>18 DEF APInv

(***************************************************************************)
(* Requests about credits.                                                 *)
(***************************************************************************)
LEMMA CreateCreditStep ==
    ASSUME APInv, NEW input \in CreditInputs, CreateCredit(input)
    PROVE  APInv' /\ \E doc, lines : PostEntry("vendor_credit", doc, lines)
<1> DEFINE row == [vendor |-> input.vendor, total |-> input.total,
                   remaining |-> input.total, applied |-> Nothing, status |-> "open"]
           lines == SettlementLines(input.account, input.total)
<1>1. PICK n : n = Len(credits)
  OBVIOUS
<1>2. /\ Len(credits) < MaxCredits /\ credits' = Append(credits, row)
      /\ PostEntry("vendor_credit", n + 1, lines)
      /\ UNCHANGED <<liveRefs, bills, checks, actualCost>>
  BY <1>1 DEF CreateCredit
<1>3. /\ JournalInv /\ Tables /\ PaidRows /\ bills \in Seq(Bills) /\ TypeOK
      /\ liveRefs \subseteq Refs /\ checks \in Seq(Checks) /\ credits \in Seq(Credits_)
      /\ n \in Nat /\ DOMAIN credits = 1 .. n /\ Len(credits) = n
  BY <1>1 DEF APInv, Tables, JournalInv, TypeOK
<1>4. MaxCredits \in Nat /\ MaxBills \in Nat
  BY <1>3 DEF Tables, PayablesAssumption
<1>5. /\ input.vendor \in Vendors /\ input.account \in Accounts /\ input.total \in Nat
      /\ input.total # 0
  <2>1. input \in [vendor : Vendors, account : Accounts, total : Nat \ {0}]
    BY <1>3 DEF Tables, PayablesAssumption
  <2> QED BY <2>1
<1>6. lines \in Seq(LineInputs)
  BY <1>3, <1>5, SettlementLinesAre DEF Tables
<1>7. Nothing \in [BillIds -> Nat] /\ Total(Nothing) = 0 /\ \A b \in BillIds : Nothing[b] = 0
  <2>1. Nothing \in [BillIds -> Nat] /\ \A b \in BillIds : Nothing[b] = 0
    BY DEF Nothing
  <2>2. Nothing \in Seq(Int) /\ Len(Nothing) = MaxBills
    BY <1>4 DEF Nothing, BillIds
  <2>3. \A b \in 1 .. Len(Nothing) : Nothing[b] = 0
    BY <2>1, <2>2 DEF BillIds
  <2> QED BY <2>1, <2>2, <2>3, ZeroTotal
<1>8. /\ row \in Credits_ /\ row.status = "open" /\ row.total = input.total
      /\ row.remaining = input.total /\ row.applied = Nothing
  BY <1>5, <1>7 DEF Credits_
<1> HIDE DEF row, lines
<1>9. /\ credits' \in Seq(Credits_) /\ DOMAIN credits' = DOMAIN credits \cup {n + 1}
      /\ Len(credits') = n + 1 /\ credits'[n + 1] = row /\ n + 1 \notin DOMAIN credits
      /\ \A c \in DOMAIN credits : credits'[c] = credits[c]
  BY <1>2, <1>3, <1>8
<1>10. \A b \in BillIds : PaidBy(b)' = PaidBy(b)
  BY <1>2, <1>3, <1>7, <1>8, CreatedPays
<1>11. DOMAIN bills \subseteq BillIds
  BY <1>3, BillsAreNumbered
<1>12. PaidRows'
  BY <1>2, <1>3, <1>10, <1>11 DEF PaidRows
<1>13. Tables'
  <2>1. Len(credits') <= MaxCredits
    BY <1>2, <1>3, <1>4, <1>9
  <2> QED BY <1>2, <1>3, <1>9, <2>1 DEF Tables, PayablesAssumption
<1>14. CreditsConserved'
  <2>1. /\ row.remaining + Total(row.applied) = row.total
        /\ row.status \in {"open", "voided"} <=> row.remaining = row.total
        /\ row.status = "fully_applied" <=> row.remaining = 0
    BY <1>5, <1>7, <1>8
  <2> QED BY <1>9, <2>1 DEF APInv, CreditsConserved
<1>15. JournalInv'
  <2>1. /\ "vendor_credit" \in Sources /\ "vendor_credit" # "reversal" /\ n + 1 \in Nat
        /\ liveRefs' \subseteq Refs
    BY <1>2, <1>3 DEF Sources, DocumentSources
  <2> QED BY <1>2, <1>3, <1>6, <2>1, PostPreserves
<1>16. /\ Kept /\ DOMAIN entries' = DOMAIN entries \cup {Len(entries) + 1}
       /\ entries'[Len(entries) + 1].source = "vendor_credit"
       /\ entries'[Len(entries) + 1].doc = n + 1
  BY <1>2, <1>3, PostKeeps
<1>17. Len(entries') <= MaxEntries
  BY <1>16 DEF Kept
<1>18. Documented'
  BY <1>2, <1>9, <1>16 DEF APInv, Documented, Kept
<1>19. /\ PostingsOf("vendor_credit", n + 1)' =
             PostingsOf("vendor_credit", n + 1) \cup {Len(entries) + 1}
       /\ \A s, d : s # "vendor_credit" \/ d # n + 1 =>
             /\ PostingsOf(s, d)' = PostingsOf(s, d)
             /\ OpenPostings(s, d)' = OpenPostings(s, d)
  BY <1>2, <1>3, PostedTo
<1>20. CreditMatch(n + 1)'
  <2>1. PostingsOf("vendor_credit", n + 1) = {}
    BY <1>9, NoneYet DEF APInv
  <2>2. PICK i : i = Len(entries) + 1
    OBVIOUS
  <2>3. PostingsOf("vendor_credit", n + 1)' = {i}
    BY <1>19, <2>1, <2>2
  <2>4. credits'[n + 1].status # "voided"
    BY <1>8, <1>9
  <2> QED BY <2>3, <2>4 DEF CreditMatch, PostingsMatch
<1>21. Matches'
  <2>1. \A b \in DOMAIN bills : BillMatch(b)'
    BY <1>2, <1>19, BillMatchKept DEF APInv, Matches
  <2>2. \A c \in DOMAIN checks : CheckMatch(c)'
    BY <1>2, <1>19, CheckMatchKept DEF APInv, Matches
  <2>3. ASSUME NEW c \in DOMAIN credits PROVE CreditMatch(c)'
    <3>1. CreditMatch(c) /\ credits'[c] = credits[c] /\ c # n + 1
      BY <1>9 DEF APInv, Matches
    <3> QED BY <1>19, <3>1, CreditMatchKept
  <2> QED BY <1>2, <1>9, <1>20, <2>1, <2>2, <2>3 DEF Matches
<1>22. \E doc, ls : PostEntry("vendor_credit", doc, ls)
  BY <1>2
<1> QED BY <1>12, <1>13, <1>14, <1>15, <1>17, <1>18, <1>21, <1>22 DEF APInv

\* What remains of a credit is at most its total.
LEMMA CreditIs ==
    ASSUME APInv, NEW c \in DOMAIN credits
    PROVE  /\ credits[c] \in Credits_ /\ credits[c].applied \in Seq(Nat)
           /\ Total(credits[c].applied) \in Nat
           /\ credits[c].remaining <= credits[c].total
           /\ credits[c].remaining \in Nat /\ credits[c].total \in Nat
           /\ credits[c].remaining + Total(credits[c].applied) = credits[c].total
<1>1. credits[c] \in Credits_ /\ MaxBills \in Nat
  BY DEF APInv, Tables, PayablesAssumption
<1>2. /\ credits[c].remaining \in Nat /\ credits[c].total \in Nat
      /\ credits[c].applied \in [BillIds -> Nat]
  BY <1>1, CreditFields
<1>3. credits[c].applied \in Seq(Nat)
  BY <1>1, <1>2 DEF BillIds
<1>4. PICK x \in Nat : x = Total(credits[c].applied)
  BY <1>3, TotalOfNaturals
<1>5. credits[c].remaining + Total(credits[c].applied) = credits[c].total
  BY DEF APInv, CreditsConserved
<1>6. credits[c].remaining <= credits[c].total
  BY <1>2, <1>4, <1>5
<1> QED BY <1>1, <1>2, <1>3, <1>4, <1>5, <1>6

LEMMA ApplyCreditStep ==
    ASSUME APInv, NEW c \in DOMAIN credits, NEW b \in DOMAIN bills,
           NEW amt \in 1 .. MaxAmount, ApplyCredit(c, b, amt)
    PROVE  /\ APInv' /\ UNCHANGED entries
           /\ DOMAIN bills' = DOMAIN bills /\ \A d \in DOMAIN bills : Settling(d)
<1> DEFINE st == IF credits[c].remaining = amt THEN "fully_applied" ELSE "partially_applied"
           applied == [credits[c].applied EXCEPT ![b] = @ + amt]
           row == [credits[c] EXCEPT !.remaining = credits[c].remaining - amt,
                                     !.applied = applied, !.status = st]
           bill == Pay(bills[b], amt)
<1>1. /\ credits[c].status \in {"open", "partially_applied"}
      /\ amt <= credits[c].remaining /\ bills[b].status \in Payable /\ amt <= Owed(b)
      /\ UNCHANGED <<entries, liveRefs, checks, actualCost>>
  BY DEF ApplyCredit
<1>2. /\ JournalInv /\ Tables /\ PaidRows /\ bills \in Seq(Bills) /\ TypeOK
      /\ liveRefs \subseteq Refs /\ checks \in Seq(Checks) /\ credits \in Seq(Credits_)
      /\ Len(entries) <= MaxEntries /\ MaxAmount \in Nat /\ MaxBills \in Nat
  BY DEF APInv, Tables, JournalInv, TypeOK, PayablesAssumption
<1>3. amt \in Nat /\ amt > 0
  BY <1>2
<1>4. /\ DOMAIN bills \subseteq BillIds /\ DOMAIN bills = 1 .. Len(bills)
      /\ Len(bills) \in Nat /\ Len(bills) <= MaxBills /\ b \in BillIds
  BY <1>2, BillsAreNumbered DEF Tables
<1>5. /\ credits[c] \in Credits_ /\ credits[c].applied \in Seq(Nat)
      /\ credits[c].applied \in [BillIds -> Nat]
      /\ Total(credits[c].applied) \in Nat
      /\ credits[c].remaining <= credits[c].total
      /\ credits[c].remaining \in Nat /\ credits[c].total \in Nat
      /\ credits[c].remaining + Total(credits[c].applied) = credits[c].total
  BY CreditIs, CreditFields
<1>6. credits' = [credits EXCEPT ![c] = row]
  BY <1>2 DEF ApplyCredit
<1>7. bills' = [bills EXCEPT ![b] = bill]
  BY <1>2 DEF ApplyCredit
<1>8. /\ applied \in [BillIds -> Nat] /\ applied[b] = credits[c].applied[b] + amt
      /\ \A d \in BillIds : d # b => applied[d] = credits[c].applied[d]
  BY <1>3, <1>4, <1>5
<1>9. /\ st \in {"fully_applied", "partially_applied"}
      /\ st = "fully_applied" <=> credits[c].remaining = amt
  OBVIOUS
<1> HIDE DEF applied, st
<1>10. row = [vendor |-> credits[c].vendor, total |-> credits[c].total,
              remaining |-> credits[c].remaining - amt, applied |-> applied, status |-> st]
  <2>1. PICK old, r, a, s : old = credits[c] /\ r = credits[c].remaining - amt
                             /\ a = applied /\ s = st
    OBVIOUS
  <2>2. old \in Credits_
    BY <1>5, <2>1
  <2>3. row = [old EXCEPT !.remaining = r, !.applied = a, !.status = s]
    BY <2>1
  <2> HIDE DEF row
  <2>4. row = [vendor |-> old.vendor, total |-> old.total, remaining |-> r,
               applied |-> a, status |-> s]
    BY <2>2, <2>3 DEF Credits_
  <2> QED BY <2>1, <2>4
<1> HIDE DEF row
<1>11. /\ row.total = credits[c].total /\ row.remaining = credits[c].remaining - amt
       /\ row.applied = applied /\ row.status = st
  BY <1>10
<1>12. row \in Credits_
  <2>1. credits[c].remaining - amt \in Nat
    BY <1>1, <1>3, <1>5
  <2> QED BY <1>5, <1>8, <1>9, <1>10, <2>1 DEF Credits_
<1>13. /\ credits' \in Seq(Credits_) /\ DOMAIN credits' = DOMAIN credits
       /\ Len(credits') = Len(credits) /\ credits'[c] = row
       /\ \A d \in DOMAIN credits : d # c => credits'[d] = credits[d]
  BY <1>2, <1>6, <1>12
<1>14. /\ PaidBy(b)' = PaidBy(b) + amt
       /\ \A d \in BillIds : d # b => PaidBy(d)' = PaidBy(d) + 0
  <2>1. credits'[c].applied = applied /\ UNCHANGED checks
    BY <1>1, <1>11, <1>13
  <2>2. PaidBy(b)' = PaidBy(b) + amt
    <3>1. credits'[c].applied[b] = credits[c].applied[b] + amt /\ amt \in Int
      BY <1>3, <1>8, <2>1
    <3> QED BY <1>2, <1>4, <1>13, <2>1, <3>1, AppliedPays
  <2>3. ASSUME NEW d \in BillIds, d # b PROVE PaidBy(d)' = PaidBy(d) + 0
    <3>1. credits[c].applied[d] \in Nat /\ credits'[c].applied[d] = credits[c].applied[d]
      BY <1>5, <1>8, <2>1, <2>3
    <3>2. credits'[c].applied[d] = credits[c].applied[d] + 0 /\ 0 \in Int
      BY <3>1
    <3> QED BY <1>2, <1>13, <2>1, <3>2, AppliedPays
  <2> QED BY <2>2, <2>3
<1>15. \A d \in BillIds : PaidBy(d) \in Nat
  BY <1>2, PaidByIs
<1>16. SettledIs(bills[b]) /\ bills[b].paid = PaidBy(b)
  BY <1>2 DEF PaidRows
<1>17. /\ SettledIs(bill) /\ bill.paid = bills[b].paid + amt
       /\ bill.status \in {"paid", "partially_paid"}
       /\ bill.vendor = bills[b].vendor /\ bill.wo = bills[b].wo
       /\ bill.lines = bills[b].lines
  BY <1>1, <1>3, <1>16, PayIs DEF Owed, BillTotal
<1> HIDE DEF bill
<1>18. /\ bills' \in Seq(Bills) /\ DOMAIN bills' = DOMAIN bills /\ Len(bills') = Len(bills)
       /\ bills'[b] = bill /\ \A d \in DOMAIN bills : d # b => bills'[d] = bills[d]
  <2>1. bill \in Bills
    BY <1>17 DEF SettledIs
  <2> QED BY <1>2, <1>7, <2>1
<1>19. PaidRows'
  <2>1. ASSUME NEW d \in DOMAIN bills PROVE SettledIs(bills'[d]) /\ bills'[d].paid = PaidBy(d)'
    <3>1. CASE d = b
      BY <1>14, <1>16, <1>17, <1>18, <3>1
    <3>2. CASE d # b
      BY <1>2, <1>4, <1>14, <1>15, <1>18, <3>2 DEF PaidRows
    <3> QED BY <3>1, <3>2
  <2>2. ASSUME NEW d \in BillIds \ DOMAIN bills PROVE PaidBy(d)' = 0
    <3>1. d # b /\ PaidBy(d) = 0
      BY <1>2 DEF PaidRows
    <3> QED BY <1>14, <3>1
  <2> QED BY <1>18, <2>1, <2>2 DEF PaidRows
<1>20. Tables'
  BY <1>1, <1>2, <1>4, <1>13, <1>18 DEF Tables, PayablesAssumption
<1>21. CreditsConserved'
  <2>1. Total(applied) = Total(credits[c].applied) + amt
    <3>1. PICK f, g : f = credits[c].applied /\ g = applied
      OBVIOUS
    <3>2. f \in Seq(Int) /\ g \in Seq(Int) /\ Len(f) = MaxBills /\ Len(g) = MaxBills
      <4>1. f \in [1 .. MaxBills -> Nat] /\ g \in [1 .. MaxBills -> Nat] /\ MaxBills \in Nat
        BY <1>2, <1>5, <1>8, <3>1 DEF BillIds
      <4> QED BY <4>1
    <3>3. b \in 1 .. Len(f) /\ amt \in Int /\ g[b] = f[b] + amt
          /\ \A d \in 1 .. Len(f) : d # b => g[d] = f[d]
      BY <1>3, <1>4, <1>8, <3>1, <3>2 DEF BillIds
    <3>4. Len(g) = Len(f)
      BY <3>2
    <3> QED BY <3>1, <3>2, <3>3, <3>4, TotalUpdate
  <2>2. PICK x \in Nat, y \in Nat, z \in Nat :
          /\ x = credits[c].remaining /\ y = Total(credits[c].applied) /\ z = credits[c].total
          /\ x + y = z
    BY <1>5
  <2>3. amt <= x
    BY <1>1, <2>2
  <2>4. (x - amt) + (y + amt) = z /\ x - amt # z
    BY <1>3, <2>2, <2>3
  <2>5. x - amt = 0 <=> x = amt
    BY <1>3, <2>2
  <2>6. row.remaining + Total(row.applied) = row.total
    BY <1>11, <2>1, <2>2, <2>4
  <2>7. row.status \notin {"open", "voided"} /\ row.remaining # row.total
    BY <1>9, <1>11, <2>2, <2>4
  <2>8. row.status = "fully_applied" <=> row.remaining = 0
    BY <1>9, <1>11, <2>2, <2>5
  <2> QED BY <1>13, <2>6, <2>7, <2>8 DEF APInv, CreditsConserved
<1>22. JournalInv'
  <2>1. liveRefs' \subseteq Refs
    BY <1>1, <1>2
  <2> QED BY <1>1, <1>2, <2>1, JournalKept
<1>23. Documented'
  BY <1>1, <1>13, <1>18 DEF APInv, Documented
<1>24. \A s, d : PostingsOf(s, d)' = PostingsOf(s, d) /\ OpenPostings(s, d)' = OpenPostings(s, d)
  BY <1>1 DEF PostingsOf, OpenPostings
<1>25. Matches'
  <2>1. ASSUME NEW d \in DOMAIN bills PROVE BillMatch(d)'
    <3>1. /\ bills'[d].status \in Posted <=> bills[d].status \in Posted
          /\ bills'[d].status = "voided" <=> bills[d].status = "voided"
      BY <1>1, <1>17, <1>18 DEF Posted, Payable
    <3> QED BY <1>24, <3>1, BillMatchKept DEF APInv, Matches
  <2>2. \A d \in DOMAIN checks : CheckMatch(d)'
    BY <1>1, <1>24, CheckMatchKept DEF APInv, Matches
  <2>3. ASSUME NEW d \in DOMAIN credits PROVE CreditMatch(d)'
    <3>1. credits'[d].status = "voided" <=> credits[d].status = "voided"
      BY <1>1, <1>9, <1>11, <1>13
    <3> QED BY <1>24, <3>1, CreditMatchKept DEF APInv, Matches
  <2> QED BY <1>1, <1>13, <1>18, <2>1, <2>2, <2>3 DEF Matches
<1>26. \A d \in DOMAIN bills : Settling(d)
  BY <1>1, <1>17, <1>18 DEF Settling, Posted, Payable
<1> QED BY <1>1, <1>2, <1>18, <1>19, <1>20, <1>21, <1>22, <1>23, <1>25, <1>26 DEF APInv

LEMMA VoidCreditStep ==
    ASSUME APInv, NEW c \in DOMAIN credits, VoidCredit(c)
    PROVE  APInv' /\ (UNCHANGED entries \/ \E i \in DOMAIN entries : ReverseEntry(i))
<1> DEFINE row == [credits[c] EXCEPT !.status = "voided"]
<1>1. /\ credits[c].status # "voided" /\ credits[c].remaining >= credits[c].total
      /\ ReversePosting("vendor_credit", c)
      /\ UNCHANGED <<liveRefs, bills, checks, actualCost>>
  BY DEF VoidCredit
<1>2. /\ JournalInv /\ Tables /\ PaidRows /\ bills \in Seq(Bills) /\ TypeOK
      /\ liveRefs \subseteq Refs /\ checks \in Seq(Checks) /\ credits \in Seq(Credits_)
      /\ Len(entries) <= MaxEntries
  BY DEF APInv, Tables, JournalInv, TypeOK
<1>3. credits' = [credits EXCEPT ![c] = row]
  BY <1>2 DEF VoidCredit
<1>4. /\ credits[c] \in Credits_ /\ credits[c].remaining = credits[c].total
      /\ credits[c].remaining + Total(credits[c].applied) = credits[c].total
  <2>1. /\ credits[c] \in Credits_ /\ credits[c].remaining <= credits[c].total
        /\ credits[c].remaining \in Nat /\ credits[c].total \in Nat
        /\ credits[c].remaining + Total(credits[c].applied) = credits[c].total
    BY CreditIs
  <2> QED BY <1>1, <2>1
<1>5. row = [vendor |-> credits[c].vendor, total |-> credits[c].total,
             remaining |-> credits[c].remaining, applied |-> credits[c].applied,
             status |-> "voided"]
  BY <1>4 DEF Credits_
<1>6. /\ row \in Credits_ /\ row.status = "voided" /\ row.applied = credits[c].applied
      /\ row.remaining = credits[c].remaining /\ row.total = credits[c].total
  BY <1>4, <1>5 DEF Credits_
<1> HIDE DEF row
<1>7. /\ credits' \in Seq(Credits_) /\ DOMAIN credits' = DOMAIN credits
      /\ Len(credits') = Len(credits) /\ credits'[c] = row
      /\ \A d \in DOMAIN credits : d # c => credits'[d] = credits[d]
  BY <1>2, <1>3, <1>6
<1>8. \A b : PaidBy(b)' = PaidBy(b)
  <2>1. \A d \in DOMAIN credits : credits'[d].applied = credits[d].applied
    BY <1>6, <1>7
  <2> QED BY <1>1, <1>7, <2>1 DEF PaidBy
<1>9. PaidRows'
  BY <1>1, <1>2, <1>8 DEF PaidRows
<1>10. Tables'
  BY <1>1, <1>2, <1>7 DEF Tables, PayablesAssumption
<1>11. CreditsConserved'
  <2>1. row.status # "fully_applied" /\ row.remaining # 0
    <3>1. credits[c].status \in {"open", "voided"} /\ credits[c].status # "fully_applied"
      BY <1>1, <1>4 DEF APInv, CreditsConserved
    <3>2. credits[c].remaining # 0
      BY <3>1 DEF APInv, CreditsConserved
    <3> QED BY <1>6, <3>2
  <2>2. row.remaining + Total(row.applied) = row.total /\ row.remaining = row.total
    BY <1>4, <1>6
  <2> QED BY <1>6, <1>7, <2>1, <2>2 DEF APInv, CreditsConserved
<1>12. /\ JournalInv' /\ Kept
       /\ UNCHANGED entries \/ \E i \in DOMAIN entries : ReverseEntry(i)
       /\ \A j \in DOMAIN entries' \ DOMAIN entries : entries'[j].source = "reversal"
       /\ OpenPostings("vendor_credit", c)' = {}
       /\ \A s, d : s # "reversal" =>
             /\ PostingsOf(s, d)' = PostingsOf(s, d)
             /\ OpenPostings(s, d)' \subseteq OpenPostings(s, d)
  <2>1. \E i : PostingsOf("vendor_credit", c) = {i}
    BY <1>1, FewPostings
  <2>2. UNCHANGED liveRefs
    BY <1>1
  <2> QED BY <1>1, <1>2, <2>1, <2>2, ReversedPosting
<1>13. Documented' /\ Len(entries') <= MaxEntries
  BY <1>1, <1>7, <1>12 DEF APInv, Documented, Kept
<1>14. Matches'
  <2>1. \A b \in DOMAIN bills : BillMatch(b)'
    BY <1>1, <1>12, BillMatchKept DEF APInv, Matches
  <2>2. \A d \in DOMAIN checks : CheckMatch(d)'
    BY <1>1, <1>12, CheckMatchKept DEF APInv, Matches
  <2>3. ASSUME NEW d \in DOMAIN credits, d # c PROVE CreditMatch(d)'
    <3>1. CreditMatch(d) /\ credits'[d] = credits[d]
      BY <1>7, <2>3 DEF APInv, Matches
    <3> QED BY <1>12, <3>1, CreditMatchKept
  <2>4. CreditMatch(c)'
    <3>1. credits'[c].status = "voided"
      BY <1>6, <1>7
    <3> QED BY <1>12, <3>1 DEF CreditMatch, PostingsMatch
  <2> QED BY <1>1, <1>7, <2>1, <2>2, <2>3, <2>4 DEF Matches
<1> QED BY <1>9, <1>10, <1>11, <1>12, <1>13, <1>14 DEF APInv

(***************************************************************************)
(* Every step.                                                             *)
(***************************************************************************)
LEMMA ReverseAnyStep ==
    ASSUME APInv, NEW i \in DOMAIN entries, ReverseAny(i)
    PROVE  APInv'
<1>1. /\ ReverseEntry(i) /\ UNCHANGED <<liveRefs, bills, checks, credits, actualCost>>
  BY DEF ReverseAny
<1>2. JournalInv /\ liveRefs' \subseteq Refs /\ actualCost' \in [WorkOrders -> Nat]
      /\ Len(entries) <= MaxEntries
  BY <1>1 DEF APInv, Tables, JournalInv, TypeOK
<1>3. JournalInv'
  BY <1>1, <1>2, ReversePreserves
<1>4. Kept /\ \A j \in DOMAIN entries' \ DOMAIN entries : entries'[j].source = "reversal"
  BY <1>1, <1>2, ReverseKeeps
<1>5. /\ Len(entries') <= MaxEntries /\ DOMAIN entries \subseteq DOMAIN entries'
      /\ \A j \in DOMAIN entries : /\ entries'[j].source = entries[j].source
                                   /\ entries'[j].doc = entries[j].doc
  BY <1>4 DEF Kept
<1>6. \A s, d : s # "reversal" =>
         /\ PostingsOf(s, d)' = PostingsOf(s, d)
         /\ OpenPostings(s, d)' \subseteq OpenPostings(s, d)
  BY <1>1, <1>2, ReversedIn
<1> QED BY <1>1, <1>2, <1>3, <1>4, <1>5, <1>6, OthersKeepPayables

\* Completed work, properties deleted, and nothing at all.
LEMMA RestStep ==
    ASSUME APInv, UNCHANGED <<entries, bills, checks, credits>>,
           liveRefs' \subseteq Refs, actualCost' \in [WorkOrders -> Nat]
    PROVE  APInv' /\ UNCHANGED BookOf(entries)
<1>1. JournalInv /\ Len(entries) <= MaxEntries
  BY DEF APInv
<1>2. JournalInv' /\ UNCHANGED BookOf(entries)
  BY <1>1, JournalKept
<1>3. \A s, d : PostingsOf(s, d)' = PostingsOf(s, d) /\ OpenPostings(s, d)' = OpenPostings(s, d)
  BY DEF PostingsOf, OpenPostings
<1>4. Len(entries') <= MaxEntries /\ DOMAIN entries' = DOMAIN entries
  BY <1>1
<1> QED BY <1>2, <1>3, <1>4, OthersKeepPayables

LEMMA APStep == APInv /\ [APNext]_apVars => APInv' /\ [Ledger!Next]_(BookOf(entries))
<1> SUFFICES ASSUME APInv, [APNext]_apVars
             PROVE  APInv' /\ (Ledger!Next \/ UNCHANGED BookOf(entries))
  OBVIOUS
<1>1. /\ JournalInv /\ liveRefs \subseteq Refs /\ actualCost \in [WorkOrders -> Nat]
      /\ CompletionCosts \subseteq Nat
  BY DEF APInv, Tables, JournalInv, TypeOK, PayablesAssumption
<1>2. ASSUME APInv', NEW source, NEW doc, NEW lines, PostEntry(source, doc, lines)
      PROVE  Ledger!Next
  <2>1. JournalInv'
    BY <1>2 DEF APInv
  <2> QED BY <1>1, <1>2, <2>1, PostIsPost, NextIs
<1>3. ASSUME APInv', NEW i \in DOMAIN entries, ReverseEntry(i) PROVE Ledger!Next
  <2>1. JournalInv'
    BY <1>3 DEF APInv
  <2> QED BY <1>1, <1>3, <2>1, ReverseIsUndo, NextIs
<1>4. ASSUME APInv', UNCHANGED entries PROVE UNCHANGED BookOf(entries)
  BY <1>4 DEF BookOf
<1>5. CASE BillRequests
  <2>1. ASSUME NEW input \in BillInputs, CreateBill(input)
        PROVE  APInv' /\ UNCHANGED BookOf(entries)
    BY <1>4, <2>1, CreateBillStep
  <2>2. ASSUME NEW b \in DOMAIN bills, NEW input \in BillInputs, NEW given \in Edits,
               UpdateBill(b, input, given)
        PROVE  APInv' /\ UNCHANGED BookOf(entries)
    BY <1>4, <2>2, UpdateBillStep
  <2>3. ASSUME NEW b \in DOMAIN bills, ApproveBill(b) PROVE APInv' /\ Ledger!Next
    BY <1>2, <2>3, ApproveBillStep
  <2>4. ASSUME NEW b \in DOMAIN bills, VoidBill(b)
        PROVE  APInv' /\ (Ledger!Next \/ UNCHANGED BookOf(entries))
    BY <1>3, <1>4, <2>4, VoidBillStep
  <2> QED BY <1>5, <2>1, <2>2, <2>3, <2>4 DEF BillRequests
<1>6. CASE CreditRequests
  <2>1. ASSUME NEW input \in CreditInputs, CreateCredit(input) PROVE APInv' /\ Ledger!Next
    BY <1>2, <2>1, CreateCreditStep
  <2>2. ASSUME NEW c \in DOMAIN credits, NEW b \in DOMAIN bills, NEW amt \in 1 .. MaxAmount,
               ApplyCredit(c, b, amt)
        PROVE  APInv' /\ UNCHANGED BookOf(entries)
    BY <1>4, <2>2, ApplyCreditStep
  <2>3. ASSUME NEW c \in DOMAIN credits, VoidCredit(c)
        PROVE  APInv' /\ (Ledger!Next \/ UNCHANGED BookOf(entries))
    BY <1>3, <1>4, <2>3, VoidCreditStep
  <2> QED BY <1>6, <2>1, <2>2, <2>3 DEF CreditRequests
<1>7. CASE CheckRequests
  <2>1. ASSUME NEW v \in Vendors, NEW bank \in BankAccounts,
               NEW allocs \in [BillIds -> 0 .. MaxAmount], IssueCheck(v, bank, allocs)
        PROVE  APInv' /\ Ledger!Next
    BY <1>2, <2>1, IssueCheckStep
  <2> QED BY <1>7, <2>1 DEF CheckRequests
<1>8. ASSUME NEW c \in DOMAIN checks, VoidCheck(c)
      PROVE  APInv' /\ (Ledger!Next \/ UNCHANGED BookOf(entries))
  BY <1>3, <1>4, <1>8, VoidCheckStep
<1>9. ASSUME NEW i \in DOMAIN entries, ReverseAny(i) PROVE APInv' /\ Ledger!Next
  <2>1. APInv' /\ ReverseEntry(i)
    BY <1>9, ReverseAnyStep DEF ReverseAny
  <2> QED BY <1>3, <2>1
<1>10. ASSUME NEW w \in WorkOrders, NEW cost \in CompletionCosts, CompleteWorkOrder(w, cost)
       PROVE  APInv' /\ UNCHANGED BookOf(entries)
  <2>1. UNCHANGED <<entries, bills, checks, credits>> /\ liveRefs' \subseteq Refs
        /\ actualCost' \in [WorkOrders -> Nat]
    BY <1>1, <1>10 DEF CompleteWorkOrder
  <2> QED BY <2>1, RestStep
<1>11. ASSUME NEW r \in Refs, DeleteRef(r) PROVE APInv' /\ UNCHANGED BookOf(entries)
  <2>1. UNCHANGED <<entries, bills, checks, credits>> /\ liveRefs' \subseteq Refs
        /\ actualCost' \in [WorkOrders -> Nat]
    BY <1>1, <1>11 DEF DeleteRef, SoftDelete
  <2> QED BY <2>1, RestStep
<1>12. ASSUME UNCHANGED apVars PROVE APInv' /\ UNCHANGED BookOf(entries)
  BY <1>1, <1>12, RestStep DEF apVars
<1> QED BY <1>5, <1>6, <1>7, <1>8, <1>9, <1>10, <1>11, <1>12 DEF APNext

LEMMA APInvariant == PayablesAssumption /\ APSpec => []APInv
<1>1. APInv /\ [APNext]_apVars => APInv'
  BY APStep
<1> QED BY <1>1, PayablesInitial, PTL DEF APSpec

LEMMA APImplies ==
    APInv => APTypeOK /\ BillPaymentsAgree /\ CreditsConserved /\ PostingsMatchDocuments
<1> SUFFICES ASSUME APInv
             PROVE  APTypeOK /\ BillPaymentsAgree /\ PostingsMatchDocuments
  BY DEF APInv
<1>1. APTypeOK
  BY DEF APInv, JournalInv, Tables, APTypeOK
<1>2. BillPaymentsAgree
  <2>1. \A b \in DOMAIN bills : SettledIs(bills[b]) /\ bills[b].paid = PaidBy(b)
    BY DEF APInv, PaidRows
  <2> QED BY <2>1 DEF BillPaymentsAgree, SettledIs, BillTotal
<1>3. PostingsMatchDocuments
  BY DEF APInv, Matches, BillMatch, CheckMatch, CreditMatch, PostingsMatchDocuments
<1> QED BY <1>1, <1>2, <1>3

(***************************************************************************)
(* What no step does.                                                      *)
(***************************************************************************)
\* The bills that a step may touch other than by a payment.
LEMMA BillSteps ==
    ASSUME APInv, APNext
    PROVE  \/ DOMAIN bills' = DOMAIN bills /\ \A b \in DOMAIN bills : Settling(b)
           \/ \E input \in BillInputs : CreateBill(input)
           \/ \E b \in DOMAIN bills, input \in BillInputs, given \in Edits :
                 UpdateBill(b, input, given)
           \/ \E b \in DOMAIN bills : ApproveBill(b) \/ VoidBill(b)
<1>1. ASSUME UNCHANGED bills
      PROVE  DOMAIN bills' = DOMAIN bills /\ \A b \in DOMAIN bills : Settling(b)
  BY <1>1 DEF Settling
<1>2. ASSUME NEW input \in CreditInputs, CreateCredit(input) PROVE UNCHANGED bills
  BY <1>2 DEF CreateCredit
<1>3. ASSUME NEW c \in DOMAIN credits, VoidCredit(c) PROVE UNCHANGED bills
  BY <1>3 DEF VoidCredit
<1>4. CASE CreditRequests
  BY <1>1, <1>2, <1>3, <1>4, ApplyCreditStep DEF CreditRequests
<1>5. CASE CheckRequests
  BY <1>5, IssueCheckStep DEF CheckRequests
<1>6. ASSUME NEW c \in DOMAIN checks, VoidCheck(c)
      PROVE  DOMAIN bills' = DOMAIN bills /\ \A b \in DOMAIN bills : Settling(b)
  BY <1>6, VoidCheckStep
<1>7. ASSUME \/ \E i \in DOMAIN entries : ReverseAny(i)
             \/ \E w \in WorkOrders, cost \in CompletionCosts : CompleteWorkOrder(w, cost)
             \/ \E r \in Refs : DeleteRef(r)
      PROVE  UNCHANGED bills
  BY <1>7 DEF ReverseAny, CompleteWorkOrder, DeleteRef
<1> QED BY <1>1, <1>4, <1>5, <1>6, <1>7 DEF APNext, BillRequests

\* Bill b, once it is posted or voided.
FrozenBill(b) ==
    bills[b].status \notin Entered =>
        /\ bills'[b].vendor = bills[b].vendor
        /\ bills'[b].wo = bills[b].wo
        /\ bills'[b].lines = bills[b].lines
        /\ bills'[b].status \notin Entered
        /\ bills[b].status = "voided" => bills'[b] = bills[b]

LEMMA BillsFrozen ==
    ASSUME APInv, APNext PROVE \A b \in DOMAIN bills : FrozenBill(b)
<1>1. bills \in Seq(Bills)
  BY DEF APInv, Tables
<1>2. ASSUME \A b \in DOMAIN bills : Settling(b) PROVE \A b \in DOMAIN bills : FrozenBill(b)
  BY <1>2 DEF FrozenBill, Settling, Entered, Posted, Payable
<1>3. ASSUME NEW input \in BillInputs, CreateBill(input)
      PROVE  \A b \in DOMAIN bills : FrozenBill(b)
  <2>1. PICK row : bills' = Append(bills, row)
    BY <1>3 DEF CreateBill
  <2>2. \A b \in DOMAIN bills : bills'[b] = bills[b]
    BY <1>1, <2>1
  <2> QED BY <2>2 DEF FrozenBill
<1>4. ASSUME NEW b \in DOMAIN bills, NEW input \in BillInputs, NEW given \in Edits,
             UpdateBill(b, input, given)
      PROVE  \A d \in DOMAIN bills : FrozenBill(d)
  <2>1. bills[b].status \in Entered /\ \A d \in DOMAIN bills : d # b => bills'[d] = bills[d]
    BY <1>4 DEF UpdateBill
  <2> QED BY <2>1 DEF FrozenBill
<1>5. ASSUME NEW b \in DOMAIN bills, ApproveBill(b)
      PROVE  \A d \in DOMAIN bills : FrozenBill(d)
  <2>1. bills[b].status \in Entered /\ \A d \in DOMAIN bills : d # b => bills'[d] = bills[d]
    BY <1>5 DEF ApproveBill
  <2> QED BY <2>1 DEF FrozenBill
<1>6. ASSUME NEW b \in DOMAIN bills, VoidBill(b)
      PROVE  \A d \in DOMAIN bills : FrozenBill(d)
  <2>1. /\ bills[b].status # "voided" /\ bills[b] \in Bills
        /\ bills'[b] = [bills[b] EXCEPT !.status = "voided"]
        /\ \A d \in DOMAIN bills : d # b => bills'[d] = bills[d]
    BY <1>1, <1>6 DEF VoidBill
  <2>2. /\ bills'[b].vendor = bills[b].vendor /\ bills'[b].wo = bills[b].wo
        /\ bills'[b].lines = bills[b].lines /\ bills'[b].status = "voided"
    BY <2>1 DEF Bills
  <2> QED BY <2>1, <2>2 DEF FrozenBill, Entered
<1> QED BY <1>2, <1>3, <1>4, <1>5, <1>6, BillSteps

LEMMA ChecksFrozen ==
    ASSUME APInv, APNext
    PROVE  \A c \in DOMAIN checks : checks[c].status = "voided" => checks'[c] = checks[c]
<1>1. checks \in Seq(Checks)
  BY DEF APInv, Tables
<1>2. ASSUME NEW v, NEW bank, NEW allocs, IssueCheck(v, bank, allocs),
             NEW c \in DOMAIN checks
      PROVE  checks'[c] = checks[c]
  BY <1>1, <1>2 DEF IssueCheck
<1>3. ASSUME NEW d, VoidCheck(d), NEW c \in DOMAIN checks, checks[c].status = "voided"
      PROVE  checks'[c] = checks[c]
  BY <1>3 DEF VoidCheck
<1>4. ASSUME BillRequests PROVE UNCHANGED checks
  <2>1. ASSUME NEW input, CreateBill(input) PROVE UNCHANGED checks
    BY <2>1 DEF CreateBill
  <2>2. ASSUME NEW b, NEW input, NEW given, UpdateBill(b, input, given)
        PROVE  UNCHANGED checks
    BY <2>2 DEF UpdateBill
  <2>3. ASSUME NEW b, ApproveBill(b) \/ VoidBill(b) PROVE UNCHANGED checks
    BY <2>3 DEF ApproveBill, VoidBill
  <2> QED BY <1>4, <2>1, <2>2, <2>3 DEF BillRequests
<1>5. ASSUME CreditRequests PROVE UNCHANGED checks
  <2>1. ASSUME NEW input, CreateCredit(input) PROVE UNCHANGED checks
    BY <2>1 DEF CreateCredit
  <2>2. ASSUME NEW d, NEW b, NEW amt, ApplyCredit(d, b, amt) PROVE UNCHANGED checks
    BY <2>2 DEF ApplyCredit
  <2>3. ASSUME NEW d, VoidCredit(d) PROVE UNCHANGED checks
    BY <2>3 DEF VoidCredit
  <2> QED BY <1>5, <2>1, <2>2, <2>3 DEF CreditRequests
<1>6. ASSUME \/ \E i \in DOMAIN entries : ReverseAny(i)
             \/ \E w \in WorkOrders, cost \in CompletionCosts : CompleteWorkOrder(w, cost)
             \/ \E r \in Refs : DeleteRef(r)
      PROVE  UNCHANGED checks
  BY <1>6 DEF ReverseAny, CompleteWorkOrder, DeleteRef
<1> QED BY <1>2, <1>3, <1>4, <1>5, <1>6 DEF APNext, CheckRequests

LEMMA CreditsFrozen ==
    ASSUME APInv, APNext
    PROVE  \A c \in DOMAIN credits : credits[c].status = "voided" => credits'[c] = credits[c]
<1>1. credits \in Seq(Credits_)
  BY DEF APInv, Tables
<1>2. ASSUME NEW input, CreateCredit(input), NEW c \in DOMAIN credits
      PROVE  credits'[c] = credits[c]
  BY <1>1, <1>2 DEF CreateCredit
<1>3. ASSUME NEW d, NEW b, NEW amt, ApplyCredit(d, b, amt), NEW c \in DOMAIN credits,
             credits[c].status = "voided"
      PROVE  credits'[c] = credits[c]
  BY <1>3 DEF ApplyCredit
<1>4. ASSUME NEW d, VoidCredit(d), NEW c \in DOMAIN credits, credits[c].status = "voided"
      PROVE  credits'[c] = credits[c]
  BY <1>4 DEF VoidCredit
<1>5. ASSUME BillRequests PROVE UNCHANGED credits
  <2>1. ASSUME NEW input, CreateBill(input) PROVE UNCHANGED credits
    BY <2>1 DEF CreateBill
  <2>2. ASSUME NEW b, NEW input, NEW given, UpdateBill(b, input, given)
        PROVE  UNCHANGED credits
    BY <2>2 DEF UpdateBill
  <2>3. ASSUME NEW b, ApproveBill(b) \/ VoidBill(b) PROVE UNCHANGED credits
    BY <2>3 DEF ApproveBill, VoidBill
  <2> QED BY <1>5, <2>1, <2>2, <2>3 DEF BillRequests
<1>6. ASSUME CheckRequests \/ \E c \in DOMAIN checks : VoidCheck(c)
      PROVE  UNCHANGED credits
  BY <1>6 DEF CheckRequests, IssueCheck, VoidCheck
<1>7. ASSUME \/ \E i \in DOMAIN entries : ReverseAny(i)
             \/ \E w \in WorkOrders, cost \in CompletionCosts : CompleteWorkOrder(w, cost)
             \/ \E r \in Refs : DeleteRef(r)
      PROVE  UNCHANGED credits
  BY <1>7 DEF ReverseAny, CompleteWorkOrder, DeleteRef
<1> QED BY <1>2, <1>3, <1>4, <1>5, <1>6, <1>7 DEF APNext, CreditRequests

\* What a bill adds to the cost of work order w.
CostOf(bill, w) ==
    IF bill.wo = w /\ bill.status # "voided" THEN LinesTotal(bill.lines) ELSE 0

LEMMA SameCosts ==
    ASSUME NEW old, NEW new, NEW w, DOMAIN new = DOMAIN old,
           \A b \in DOMAIN old : CostOf(new[b], w) = CostOf(old[b], w)
    PROVE  WorkOrderTotal(new, w) = WorkOrderTotal(old, w)
<1>1. [b \in DOMAIN new |-> CostOf(new[b], w)] = [b \in DOMAIN old |-> CostOf(old[b], w)]
  OBVIOUS
<1> QED BY <1>1 DEF WorkOrderTotal, CostOf

LEMMA AddedCosts ==
    ASSUME NEW old \in Seq(Bills), NEW row \in Bills, NEW w, CostOf(row, w) = 0
    PROVE  WorkOrderTotal(Append(old, row), w) = WorkOrderTotal(old, w)
<1> DEFINE new == Append(old, row)
           f == [b \in DOMAIN old |-> CostOf(old[b], w)]
           g == [b \in DOMAIN new |-> CostOf(new[b], w)]
<1>1. f \in Seq(Nat) /\ g \in Seq(Nat)
  <2>1. \A table \in Seq(Bills) : [b \in DOMAIN table |-> CostOf(table[b], w)] \in Seq(Nat)
    BY CostIs DEF CostOf
  <2>2. new \in Seq(Bills)
    OBVIOUS
  <2> HIDE DEF new
  <2> QED BY <2>1, <2>2
<1>2. PICK n \in Nat : n = Len(old) /\ DOMAIN old = 1 .. n
  OBVIOUS
<1>3. /\ DOMAIN new = 1 .. (n + 1) /\ new[n + 1] = row
      /\ \A b \in 1 .. n : new[b] = old[b]
  BY <1>2
<1>4. /\ DOMAIN f = 1 .. n /\ DOMAIN g = 1 .. (n + 1) /\ g[n + 1] = 0
      /\ \A b \in 1 .. n : g[b] = f[b]
  BY <1>2, <1>3
<1>5. WorkOrderTotal(new, w) = Total(g) /\ WorkOrderTotal(old, w) = Total(f)
  BY DEF WorkOrderTotal, CostOf
<1> HIDE DEF f, g, new
<1>6. Len(f) = n /\ f \in Seq(Int)
  BY <1>1, <1>2, <1>4, NaturalRows
<1>7. g = Append(f, 0)
  BY <1>1, <1>4, <1>6
<1>8. PICK x \in Int : x = Total(f)
  BY <1>1, TotalOfNaturals
<1>9. Total(g) = x + 0
  BY <1>6, <1>7, <1>8, TotalAppend
<1> QED BY <1>5, <1>8, <1>9 DEF new

LEMMA CostsFollow ==
    ASSUME APInv, APNext, NEW w \in WorkOrders,
           WorkOrderTotal(bills', w) # WorkOrderTotal(bills, w)
    PROVE  actualCost'[w] = WorkOrderTotal(bills', w)
<1>1. bills \in Seq(Bills) /\ APInv'
  BY APStep DEF APInv, Tables
<1>2. ASSUME NEW W, RecalcCosts(W), w \in W PROVE actualCost'[w] = WorkOrderTotal(bills', w)
  BY <1>2 DEF RecalcCosts
<1>3. ASSUME DOMAIN bills' = DOMAIN bills, \A b \in DOMAIN bills : Settling(b) PROVE FALSE
  <2>1. ASSUME NEW b \in DOMAIN bills PROVE CostOf(bills'[b], w) = CostOf(bills[b], w)
    BY <1>3 DEF Settling, CostOf, Posted, Payable
  <2> QED BY <1>3, <2>1, SameCosts
<1>4. ASSUME NEW input \in BillInputs, CreateBill(input)
      PROVE  actualCost'[w] = WorkOrderTotal(bills', w)
  <2>1. PICK row : /\ bills' = Append(bills, row) /\ row.wo = input.wo
                   /\ RecalcCosts({input.wo})
    BY <1>4 DEF CreateBill
  <2>2. row \in Bills
    <3>1. bills' \in Seq(Bills)
      BY <1>1 DEF APInv, Tables
    <3> QED BY <1>1, <2>1, <3>1
  <2>3. CASE w = input.wo
    BY <1>2, <2>1, <2>3
  <2>4. CASE w # input.wo
    <3>1. CostOf(row, w) = 0
      BY <2>1, <2>4 DEF CostOf
    <3> QED BY <1>1, <2>1, <2>2, <3>1, AddedCosts
  <2> QED BY <2>3, <2>4
<1>5. ASSUME NEW b \in DOMAIN bills, NEW input \in BillInputs, NEW given \in Edits,
             UpdateBill(b, input, given)
      PROVE  actualCost'[w] = WorkOrderTotal(bills', w)
  <2>1. PICK wo : /\ RecalcCosts({bills[b].wo, wo}) /\ bills'[b].wo = wo
                  /\ DOMAIN bills' = DOMAIN bills
                  /\ \A d \in DOMAIN bills : d # b => bills'[d] = bills[d]
    <3>1. PICK wo : wo = Edited(b, input, given).wo
      OBVIOUS
    <3>2. RecalcCosts({bills[b].wo, wo})
      BY <1>5, <3>1 DEF UpdateBill
    <3>3. /\ bills'[b].wo = wo /\ DOMAIN bills' = DOMAIN bills
          /\ \A d \in DOMAIN bills : d # b => bills'[d] = bills[d]
      BY <1>1, <1>5, <3>1 DEF UpdateBill, Bills
    <3> QED BY <3>2, <3>3
  <2>2. CASE w \in {bills[b].wo, wo}
    BY <1>2, <2>1, <2>2
  <2>3. CASE w \notin {bills[b].wo, wo}
    <3>1. CostOf(bills'[b], w) = 0 /\ CostOf(bills[b], w) = 0
      BY <2>1, <2>3 DEF CostOf
    <3> QED BY <2>1, <3>1, SameCosts
  <2> QED BY <2>2, <2>3
<1>6. ASSUME NEW b \in DOMAIN bills, ApproveBill(b) PROVE FALSE
  <2>1. /\ bills[b].status # "voided" /\ bills[b] \in Bills /\ DOMAIN bills' = DOMAIN bills
        /\ bills'[b] = [bills[b] EXCEPT !.status = "approved"]
        /\ \A d \in DOMAIN bills : d # b => bills'[d] = bills[d]
    BY <1>1, <1>6 DEF ApproveBill, Entered
  <2>2. bills'[b].wo = bills[b].wo /\ bills'[b].lines = bills[b].lines
        /\ bills'[b].status # "voided"
    BY <2>1 DEF Bills
  <2>3. CostOf(bills'[b], w) = CostOf(bills[b], w)
    BY <2>1, <2>2 DEF CostOf
  <2> QED BY <2>1, <2>3, SameCosts
<1>7. ASSUME NEW b \in DOMAIN bills, VoidBill(b)
      PROVE  actualCost'[w] = WorkOrderTotal(bills', w)
  <2>1. /\ RecalcCosts({bills[b].wo}) /\ bills[b] \in Bills /\ DOMAIN bills' = DOMAIN bills
        /\ bills'[b] = [bills[b] EXCEPT !.status = "voided"]
        /\ \A d \in DOMAIN bills : d # b => bills'[d] = bills[d]
    BY <1>1, <1>7 DEF VoidBill
  <2>2. bills'[b].wo = bills[b].wo
    BY <2>1 DEF Bills
  <2>3. CASE w = bills[b].wo
    BY <1>2, <2>1, <2>3
  <2>4. CASE w # bills[b].wo
    <3>1. CostOf(bills'[b], w) = 0 /\ CostOf(bills[b], w) = 0
      BY <2>2, <2>4 DEF CostOf
    <3> QED BY <2>1, <3>1, SameCosts
  <2> QED BY <2>3, <2>4
<1> QED BY <1>3, <1>4, <1>5, <1>6, <1>7, BillSteps

(***************************************************************************)
(* What entries were posted from.                                          *)
(***************************************************************************)
\* An entry is a reversal, or has the lines of a document.
FromBill(i) ==
    /\ entries[i].source = "bill" /\ entries[i].doc \in DOMAIN bills
    /\ entries[i].lines = AccrualLines(bills[entries[i].doc].lines)
FromCheck(i) ==
    LET check == checks[entries[i].doc]
    IN  /\ entries[i].source = "vendor_check" /\ entries[i].doc \in DOMAIN checks
        /\ entries[i].lines = SettlementLines(check.bank, Total(check.allocs))
FromCredit(i) ==
    /\ entries[i].source = "vendor_credit" /\ entries[i].doc \in DOMAIN credits
    /\ \E a \in Accounts :
          entries[i].lines = SettlementLines(a, credits[entries[i].doc].total)

FromDocument(i) == IsReversal(i) \/ FromBill(i) \/ FromCheck(i) \/ FromCredit(i)

BooksInv == APInv /\ \A i \in DOMAIN entries : FromDocument(i)

\* A step leaves alone what entries were posted from.
OriginsKept ==
    /\ \A b \in DOMAIN bills :
          /\ b \in DOMAIN bills'
          /\ bills[b].status \notin Entered => bills'[b].lines = bills[b].lines
    /\ \A c \in DOMAIN checks :
          /\ c \in DOMAIN checks' /\ checks'[c].bank = checks[c].bank
          /\ checks'[c].allocs = checks[c].allocs
    /\ \A c \in DOMAIN credits :
          c \in DOMAIN credits' /\ credits'[c].total = credits[c].total

LEMMA FromDocumentKept ==
    ASSUME APInv, OriginsKept, Kept, NEW i \in DOMAIN entries, FromDocument(i)
    PROVE  FromDocument(i)'
<1>1. /\ entries'[i].source = entries[i].source /\ entries'[i].doc = entries[i].doc
      /\ entries'[i].lines = entries[i].lines
  BY DEF Kept
<1>2. CASE IsReversal(i)
  BY <1>1, <1>2 DEF FromDocument, IsReversal
<1>3. CASE FromBill(i)
  <2>1. PICK b \in DOMAIN bills : b = entries[i].doc /\ i \in PostingsOf("bill", b)
    BY <1>3 DEF FromBill, PostingsOf
  <2>2. bills[b].status \notin Entered
    <3>1. BillMatch(b)
      BY DEF APInv, Matches
    <3> QED BY <2>1, <3>1 DEF BillMatch, PostingsMatch, Entered, Posted, Payable
  <2>3. b \in DOMAIN bills' /\ bills'[b].lines = bills[b].lines
    BY <2>2 DEF OriginsKept
  <2> QED BY <1>1, <1>3, <2>1, <2>3 DEF FromDocument, FromBill
<1>4. CASE FromCheck(i)
  <2>1. PICK c \in DOMAIN checks : c = entries[i].doc
    BY <1>4 DEF FromCheck
  <2>2. /\ c \in DOMAIN checks' /\ checks'[c].bank = checks[c].bank
        /\ checks'[c].allocs = checks[c].allocs
    BY DEF OriginsKept
  <2> QED BY <1>1, <1>4, <2>1, <2>2 DEF FromDocument, FromCheck
<1>5. CASE FromCredit(i)
  <2>1. PICK c \in DOMAIN credits : c = entries[i].doc
    BY <1>5 DEF FromCredit
  <2>2. c \in DOMAIN credits' /\ credits'[c].total = credits[c].total
    BY DEF OriginsKept
  <2> QED BY <1>1, <1>5, <2>1, <2>2 DEF FromDocument, FromCredit
<1> QED BY <1>2, <1>3, <1>4, <1>5 DEF FromDocument

\* No step touches the origins of entries.
LEMMA OriginsStay ==
    ASSUME APInv, APNext PROVE OriginsKept
<1>1. bills \in Seq(Bills) /\ checks \in Seq(Checks) /\ credits \in Seq(Credits_)
  BY DEF APInv, Tables
<1>2. /\ \A b \in DOMAIN bills : bills[b] \in Bills
      /\ \A c \in DOMAIN checks : checks[c] \in Checks
      /\ \A c \in DOMAIN credits : credits[c] \in Credits_
  BY <1>1
<1>3. \A b \in DOMAIN bills : b \in DOMAIN bills'
  <2>1. ASSUME NEW input \in BillInputs, CreateBill(input)
        PROVE  \A b \in DOMAIN bills : b \in DOMAIN bills'
    <3>1. PICK row : bills' = Append(bills, row)
      BY <2>1 DEF CreateBill
    <3> QED BY <1>1, <3>1
  <2>2. ASSUME NEW b \in DOMAIN bills, NEW input \in BillInputs, NEW given \in Edits,
               UpdateBill(b, input, given)
        PROVE  DOMAIN bills' = DOMAIN bills
    BY <2>2 DEF UpdateBill
  <2>3. ASSUME NEW b \in DOMAIN bills, ApproveBill(b) \/ VoidBill(b)
        PROVE  DOMAIN bills' = DOMAIN bills
    BY <2>3 DEF ApproveBill, VoidBill
  <2> QED BY <2>1, <2>2, <2>3, BillSteps
<1>4. \A b \in DOMAIN bills :
         bills[b].status \notin Entered => bills'[b].lines = bills[b].lines
  BY BillsFrozen DEF FrozenBill
<1> DEFINE ChecksKept == \A c \in DOMAIN checks :
             /\ c \in DOMAIN checks' /\ checks'[c].bank = checks[c].bank
             /\ checks'[c].allocs = checks[c].allocs
           CreditsKept == \A c \in DOMAIN credits :
             c \in DOMAIN credits' /\ credits'[c].total = credits[c].total
<1>5. /\ UNCHANGED checks => ChecksKept
      /\ UNCHANGED credits => CreditsKept
  OBVIOUS
<1>6. CASE BillRequests
  <2>1. ASSUME NEW input, CreateBill(input) PROVE UNCHANGED <<checks, credits>>
    BY <2>1 DEF CreateBill
  <2>2. ASSUME NEW b, NEW input, NEW given, UpdateBill(b, input, given)
        PROVE  UNCHANGED <<checks, credits>>
    BY <2>2 DEF UpdateBill
  <2>3. ASSUME NEW b, ApproveBill(b) \/ VoidBill(b) PROVE UNCHANGED <<checks, credits>>
    BY <2>3 DEF ApproveBill, VoidBill
  <2>4. UNCHANGED <<checks, credits>>
    BY <1>6, <2>1, <2>2, <2>3 DEF BillRequests
  <2> QED BY <1>3, <1>4, <1>5, <2>4 DEF OriginsKept
<1>7. CASE CreditRequests
  <2>1. ASSUME NEW input \in CreditInputs, CreateCredit(input)
        PROVE  UNCHANGED checks /\ CreditsKept
    <3>1. UNCHANGED checks /\ \E row : credits' = Append(credits, row)
      BY <2>1 DEF CreateCredit
    <3> QED BY <1>1, <3>1
  <2>2. ASSUME NEW c \in DOMAIN credits, NEW b \in DOMAIN bills, NEW amt \in 1 .. MaxAmount,
               ApplyCredit(c, b, amt)
        PROVE  UNCHANGED checks /\ CreditsKept
    <3>1. UNCHANGED checks
      BY <2>2 DEF ApplyCredit
    <3>2. /\ DOMAIN credits' = DOMAIN credits
          /\ \A d \in DOMAIN credits : d # c => credits'[d] = credits[d]
      BY <2>2 DEF ApplyCredit
    <3>3. credits'[c].total = credits[c].total
      BY <1>2, <2>2 DEF ApplyCredit, Credits_
    <3> QED BY <3>1, <3>2, <3>3
  <2>3. ASSUME NEW c \in DOMAIN credits, VoidCredit(c)
        PROVE  UNCHANGED checks /\ CreditsKept
    <3>1. UNCHANGED checks /\ credits' = [credits EXCEPT ![c].status = "voided"]
      BY <2>3 DEF VoidCredit
    <3>2. /\ DOMAIN credits' = DOMAIN credits
          /\ credits'[c].total = credits[c].total
          /\ \A d \in DOMAIN credits : d # c => credits'[d] = credits[d]
      BY <1>2, <3>1 DEF Credits_
    <3> QED BY <3>1, <3>2
  <2>4. UNCHANGED checks /\ CreditsKept
    BY <1>7, <2>1, <2>2, <2>3 DEF CreditRequests
  <2> QED BY <1>3, <1>4, <1>5, <2>4 DEF OriginsKept
<1>8. CASE CheckRequests
  <2>1. UNCHANGED credits /\ \E row : checks' = Append(checks, row)
    BY <1>8 DEF CheckRequests, IssueCheck
  <2>2. ChecksKept
    BY <1>1, <2>1
  <2> QED BY <1>3, <1>4, <1>5, <2>1, <2>2 DEF OriginsKept
<1>9. ASSUME NEW c \in DOMAIN checks, VoidCheck(c) PROVE OriginsKept
  <2>1. UNCHANGED credits /\ checks' = [checks EXCEPT ![c].status = "voided"]
    BY <1>9 DEF VoidCheck
  <2>2. /\ DOMAIN checks' = DOMAIN checks
        /\ checks'[c].bank = checks[c].bank /\ checks'[c].allocs = checks[c].allocs
        /\ \A d \in DOMAIN checks : d # c => checks'[d] = checks[d]
    BY <1>2, <2>1 DEF Checks
  <2>3. ChecksKept
    BY <2>2
  <2> QED BY <1>3, <1>4, <1>5, <2>1, <2>3 DEF OriginsKept
<1>10. ASSUME \/ \E i \in DOMAIN entries : ReverseAny(i)
              \/ \E w \in WorkOrders, cost \in CompletionCosts : CompleteWorkOrder(w, cost)
              \/ \E r \in Refs : DeleteRef(r)
       PROVE  OriginsKept
  <2>1. UNCHANGED <<checks, credits>>
    BY <1>10 DEF ReverseAny, CompleteWorkOrder, DeleteRef
  <2> QED BY <1>3, <1>4, <1>5, <2>1 DEF OriginsKept
<1> QED BY <1>6, <1>7, <1>8, <1>9, <1>10 DEF APNext

\* And each entry that a step writes has its origin.
Written == Kept /\ \A j \in DOMAIN entries' \ DOMAIN entries : FromDocument(j)'

LEMMA WrittenFromDocuments ==
    ASSUME APInv, APInv', APNext PROVE Written
<1>1. JournalInv /\ TypeOK /\ Len(entries) <= MaxEntries /\ Len(entries') <= MaxEntries
  BY DEF APInv, JournalInv
<1>2. /\ bills \in Seq(Bills) /\ checks \in Seq(Checks) /\ credits \in Seq(Credits_)
      /\ \A b \in DOMAIN bills : bills[b] \in Bills
  BY DEF APInv, Tables
<1>3. ASSUME UNCHANGED entries PROVE Written
  BY <1>1, <1>3 DEF Kept, Written
<1>4. ASSUME NEW i \in DOMAIN entries, ReverseEntry(i) PROVE Written
  <2>1. /\ Kept
        /\ \A j \in DOMAIN entries' \ DOMAIN entries :
              entries'[j].source = "reversal" /\ entries'[j].doc # 0
    BY <1>1, <1>4, ReverseKeeps
  <2> QED BY <2>1 DEF FromDocument, IsReversal, Written
<1>5. ASSUME NEW source, NEW doc, NEW lines, PostEntry(source, doc, lines),
             \A j : /\ entries'[j].source = source /\ entries'[j].doc = doc
                    /\ entries'[j].lines = lines
                    => FromDocument(j)'
      PROVE  Written
  <2>1. PICK n : n = Len(entries) + 1
    OBVIOUS
  <2>2. /\ Kept /\ DOMAIN entries' = DOMAIN entries \cup {n}
        /\ entries'[n].source = source /\ entries'[n].doc = doc /\ entries'[n].lines = lines
    BY <1>1, <1>5, <2>1, PostKeeps
  <2> QED BY <1>5, <2>2 DEF Written
<1>6. ASSUME NEW b \in DOMAIN bills, ApproveBill(b) PROVE Written
  <2>1. /\ PostEntry("bill", b, AccrualLines(bills[b].lines))
        /\ bills' = [bills EXCEPT ![b].status = "approved"]
    BY <1>6 DEF ApproveBill
  <2>2. b \in DOMAIN bills' /\ bills'[b].lines = bills[b].lines
    BY <1>2, <2>1 DEF Bills
  <2>3. ASSUME NEW j, entries'[j].source = "bill", entries'[j].doc = b,
               entries'[j].lines = AccrualLines(bills[b].lines)
        PROVE  FromDocument(j)'
    BY <2>2, <2>3 DEF FromDocument, FromBill
  <2> QED BY <1>5, <2>1, <2>3
<1>7. ASSUME NEW v \in Vendors, NEW bank \in BankAccounts,
             NEW allocs \in [BillIds -> 0 .. MaxAmount], IssueCheck(v, bank, allocs)
      PROVE  Written
  <2>1. /\ PostEntry("vendor_check", Len(checks) + 1, SettlementLines(bank, Total(allocs)))
        /\ checks' = Append(checks, [vendor |-> v, bank |-> bank, allocs |-> allocs,
                                     status |-> "printed"])
    BY <1>7 DEF IssueCheck
  <2>2. PICK c : c = Len(checks) + 1
    OBVIOUS
  <2>3. c \in DOMAIN checks' /\ checks'[c].bank = bank /\ checks'[c].allocs = allocs
    BY <1>2, <2>1, <2>2
  <2>4. ASSUME NEW j, entries'[j].source = "vendor_check", entries'[j].doc = c,
               entries'[j].lines = SettlementLines(bank, Total(allocs))
        PROVE  FromDocument(j)'
    BY <2>3, <2>4 DEF FromDocument, FromCheck
  <2> QED BY <1>5, <2>1, <2>2, <2>4
<1>8. ASSUME NEW input \in CreditInputs, CreateCredit(input) PROVE Written
  <2>1. /\ PostEntry("vendor_credit", Len(credits) + 1,
                     SettlementLines(input.account, input.total))
        /\ credits' = Append(credits, [vendor |-> input.vendor, total |-> input.total,
                                       remaining |-> input.total, applied |-> Nothing,
                                       status |-> "open"])
    BY <1>8 DEF CreateCredit
  <2>2. PICK c : c = Len(credits) + 1
    OBVIOUS
  <2>3. c \in DOMAIN credits' /\ credits'[c].total = input.total
    BY <1>2, <2>1, <2>2
  <2>4. input.account \in Accounts
    <3>1. CreditInputs \subseteq [vendor : Vendors, account : Accounts, total : Nat \ {0}]
      BY DEF APInv, Tables, PayablesAssumption
    <3> QED BY <3>1
  <2>5. ASSUME NEW j, entries'[j].source = "vendor_credit", entries'[j].doc = c,
               entries'[j].lines = SettlementLines(input.account, input.total)
        PROVE  FromDocument(j)'
    BY <2>3, <2>4, <2>5 DEF FromDocument, FromCredit
  <2> QED BY <1>5, <2>1, <2>2, <2>5
<1>9. CASE BillRequests
  <2>1. ASSUME NEW input \in BillInputs, CreateBill(input) PROVE Written
    BY <1>3, <2>1 DEF CreateBill
  <2>2. ASSUME NEW b \in DOMAIN bills, NEW input \in BillInputs, NEW given \in Edits,
               UpdateBill(b, input, given)
        PROVE  Written
    BY <1>3, <2>2 DEF UpdateBill
  <2>3. ASSUME NEW b \in DOMAIN bills, VoidBill(b) PROVE Written
    BY <1>3, <1>4, <2>3, VoidBillStep
  <2> QED BY <1>6, <1>9, <2>1, <2>2, <2>3 DEF BillRequests
<1>10. CASE CreditRequests
  <2>1. ASSUME NEW c \in DOMAIN credits, NEW b \in DOMAIN bills, NEW amt \in 1 .. MaxAmount,
               ApplyCredit(c, b, amt)
        PROVE  Written
    BY <1>3, <2>1 DEF ApplyCredit
  <2>2. ASSUME NEW c \in DOMAIN credits, VoidCredit(c) PROVE Written
    BY <1>3, <1>4, <2>2, VoidCreditStep
  <2> QED BY <1>8, <1>10, <2>1, <2>2 DEF CreditRequests
<1>11. ASSUME NEW c \in DOMAIN checks, VoidCheck(c) PROVE Written
  BY <1>3, <1>4, <1>11, VoidCheckStep
<1>12. ASSUME NEW i \in DOMAIN entries, ReverseAny(i) PROVE Written
  BY <1>4, <1>12 DEF ReverseAny
<1>13. ASSUME \/ \E w \in WorkOrders, cost \in CompletionCosts : CompleteWorkOrder(w, cost)
              \/ \E r \in Refs : DeleteRef(r)
       PROVE  Written
  BY <1>3, <1>13 DEF CompleteWorkOrder, DeleteRef, SoftDelete
<1> QED
  BY <1>7, <1>9, <1>10, <1>11, <1>12, <1>13 DEF APNext, CheckRequests

LEMMA BooksStep == BooksInv /\ [APNext]_apVars => BooksInv'
<1> SUFFICES ASSUME BooksInv, [APNext]_apVars PROVE BooksInv'
  OBVIOUS
<1>1. APInv /\ APInv'
  BY APStep DEF BooksInv
<1>2. CASE APNext
  <2>1. OriginsKept /\ Written
    BY <1>1, <1>2, OriginsStay, WrittenFromDocuments
  <2>2. \A i \in DOMAIN entries : FromDocument(i)'
    BY <1>1, <2>1, FromDocumentKept DEF BooksInv, Written
  <2> QED BY <1>1, <2>1, <2>2 DEF BooksInv, Written
<1>3. CASE UNCHANGED apVars
  <2>1. UNCHANGED <<entries, bills, checks, credits>>
    BY <1>3 DEF apVars
  <2>2. \A i \in DOMAIN entries : FromDocument(i)' = FromDocument(i)
    BY <2>1 DEF FromDocument, FromBill, FromCheck, FromCredit, IsReversal
  <2> QED BY <1>1, <2>1, <2>2 DEF BooksInv
<1> QED BY <1>2, <1>3

LEMMA BooksInvariant == PayablesAssumption /\ APSpec => []BooksInv
<1>1. PayablesAssumption /\ APInit => BooksInv
  BY PayablesInitial DEF APInit, Init, BooksInv
<1> QED BY <1>1, BooksStep, PTL DEF APSpec

(***************************************************************************)
(* What documents put on the control account.                              *)
(***************************************************************************)
\* Lines that touch 2010 on one side only.
Sided(lines) ==
    LET on == {k \in DOMAIN lines : lines[k].account = PayableAccount}
    IN  (\A k \in on : lines[k].debit = 0) \/ (\A k \in on : lines[k].credit = 0)

LEMMA SettlementEffect ==
    ASSUME PayablesAssumption, NEW account \in Accounts, NEW amount \in Nat,
           Sided(SettlementLines(account, amount))
    PROVE  Effect(SettlementLines(account, amount), PayableAccount) = amount
<1> DEFINE lines == SettlementLines(account, amount)
           f == [k \in DOMAIN lines |->
                   IF lines[k].account \in {PayableAccount}
                   THEN lines[k].debit - lines[k].credit ELSE 0]
<1>1. /\ DOMAIN lines = 1 .. 2 /\ lines[1].account = PayableAccount /\ lines[1].debit = amount
      /\ lines[1].credit = 0 /\ lines[2].account = account /\ lines[2].debit = 0
      /\ lines[2].credit = amount
  BY DEF SettlementLines, Debit, Credit
<1>2. account = PayableAccount => amount = 0
  <2>1. SUFFICES ASSUME account = PayableAccount PROVE amount = 0
    OBVIOUS
  <2>2. 1 \in DOMAIN lines /\ 2 \in DOMAIN lines
    BY <1>1
  <2> HIDE DEF lines
  <2>3. Sided(lines)
    BY DEF lines
  <2> QED BY <1>1, <2>1, <2>2, <2>3 DEF Sided
<1>3. f = <<amount, 0>>
  <2>1. f[1] = amount /\ f[2] = 0 /\ DOMAIN f = 1 .. 2
    <3> HIDE DEF lines
    <3>1. 1 \in DOMAIN lines /\ 2 \in DOMAIN lines
      BY <1>1
    <3> QED BY <1>1, <1>2, <3>1
  <2>2. f = [k \in 1 .. 2 |-> f[k]]
    BY <1>1
  <2> HIDE DEF f
  <2> QED BY <2>1, <2>2
<1>4. <<amount, 0>> = Append(Append(<< >>, amount), 0)
  OBVIOUS
<1>5. Total(<<amount, 0>>) = amount
  <2>1. << >> \in Seq(Int) /\ Append(<< >>, amount) \in Seq(Int) /\ amount \in Int /\ 0 \in Int
    OBVIOUS
  <2>2. Total(Append(<< >>, amount)) = 0 + amount
    BY <2>1, TotalAppend, TotalEmpty
  <2>3. Total(Append(Append(<< >>, amount), 0)) = 0 + amount + 0
    BY <2>1, <2>2, TotalAppend
  <2>4. 0 + amount + 0 = amount
    OBVIOUS
  <2>5. PICK t : t = <<amount, 0>> /\ t = Append(Append(<< >>, amount), 0)
    BY <1>4
  <2>6. Total(t) = amount
    BY <2>3, <2>4, <2>5
  <2> QED BY ONLY <2>5, <2>6
<1> QED BY <1>3, <1>5 DEF Effect, NetDebit

LEMMA AccrualEffect ==
    ASSUME PayablesAssumption, NEW lines \in Seq(Allocations), Sided(AccrualLines(lines))
    PROVE  Effect(AccrualLines(lines), PayableAccount) = -LinesTotal(lines)
<1>1. PICK n \in Nat : n = Len(lines) /\ DOMAIN lines = 1 .. n
  OBVIOUS
<1> DEFINE all == AccrualLines(lines)
           d == [k \in DOMAIN lines |-> Debit(lines[k].account, lines[k].amount, lines[k].ref)]
           c == [k \in DOMAIN lines |-> Credit(PayableAccount, lines[k].amount, lines[k].ref)]
           m == n + n
           amount == [k \in DOMAIN lines |-> lines[k].amount]
           less == [k \in 1 .. n |-> -amount[k]]
           f == [k \in DOMAIN all |->
                   IF all[k].account \in {PayableAccount}
                   THEN all[k].debit - all[k].credit ELSE 0]
<1>2. \A k \in 1 .. n : lines[k].amount \in Nat /\ lines[k].amount > 0
  <2>1. \A k \in 1 .. n : lines[k] \in Allocations
    BY <1>1
  <2> QED BY <2>1 DEF Allocations
<1>3. /\ m \in Nat /\ DOMAIN all = 1 .. m
      /\ \A k \in 1 .. n : /\ all[k].account = lines[k].account
                           /\ all[k].debit = lines[k].amount /\ all[k].credit = 0
      /\ \A k \in (n + 1) .. m : /\ all[k].account = PayableAccount /\ all[k].debit = 0
                                 /\ all[k].credit = lines[k - n].amount
  <2> DEFINE S == {d[k] : k \in 1 .. n} \cup {c[k] : k \in 1 .. n}
  <2>1. d \in Seq(S) /\ Len(d) = n /\ c \in Seq(S) /\ Len(c) = n
    <3>1. d = [k \in 1 .. n |-> d[k]] /\ c = [k \in 1 .. n |-> c[k]]
      BY <1>1
    <3>2. \A k \in 1 .. n : d[k] \in S /\ c[k] \in S
      OBVIOUS
    <3> HIDE DEF d, c, S
    <3> QED BY <3>1, <3>2, SequenceIs
  <2>2. /\ \A k \in 1 .. n : /\ d[k].account = lines[k].account
                             /\ d[k].debit = lines[k].amount /\ d[k].credit = 0
        /\ \A k \in 1 .. n : /\ c[k].account = PayableAccount /\ c[k].debit = 0
                             /\ c[k].credit = lines[k].amount
    BY <1>1 DEF Debit, Credit
  <2>3. all = d \o c
    BY DEF AccrualLines
  <2> HIDE DEF d, c, S, all
  <2>4. Len(d \o c) = m /\ d \o c \in Seq(S)
    BY <2>1
  <2>5. DOMAIN (d \o c) = 1 .. m
    BY <2>4
  <2>6. \A k \in 1 .. n : (d \o c)[k] = d[k]
    BY <2>1
  <2>7. \A k \in (n + 1) .. m : (d \o c)[k] = c[k - n] /\ k - n \in 1 .. n
    BY <2>1
  <2> HIDE DEF m
  <2>8. m \in Nat
    BY DEF m
  <2>9. DOMAIN all = 1 .. m
    BY <2>3, <2>5
  <2>10. ASSUME NEW k \in 1 .. n
         PROVE  /\ all[k].account = lines[k].account
                /\ all[k].debit = lines[k].amount /\ all[k].credit = 0
    BY <2>2, <2>3, <2>6
  <2>11. ASSUME NEW k \in (n + 1) .. m
         PROVE  /\ all[k].account = PayableAccount /\ all[k].debit = 0
                /\ all[k].credit = lines[k - n].amount
    BY <2>2, <2>3, <2>7
  <2> QED BY <2>8, <2>9, <2>10, <2>11
<1>4. Sided(all)
  OBVIOUS
<1> HIDE DEF all
<1>5. \A k \in 1 .. n : lines[k].account # PayableAccount
  <2>1. SUFFICES ASSUME NEW k \in 1 .. n, lines[k].account = PayableAccount PROVE FALSE
    OBVIOUS
  <2>2. k \in DOMAIN all /\ n + k \in DOMAIN all /\ n + k \in (n + 1) .. m /\ n + k - n = k
    BY <1>3
  <2>3. /\ all[k].account = PayableAccount /\ all[k].debit > 0
        /\ all[n + k].account = PayableAccount /\ all[n + k].credit > 0
    BY <1>2, <1>3, <2>1, <2>2
  <2> QED BY <1>4, <2>2, <2>3 DEF Sided
<1> DEFINE I == (n + 1) .. m
           B == 1 .. n
           there == [k \in I |-> k - n]
           back == [k \in B |-> k + n]
           v == [k \in I |-> -amount[k - n]]
<1>6. amount \in Seq(Int) /\ Len(amount) = n /\ Total(amount) = LinesTotal(lines)
  <2>1. amount \in Seq(Nat)
    BY LinesTotalIs
  <2>2. Len(amount) = n /\ Total(amount) = LinesTotal(lines)
    BY <1>1 DEF LinesTotal
  <2> HIDE DEF amount
  <2> QED BY <2>1, <2>2, NaturalRows
<1>7. \A k \in 1 .. n : amount[k] = lines[k].amount /\ amount[k] \in Int
  BY <1>1, <1>2
<1>8. Counted(f, m, I, v)
  <2>1. \A k \in 1 .. m : k \in 1 .. n \/ k \in I
    OBVIOUS
  <2>2. ASSUME NEW k \in 1 .. m PROVE f[k] = IF k \in I THEN v[k] ELSE 0
    <3>1. CASE k \in I
      <4>1. k - n \in 1 .. n /\ all[k].account = PayableAccount /\ all[k].debit = 0
            /\ all[k].credit = lines[k - n].amount
        BY <1>3, <3>1
      <4>2. f[k] = 0 - lines[k - n].amount
        BY <1>3, <4>1
      <4>3. v[k] = -amount[k - n] /\ amount[k - n] = lines[k - n].amount /\ amount[k - n] \in Int
        BY <1>7, <3>1, <4>1
      <4> QED BY <3>1, <4>2, <4>3
    <3>2. CASE k \notin I
      <4>1. k \in 1 .. n /\ all[k].account # PayableAccount
        BY <1>3, <1>5, <2>1, <3>2
      <4> QED BY <1>3, <3>2, <4>1
    <3> QED BY <3>1, <3>2
  <2>3. f = [k \in 1 .. m |-> f[k]]
    BY <1>3
  <2> HIDE DEF f, v, I
  <2> QED BY <2>2, <2>3 DEF Counted
<1>9. Counted(less, n, B, less)
  BY DEF Counted
<1>10. Inverses(there, back, I, B)
  BY DEF Inverses
<1>11. /\ I \subseteq 1 .. m /\ B \subseteq 1 .. n
       /\ \A k \in I : v[k] = less[there[k]]
       /\ \A k \in B : less[k] \in Int
  <2>1. \A k \in I : k - n \in 1 .. n
    OBVIOUS
  <2>2. I \subseteq 1 .. m
    BY <1>3
  <2>3. \A k \in 1 .. n : less[k] = -amount[k]
    OBVIOUS
  <2>4. \A k \in I : v[k] = -amount[k - n] /\ there[k] = k - n
    OBVIOUS
  <2> HIDE DEF I, v, less, there, amount
  <2> QED BY <1>7, <2>1, <2>2, <2>3, <2>4
<1>12. less = [k \in 1 .. n |-> less[k]] /\ \A k \in 1 .. n : less[k] = -amount[k]
  OBVIOUS
<1>14. Effect(all, PayableAccount) = Total(f)
  BY DEF Effect, NetDebit
<1> HIDE DEF f, less, I, B, there, back, v, amount
<1>13. Rearranged(f, m, I, v, less, n, B, less, there, back)
  BY <1>3, <1>8, <1>9, <1>10, <1>11 DEF Rearranged
<1>15. Total(f) = Total(less)
  BY <1>13, Reindexed
<1>16. Total(less) = -Total(amount)
  <2>1. \A k \in 1 .. n : less[k] \in Int
    BY <1>7, <1>12
  <2>2. less \in Seq(Int) /\ Len(less) = Len(amount)
    BY <1>6, <1>12, <2>1, SequenceIs
  <2>3. \A k \in 1 .. Len(amount) : less[k] = -amount[k]
    BY <1>6, <1>12
  <2> QED BY <1>6, <2>2, <2>3, TotalNegate
<1> QED BY <1>6, <1>14, <1>15, <1>16 DEF all

\* The total of what the entries of some documents say, each document having
\* one entry, is the total of what the documents say.
EntriesOf(left, source, B, E) ==
    left = [i \in DOMAIN entries |->
              IF entries[i].source = source /\ entries[i].doc \in B THEN E[i] ELSE 0]
PostedOnce(source, m, B, f, E) ==
    /\ m \in Nat /\ B \subseteq 1 .. m /\ \A b \in B : f[b] \in Int
    /\ \A b \in B : \E i \in PostingsOf(source, b) : PostingsOf(source, b) = {i}
    /\ \A i \in DOMAIN entries :
          entries[i].source = source /\ entries[i].doc \in B => E[i] = f[entries[i].doc]

LEMMA DocumentTotals ==
    ASSUME JournalInv, NEW source, NEW m, NEW B, NEW f, NEW E, PostedOnce(source, m, B, f, E),
           NEW left, EntriesOf(left, source, B, E), NEW right, Counted(right, m, B, f)
    PROVE  Total(left) = Total(right) /\ Total(left) \in Int
<1>1. PICK n \in Nat : DOMAIN entries = 1 .. n
  BY DEF JournalInv, TypeOK
<1> DEFINE I == {i \in 1 .. n : entries[i].source = source /\ entries[i].doc \in B}
           doc == [i \in I |-> entries[i].doc]
           entry == [b \in B |-> CHOOSE i : PostingsOf(source, b) = {i}]
<1>2. Counted(left, n, I, E)
  <2>1. left = [i \in 1 .. n |-> IF entries[i].source = source /\ entries[i].doc \in B
                                 THEN E[i] ELSE 0]
    BY <1>1 DEF EntriesOf
  <2> QED BY <2>1 DEF Counted
<1>3. ASSUME NEW b \in B PROVE entry[b] \in I /\ doc[entry[b]] = b
  <2>1. \E i : PostingsOf(source, b) = {i}
    BY DEF PostedOnce
  <2>2. PostingsOf(source, b) = {entry[b]}
    BY <2>1
  <2>3. PICK i : i = entry[b]
    OBVIOUS
  <2> HIDE DEF entry
  <2>4. i \in DOMAIN entries /\ entries[i].source = source /\ entries[i].doc = b
    BY <2>2, <2>3 DEF PostingsOf
  <2> QED BY <1>1, <2>3, <2>4
<1>4. ASSUME NEW i \in I PROVE doc[i] \in B /\ entry[doc[i]] = i
  <2>1. PICK b \in B : b = entries[i].doc /\ i \in PostingsOf(source, b)
    BY <1>1 DEF PostingsOf
  <2>2. \E j : PostingsOf(source, b) = {j}
    BY DEF PostedOnce
  <2>3. PostingsOf(source, b) = {entry[b]}
    BY <2>2
  <2> HIDE DEF entry
  <2> QED BY <2>1, <2>3
<1>5. \A i \in I : E[i] = f[doc[i]]
  BY <1>1 DEF PostedOnce
<1>6. I \subseteq 1 .. n
  OBVIOUS
<1> HIDE DEF I, doc, entry
<1>7. Inverses(doc, entry, I, B)
  BY <1>3, <1>4 DEF Inverses
<1>8. Rearranged(left, n, I, E, right, m, B, f, doc, entry)
  BY <1>2, <1>5, <1>6, <1>7 DEF Rearranged, PostedOnce
<1> QED BY <1>8, Reindexed

\* What an entry of a document puts on 2010.
LEMMA EffectsAre ==
    ASSUME BooksInv, OnlyDocumentsOwe, NEW i \in DOMAIN entries
    PROVE  LET e == Effect(entries[i].lines, PayableAccount)
               d == entries[i].doc
           IN  /\ FromBill(i) => e = -BillTotal(d)
               /\ FromCheck(i) => e = Total(checks[d].allocs)
               /\ FromCredit(i) => e = credits[d].total
<1>1. /\ PayablesAssumption /\ bills \in Seq(Bills) /\ checks \in Seq(Checks)
      /\ credits \in Seq(Credits_) /\ MaxBills \in Nat /\ BankAccounts \subseteq Accounts
  BY DEF BooksInv, APInv, Tables, PayablesAssumption
<1>2. Sided(entries[i].lines)
  <2>1. CASE OnPayable(i) = {}
    BY <2>1 DEF OnPayable, Sided
  <2>2. CASE OnPayable(i) # {}
    BY <2>2 DEF OnlyDocumentsOwe, OnPayable, Sided
  <2> QED BY <2>1, <2>2
<1>3. ASSUME FromBill(i)
      PROVE  Effect(entries[i].lines, PayableAccount) = -BillTotal(entries[i].doc)
  <2>1. PICK b \in DOMAIN bills : b = entries[i].doc /\ entries[i].lines = AccrualLines(bills[b].lines)
    BY <1>3 DEF FromBill
  <2>2. bills[b].lines \in Seq(Allocations)
    <3>1. bills[b] \in Bills
      BY <1>1
    <3> QED BY <3>1, BillFields
  <2>3. PICK lines \in Seq(Allocations) : lines = bills[b].lines
    BY <2>2
  <2>4. Effect(AccrualLines(lines), PayableAccount) = -LinesTotal(lines)
    BY <1>1, <1>2, <2>1, <2>3, AccrualEffect
  <2> QED BY <2>1, <2>3, <2>4 DEF BillTotal
<1>4. ASSUME FromCheck(i)
      PROVE  Effect(entries[i].lines, PayableAccount) = Total(checks[entries[i].doc].allocs)
  <2>1. PICK c \in DOMAIN checks :
          /\ c = entries[i].doc
          /\ entries[i].lines = SettlementLines(checks[c].bank, Total(checks[c].allocs))
    BY <1>4 DEF FromCheck
  <2>2. checks[c].bank \in Accounts /\ checks[c].allocs \in [BillIds -> Nat]
    <3>1. checks[c] \in Checks
      BY <1>1
    <3> QED BY <1>1, <3>1, CheckFields
  <2>3. checks[c].allocs \in Seq(Nat)
    BY <1>1, <2>2 DEF BillIds
  <2>4. PICK account \in Accounts, amount \in Nat :
          account = checks[c].bank /\ amount = Total(checks[c].allocs)
    BY <2>2, <2>3, TotalOfNaturals
  <2>5. Effect(SettlementLines(account, amount), PayableAccount) = amount
    BY <1>1, <1>2, <2>1, <2>4, SettlementEffect
  <2> QED BY <2>1, <2>4, <2>5
<1>5. ASSUME FromCredit(i)
      PROVE  Effect(entries[i].lines, PayableAccount) = credits[entries[i].doc].total
  <2>1. PICK c \in DOMAIN credits, account \in Accounts :
          c = entries[i].doc /\ entries[i].lines = SettlementLines(account, credits[c].total)
    BY <1>5 DEF FromCredit
  <2>2. PICK amount \in Nat : amount = credits[c].total
    BY CreditIs DEF BooksInv
  <2>3. Effect(SettlementLines(account, amount), PayableAccount) = amount
    BY <1>1, <1>2, <2>1, <2>2, SettlementEffect
  <2> QED BY <2>1, <2>2, <2>3
<1> QED BY <1>3, <1>4, <1>5

\* An entry of a document stands when the document is in force.
LEMMA StandsInForce ==
    ASSUME BooksInv, DocumentsStand, NEW i \in DOMAIN entries
    PROVE  /\ FromBill(i) => (Stands[i] <=> bills[entries[i].doc].status \in Posted)
           /\ FromCheck(i) => (Stands[i] <=> checks[entries[i].doc].status = "printed")
           /\ FromCredit(i) => (Stands[i] <=> credits[entries[i].doc].status # "voided")
<1>1. ASSUME FromBill(i) PROVE Stands[i] <=> bills[entries[i].doc].status \in Posted
  <2>1. PICK b \in DOMAIN bills : b = entries[i].doc /\ i \in PostingsOf("bill", b)
    BY <1>1 DEF FromBill, PostingsOf
  <2>2. Stands[i] <=> bills[b].status # "voided"
    BY <1>1, <2>1 DEF DocumentsStand, FromBill
  <2>3. bills[b].status \in Posted \cup {"voided"}
    <3>1. BillMatch(b)
      BY DEF BooksInv, APInv, Matches
    <3> QED BY <2>1, <3>1 DEF BillMatch, PostingsMatch
  <2> QED BY <2>1, <2>2, <2>3 DEF Posted, Payable
<1>2. ASSUME FromCheck(i) PROVE Stands[i] <=> checks[entries[i].doc].status = "printed"
  <2>1. PICK c \in DOMAIN checks : c = entries[i].doc
    BY <1>2 DEF FromCheck
  <2>2. Stands[i] <=> checks[c].status # "voided"
    BY <1>2, <2>1 DEF DocumentsStand, FromCheck
  <2>3. checks[c].status \in {"printed", "voided"}
    <3>1. checks[c] \in Checks
      BY DEF BooksInv, APInv, Tables
    <3> QED BY <3>1, CheckFields
  <2> QED BY <2>1, <2>2, <2>3
<1>3. ASSUME FromCredit(i) PROVE Stands[i] <=> credits[entries[i].doc].status # "voided"
  BY <1>3 DEF FromCredit, DocumentsStand
<1> QED BY <1>1, <1>2, <1>3

\* What the documents in force put on 2010.
Charged == [b \in DOMAIN bills |-> IF bills[b].status \in Posted THEN -BillTotal(b) ELSE 0]
Settled == [c \in DOMAIN checks |->
              IF checks[c].status = "printed" THEN Total(checks[c].allocs) ELSE 0]
Credited == [c \in DOMAIN credits |->
               IF credits[c].status # "voided" THEN credits[c].total ELSE 0]

LEMMA BalanceOfDocuments ==
    ASSUME BooksInv, DocumentsStand, OnlyDocumentsOwe
    PROVE  /\ Total(Charged) \in Int /\ Total(Settled) \in Int /\ Total(Credited) \in Int
           /\ Balance(PayableAccount) = Total(Charged) + Total(Settled) + Total(Credited)
<1>1. /\ JournalInv /\ APInv /\ bills \in Seq(Bills) /\ checks \in Seq(Checks)
      /\ credits \in Seq(Credits_) /\ MaxBills \in Nat
  BY DEF BooksInv, APInv, Tables, PayablesAssumption
<1>2. PICK n \in Nat : n = Len(entries) /\ DOMAIN entries = 1 .. n
  BY <1>1 DEF JournalInv, TypeOK
<1>3. PICK nb \in Nat, nc \in Nat, nd \in Nat :
        DOMAIN bills = 1 .. nb /\ DOMAIN checks = 1 .. nc /\ DOMAIN credits = 1 .. nd
  BY <1>1
<1> DEFINE E == [i \in DOMAIN entries |-> Effect(entries[i].lines, PayableAccount)]
           Z == [i \in DOMAIN entries |-> IF ~IsReversal(i) /\ Stands[i]
                                          THEN Effect(entries[i].lines, PayableAccount) ELSE 0]
           B == {b \in DOMAIN bills : bills[b].status \in Posted}
           C == {c \in DOMAIN checks : checks[c].status = "printed"}
           D == {d \in DOMAIN credits : credits[d].status # "voided"}
           charge == [b \in DOMAIN bills |-> -BillTotal(b)]
           pay == [c \in DOMAIN checks |-> Total(checks[c].allocs)]
           credit == [d \in DOMAIN credits |-> credits[d].total]
           Of(source, S) == [i \in DOMAIN entries |->
                               IF entries[i].source = source /\ entries[i].doc \in S
                               THEN E[i] ELSE 0]
           ZB == Of("bill", B)
           ZC == Of("vendor_check", C)
           ZD == Of("vendor_credit", D)
<1>4. Balance(PayableAccount) = Total(Z) /\ \A i \in DOMAIN entries : E[i] \in Int
  BY <1>1, BalanceIsStanding
<1>5. \A i \in DOMAIN entries : /\ FromDocument(i)
                                /\ FromBill(i) => E[i] = charge[entries[i].doc]
                                /\ FromCheck(i) => E[i] = pay[entries[i].doc]
                                /\ FromCredit(i) => E[i] = credit[entries[i].doc]
  <2>1. SUFFICES ASSUME NEW i \in DOMAIN entries
                 PROVE  /\ FromDocument(i)
                        /\ FromBill(i) => E[i] = charge[entries[i].doc]
                        /\ FromCheck(i) => E[i] = pay[entries[i].doc]
                        /\ FromCredit(i) => E[i] = credit[entries[i].doc]
    OBVIOUS
  <2>2. /\ FromBill(i) => entries[i].doc \in DOMAIN bills
        /\ FromCheck(i) => entries[i].doc \in DOMAIN checks
        /\ FromCredit(i) => entries[i].doc \in DOMAIN credits
    BY DEF FromBill, FromCheck, FromCredit
  <2> QED BY <2>2, EffectsAre DEF BooksInv
<1>6. \A i \in DOMAIN entries :
         /\ entries[i].source = "bill" => FromBill(i)
         /\ entries[i].source = "vendor_check" => FromCheck(i)
         /\ entries[i].source = "vendor_credit" => FromCredit(i)
         /\ IsReversal(i) => entries[i].source = "reversal"
         /\ ~IsReversal(i) => entries[i].source \in {"bill", "vendor_check", "vendor_credit"}
         /\ entries[i].source = "bill" => entries[i].doc \in DOMAIN bills
         /\ entries[i].source = "vendor_check" => entries[i].doc \in DOMAIN checks
         /\ entries[i].source = "vendor_credit" => entries[i].doc \in DOMAIN credits
  BY <1>5 DEF FromDocument, FromBill, FromCheck, FromCredit, IsReversal
<1>7. \A b \in DOMAIN bills : charge[b] \in Int
  <2>1. SUFFICES ASSUME NEW b \in DOMAIN bills PROVE -BillTotal(b) \in Int
    OBVIOUS
  <2>2. bills[b].lines \in Seq(Allocations)
    <3>1. bills[b] \in Bills
      BY <1>1
    <3> QED BY <3>1, BillFields
  <2>3. PICK x \in Nat : x = BillTotal(b)
    BY <2>2, LinesTotalIs DEF BillTotal
  <2> QED BY <2>3
<1>8. \A c \in DOMAIN checks : pay[c] \in Int
  <2>1. SUFFICES ASSUME NEW c \in DOMAIN checks PROVE Total(checks[c].allocs) \in Int
    OBVIOUS
  <2>2. checks[c].allocs \in Seq(Nat)
    <3>1. checks[c] \in Checks
      BY <1>1
    <3>2. checks[c].allocs \in [BillIds -> Nat]
      BY <3>1, CheckFields
    <3> QED BY <1>1, <3>2 DEF BillIds
  <2>3. Total(checks[c].allocs) \in Nat
    BY <2>2, TotalOfNaturals
  <2> QED BY <2>3
<1>9. \A d \in DOMAIN credits : credit[d] \in Int
  BY <1>1, CreditIs
<1>10. PostedOnce("bill", nb, B, charge, E)
  <2>1. \A b \in B : \E i \in PostingsOf("bill", b) : PostingsOf("bill", b) = {i}
    BY <1>1 DEF APInv, Matches, BillMatch, PostingsMatch
  <2>2. B \subseteq 1 .. nb /\ \A b \in B : b \in DOMAIN bills
    BY <1>3
  <2> HIDE DEF B, charge, E
  <2> QED BY <1>5, <1>6, <1>7, <2>1, <2>2 DEF PostedOnce
<1>11. PostedOnce("vendor_check", nc, C, pay, E)
  <2>1. \A c \in C : \E i \in PostingsOf("vendor_check", c) : PostingsOf("vendor_check", c) = {i}
    BY <1>1 DEF APInv, Matches, CheckMatch, PostingsMatch
  <2>2. C \subseteq 1 .. nc /\ \A c \in C : c \in DOMAIN checks
    BY <1>3
  <2> HIDE DEF C, pay, E
  <2> QED BY <1>5, <1>6, <1>8, <2>1, <2>2 DEF PostedOnce
<1>12. PostedOnce("vendor_credit", nd, D, credit, E)
  <2>1. \A d \in D : \E i \in PostingsOf("vendor_credit", d) : PostingsOf("vendor_credit", d) = {i}
    BY <1>1 DEF APInv, Matches, CreditMatch, PostingsMatch
  <2>2. D \subseteq 1 .. nd /\ \A d \in D : d \in DOMAIN credits
    BY <1>3
  <2> HIDE DEF D, credit, E
  <2> QED BY <1>5, <1>6, <1>9, <2>1, <2>2 DEF PostedOnce
<1>13. /\ EntriesOf(ZB, "bill", B, E) /\ EntriesOf(ZC, "vendor_check", C, E)
       /\ EntriesOf(ZD, "vendor_credit", D, E)
  BY DEF EntriesOf
<1>14. /\ Counted(Charged, nb, B, charge) /\ Counted(Settled, nc, C, pay)
       /\ Counted(Credited, nd, D, credit)
  <2>1. Counted(Charged, nb, B, charge)
    BY <1>3 DEF Counted, Charged
  <2>2. Counted(Settled, nc, C, pay)
    BY <1>3 DEF Counted, Settled
  <2>3. Counted(Credited, nd, D, credit)
    BY <1>3 DEF Counted, Credited
  <2> QED BY <2>1, <2>2, <2>3
<1>15. ASSUME NEW i \in 1 .. n
       PROVE  /\ ZB[i] \in Int /\ ZC[i] \in Int /\ ZD[i] \in Int
              /\ Z[i] = (ZB[i] + ZC[i]) + ZD[i]
  <2>1. i \in DOMAIN entries
    BY <1>2
  <2>2. /\ entries[i].source = "bill" => (Stands[i] <=> entries[i].doc \in B)
        /\ entries[i].source = "vendor_check" => (Stands[i] <=> entries[i].doc \in C)
        /\ entries[i].source = "vendor_credit" => (Stands[i] <=> entries[i].doc \in D)
    BY <1>6, <2>1, StandsInForce
  <2>3. PICK x \in Int : x = E[i] /\ x = Effect(entries[i].lines, PayableAccount)
    BY <1>4, <2>1
  <2>4. /\ Z[i] = IF ~IsReversal(i) /\ Stands[i] THEN x ELSE 0
        /\ ZB[i] = IF entries[i].source = "bill" /\ entries[i].doc \in B THEN x ELSE 0
        /\ ZC[i] = IF entries[i].source = "vendor_check" /\ entries[i].doc \in C THEN x ELSE 0
        /\ ZD[i] = IF entries[i].source = "vendor_credit" /\ entries[i].doc \in D THEN x ELSE 0
    BY <2>1, <2>3
  <2> HIDE DEF Z, ZB, ZC, ZD, B, C, D
  <2>5. CASE IsReversal(i)
    BY <1>6, <2>1, <2>4, <2>5
  <2>6. CASE ~IsReversal(i) /\ entries[i].source = "bill"
    BY <2>2, <2>4, <2>6
  <2>7. CASE ~IsReversal(i) /\ entries[i].source = "vendor_check"
    BY <2>2, <2>4, <2>7
  <2>8. CASE ~IsReversal(i) /\ entries[i].source = "vendor_credit"
    BY <2>2, <2>4, <2>8
  <2> QED BY <1>6, <2>1, <2>5, <2>6, <2>7, <2>8
<1>16. /\ Z = [i \in 1 .. n |-> Z[i]] /\ ZB = [i \in 1 .. n |-> ZB[i]]
       /\ ZC = [i \in 1 .. n |-> ZC[i]] /\ ZD = [i \in 1 .. n |-> ZD[i]]
  BY <1>2
<1> HIDE DEF E, Z, ZB, ZC, ZD, B, C, D, charge, pay, credit
<1>17. Total(ZB) = Total(Charged) /\ Total(ZB) \in Int
  BY <1>1, <1>10, <1>13, <1>14, DocumentTotals
<1>18. Total(ZC) = Total(Settled) /\ Total(ZC) \in Int
  BY <1>1, <1>11, <1>13, <1>14, DocumentTotals
<1>19. Total(ZD) = Total(Credited) /\ Total(ZD) \in Int
  BY <1>1, <1>12, <1>13, <1>14, DocumentTotals
<1>20. Total(Z) = (Total(ZB) + Total(ZC)) + Total(ZD)
  <2> DEFINE S == [i \in 1 .. n |-> ZB[i] + ZC[i]]
  <2>1. /\ ZB \in Seq(Int) /\ Len(ZB) = n /\ ZC \in Seq(Int) /\ Len(ZC) = n
        /\ ZD \in Seq(Int) /\ Len(ZD) = n
    BY <1>15, <1>16, SequenceIs
  <2>2. /\ S = [i \in 1 .. n |-> S[i]] /\ \A i \in 1 .. n : S[i] = ZB[i] + ZC[i] /\ S[i] \in Int
    BY <1>15
  <2> HIDE DEF S
  <2>3. S \in Seq(Int) /\ Len(S) = n
    BY <2>2, SequenceIs
  <2>4. \A i \in 1 .. n : Z[i] = S[i] + ZD[i] /\ Z[i] \in Int
    BY <1>15, <2>2
  <2>5. Z \in Seq(Int) /\ Len(Z) = n
    BY <1>16, <2>4, SequenceIs
  <2>6. Total(S) = Total(ZB) + Total(ZC)
    <3>1. Len(ZC) = Len(ZB) /\ Len(S) = Len(ZB) /\ \A i \in 1 .. Len(ZB) : S[i] = ZB[i] + ZC[i]
      BY <2>1, <2>2, <2>3
    <3> QED BY <2>1, <2>3, <3>1, TotalAdd
  <2>7. Total(Z) = Total(S) + Total(ZD)
    <3>1. Len(ZD) = Len(S) /\ Len(Z) = Len(S) /\ \A i \in 1 .. Len(S) : Z[i] = S[i] + ZD[i]
      BY <2>1, <2>3, <2>4, <2>5
    <3> QED BY <2>1, <2>3, <2>5, <3>1, TotalAdd
  <2> QED BY <2>6, <2>7
<1> QED BY <1>4, <1>17, <1>18, <1>19, <1>20

\* What was put on bills, bill by bill, is what checks in force and credits
\* put on them, document by document.
Spent == [c \in DOMAIN credits |-> Total(credits[c].applied)]
PaidOn == [b \in DOMAIN bills |-> PaidBy(b)]

LEMMA PaymentsAgree ==
    ASSUME APInv
    PROVE  /\ Total(PaidOn) \in Int /\ Total(Settled) \in Int /\ Total(Spent) \in Int
           /\ Total(PaidOn) = Total(Settled) + Total(Spent)
<1>1. /\ bills \in Seq(Bills) /\ checks \in Seq(Checks) /\ credits \in Seq(Credits_)
      /\ Tables /\ PaidRows
  BY DEF APInv, Tables
<1>2. PICK n \in Nat, m \in Nat : /\ n = Len(bills) /\ m = MaxBills /\ n <= m
                                  /\ DOMAIN bills = 1 .. n /\ BillIds = 1 .. m
  BY <1>1 DEF Tables, PayablesAssumption, BillIds
<1>3. PICK nc \in Nat, nd \in Nat :
        /\ DOMAIN checks = 1 .. nc /\ DOMAIN credits = 1 .. nd
        /\ Len(checks) = nc /\ Len(credits) = nd
  BY <1>1
<1> DEFINE P == [b \in 1 .. m |-> Printed(b)]
           A == [b \in 1 .. m |-> Applied(b)]
           byCheck == [b \in 1 .. m |-> Total(Printed(b))]
           byCredit == [b \in 1 .. m |-> Total(Applied(b))]
           all == [b \in 1 .. m |-> PaidBy(b)]
<1>4. ASSUME NEW b \in 1 .. m
      PROVE  /\ Printed(b) = [c \in 1 .. nc |-> Printed(b)[c]]
             /\ Applied(b) = [d \in 1 .. nd |-> Applied(b)[d]]
             /\ \A c \in 1 .. nc : Printed(b)[c] \in Nat
             /\ \A d \in 1 .. nd : Applied(b)[d] \in Nat
             /\ Total(Printed(b)) \in Nat /\ Total(Applied(b)) \in Nat
             /\ PaidBy(b) = Total(Printed(b)) + Total(Applied(b))
  <2>1. /\ Printed(b) \in Seq(Nat) /\ Len(Printed(b)) = nc
        /\ Applied(b) \in Seq(Nat) /\ Len(Applied(b)) = nd
        /\ Total(Printed(b)) \in Nat /\ Total(Applied(b)) \in Nat
        /\ PaidBy(b) = Total(Printed(b)) + Total(Applied(b))
    BY <1>1, <1>2, <1>3, PaidByIs
  <2>2. PICK f \in Seq(Nat), g \in Seq(Nat) : f = Printed(b) /\ g = Applied(b)
    BY <2>1
  <2>3. /\ Len(f) = nc /\ Len(g) = nd
    BY <2>1, <2>2
  <2>4. f = [c \in 1 .. nc |-> f[c]] /\ \A c \in 1 .. nc : f[c] \in Nat
    BY <2>3
  <2>5. g = [d \in 1 .. nd |-> g[d]] /\ \A d \in 1 .. nd : g[d] \in Nat
    BY <2>3
  <2> QED BY <2>1, <2>2, <2>4, <2>5
<1>5. Grid(P, m, nc) /\ Grid(A, m, nd)
  <2>1. \A b \in 1 .. m : P[b] = Printed(b) /\ A[b] = Applied(b)
    OBVIOUS
  <2> HIDE DEF P, A, byCheck, byCredit, all
  <2>2. \A b \in 1 .. m : \A c \in 1 .. nc : P[b][c] \in Nat
    BY <1>4, <2>1
  <2>3. \A b \in 1 .. m : \A d \in 1 .. nd : A[b][d] \in Nat
    BY <1>4, <2>1
  <2> QED BY <2>2, <2>3 DEF Grid
<1>6. RowSums(byCheck, P, m, nc) /\ RowSums(byCredit, A, m, nd)
  <2>1. \A b \in 1 .. m : [c \in 1 .. nc |-> P[b][c]] = Printed(b)
    BY <1>4
  <2>2. \A b \in 1 .. m : [d \in 1 .. nd |-> A[b][d]] = Applied(b)
    BY <1>4
  <2>3. /\ byCheck = [b \in 1 .. m |-> Total([c \in 1 .. nc |-> P[b][c]])]
        /\ byCredit = [b \in 1 .. m |-> Total([d \in 1 .. nd |-> A[b][d]])]
    BY <2>1, <2>2
  <2> HIDE DEF P, A, byCheck, byCredit
  <2> QED BY <2>3 DEF RowSums
<1>7. ColumnSums(Settled, P, m, nc)
  <2>1. ASSUME NEW c \in 1 .. nc
        PROVE  Total([b \in 1 .. m |-> P[b][c]])
                 = IF checks[c].status = "printed" THEN Total(checks[c].allocs) ELSE 0
    <3>1. checks[c].allocs \in [1 .. m -> Nat]
      <4>1. checks[c] \in Checks
        BY <1>1, <1>3
      <4> QED BY <1>2, <4>1, CheckFields
    <3>2. \A b \in 1 .. m :
             P[b][c] = IF checks[c].status = "printed" THEN checks[c].allocs[b] ELSE 0
      BY <1>3 DEF Printed
    <3> HIDE DEF P
    <3>3. CASE checks[c].status = "printed"
      <4>1. [b \in 1 .. m |-> P[b][c]] = checks[c].allocs
        BY <3>1, <3>2, <3>3
      <4> QED BY <3>3, <4>1
    <3>4. CASE checks[c].status # "printed"
      <4>1. [b \in 1 .. m |-> P[b][c]] = [b \in 1 .. m |-> 0]
        BY <3>2, <3>4
      <4> QED BY <3>4, <4>1, TotalOfZeros
    <3> QED BY <3>3, <3>4
  <2> HIDE DEF P
  <2>2. Settled = [c \in 1 .. nc |-> Total([b \in 1 .. m |-> P[b][c]])]
    BY <1>3, <2>1 DEF Settled
  <2> QED BY <2>2 DEF ColumnSums
<1>8. ColumnSums(Spent, A, m, nd)
  <2>1. ASSUME NEW d \in 1 .. nd
        PROVE  Total([b \in 1 .. m |-> A[b][d]]) = Total(credits[d].applied)
    <3>1. credits[d].applied \in [1 .. m -> Nat]
      <4>1. credits[d] \in Credits_
        BY <1>1, <1>3
      <4> QED BY <1>2, <4>1, CreditFields
    <3>2. \A b \in 1 .. m : A[b][d] = credits[d].applied[b]
      BY <1>3 DEF Applied
    <3> HIDE DEF A
    <3>3. [b \in 1 .. m |-> A[b][d]] = credits[d].applied
      BY <3>1, <3>2
    <3> QED BY <3>3
  <2> HIDE DEF A
  <2>2. Spent = [d \in 1 .. nd |-> Total([b \in 1 .. m |-> A[b][d]])]
    BY <1>3, <2>1 DEF Spent
  <2> QED BY <2>2 DEF ColumnSums
<1>9. /\ all = [b \in 1 .. m |-> all[b]]
      /\ \A b \in 1 .. m : /\ all[b] = PaidBy(b) /\ byCheck[b] = Total(Printed(b))
                           /\ byCredit[b] = Total(Applied(b))
      /\ PaidOn = [b \in 1 .. n |-> PaidOn[b]] /\ \A b \in 1 .. n : PaidOn[b] = PaidBy(b)
  BY <1>2 DEF PaidOn
<1> HIDE DEF P, A, byCheck, byCredit, all
<1>10. /\ byCheck \in Seq(Int) /\ Len(byCheck) = m /\ Total(byCheck) \in Int
       /\ Total(Settled) = Total(byCheck)
  BY <1>5, <1>6, <1>7, SumsSwap
<1>11. /\ byCredit \in Seq(Int) /\ Len(byCredit) = m /\ Total(byCredit) \in Int
       /\ Total(Spent) = Total(byCredit)
  BY <1>5, <1>6, <1>8, SumsSwap
<1>12. \A b \in 1 .. m : all[b] \in Int /\ all[b] = byCheck[b] + byCredit[b]
  <2>1. ASSUME NEW b \in 1 .. m PROVE all[b] \in Int /\ all[b] = byCheck[b] + byCredit[b]
    <3>1. PICK x \in Nat, y \in Nat : x = Total(Printed(b)) /\ y = Total(Applied(b))
      BY <1>4
    <3>2. all[b] = x + y /\ byCheck[b] = x /\ byCredit[b] = y
      BY <1>4, <1>9, <3>1
    <3> QED BY <3>2
  <2> QED BY <2>1
<1>13. Total(all) = Total(byCheck) + Total(byCredit)
  <2>1. all \in Seq(Int) /\ Len(all) = m
    BY <1>9, <1>12, SequenceIs
  <2>2. Len(byCredit) = Len(byCheck) /\ Len(all) = Len(byCheck)
        /\ \A b \in 1 .. Len(byCheck) : all[b] = byCheck[b] + byCredit[b]
    BY <1>10, <1>11, <1>12, <2>1
  <2> QED BY <1>10, <1>11, <2>1, <2>2, TotalAdd
<1>14. Total(all) = Total(PaidOn) /\ Total(PaidOn) \in Int
  <2>1. \A b \in 1 .. n : PaidOn[b] \in Int /\ all[b] = PaidOn[b]
    <3>1. \A b \in 1 .. n : b \in 1 .. m
      BY <1>2
    <3> QED BY <1>9, <1>12, <3>1
  <2>2. \A b \in 1 .. m : b > n => all[b] = 0
    <3>1. \A b \in 1 .. m : b > n => b \in BillIds \ DOMAIN bills
      BY <1>2
    <3> QED BY <1>1, <1>9, <3>1 DEF PaidRows
  <2>3. Prolongs(all, m, PaidOn, n)
    BY <1>2, <1>9, <2>1, <2>2 DEF Prolongs
  <2> QED BY <2>3, TotalExtends
<1> QED BY <1>10, <1>11, <1>13, <1>14

\* What is owed and what remains of credits, as the subledger has it.
Owing == [b \in DOMAIN bills |-> IF bills[b].status \in Posted THEN Owed(b) ELSE 0]
Remaining == [c \in DOMAIN credits |->
                IF credits[c].status # "voided" THEN credits[c].remaining ELSE 0]

\* Charges less payments are what is owed.
LEMMA OwingIs ==
    ASSUME APInv
    PROVE  /\ Total(Owing) \in Int /\ Total(Charged) \in Int /\ Total(PaidOn) \in Int
           /\ Total(Owing) + Total(PaidOn) = -Total(Charged)
<1>1. bills \in Seq(Bills) /\ PaidRows
  BY DEF APInv, Tables
<1>2. PICK n \in Nat : DOMAIN bills = 1 .. n
  BY <1>1
<1> DEFINE charges == [b \in 1 .. n |-> -Charged[b]]
<1>3. ASSUME NEW b \in 1 .. n
      PROVE  /\ Owing[b] \in Int /\ PaidOn[b] \in Int /\ Charged[b] \in Int
             /\ -Charged[b] = Owing[b] + PaidOn[b] /\ -Charged[b] \in Int
  <2>1. /\ SettledIs(bills[b]) /\ bills[b] \in Bills /\ bills[b].paid = PaidBy(b)
    BY <1>1, <1>2 DEF PaidRows
  <2>2. bills[b].paid \in Nat /\ bills[b].lines \in Seq(Allocations)
        /\ bills[b].status \in Entered \cup Posted \cup {"voided"}
    BY <2>1, BillFields
  <2>3. PICK p \in Nat, t \in Nat : p = bills[b].paid /\ t = BillTotal(b)
    BY <2>2, LinesTotalIs DEF BillTotal
  <2>4. PaidOn[b] = p
    BY <1>2, <2>1, <2>3 DEF PaidOn
  <2>5. CASE bills[b].status \in Posted
    <3>1. Owing[b] = t - p /\ Charged[b] = -t
      BY <1>2, <2>3, <2>5 DEF Owing, Charged, Owed
    <3> QED BY <2>4, <3>1
  <2>6. CASE bills[b].status \notin Posted
    <3>1. Owing[b] = 0 /\ Charged[b] = 0
      BY <1>2, <2>6 DEF Owing, Charged
    <3>2. p = 0
      <4>1. bills[b].status \in Entered \cup {"approved", "voided"}
        BY <2>2, <2>6
      <4> QED BY <2>1, <2>3, <4>1 DEF SettledIs
    <3>3. PICK o, q, r : o = Owing[b] /\ q = PaidOn[b] /\ r = Charged[b]
      OBVIOUS
    <3>4. o = 0 /\ q = 0 /\ r = 0
      <4>1. o = 0
        BY <3>1, <3>3
      <4>2. q = 0
        BY <2>4, <3>2, <3>3
      <4>3. r = 0
        BY <3>1, <3>3
      <4> QED BY <4>1, <4>2, <4>3
    <3>5. o \in Int /\ q \in Int /\ r \in Int /\ -r = o + q /\ -r \in Int
      <4>1. o \in Int /\ q \in Int /\ r \in Int /\ o + q + r = 0
        BY <3>4
      <4> QED BY ONLY <4>1
    <3> QED BY <3>3, <3>5
  <2> QED BY <2>5, <2>6
<1>4. /\ Owing = [b \in 1 .. n |-> Owing[b]] /\ PaidOn = [b \in 1 .. n |-> PaidOn[b]]
      /\ Charged = [b \in 1 .. n |-> Charged[b]] /\ charges = [b \in 1 .. n |-> charges[b]]
      /\ \A b \in 1 .. n : charges[b] = -Charged[b]
  BY <1>2 DEF Owing, PaidOn, Charged
<1> HIDE DEF charges
<1>5. /\ Owing \in Seq(Int) /\ Len(Owing) = n /\ PaidOn \in Seq(Int) /\ Len(PaidOn) = n
      /\ Charged \in Seq(Int) /\ Len(Charged) = n /\ charges \in Seq(Int) /\ Len(charges) = n
  <2>1. \A b \in 1 .. n : charges[b] \in Int
    BY <1>3, <1>4
  <2> QED BY <1>3, <1>4, <2>1, SequenceIs
<1>6. Total(charges) = Total(Owing) + Total(PaidOn)
  <2>1. Len(PaidOn) = Len(Owing) /\ Len(charges) = Len(Owing)
        /\ \A b \in 1 .. Len(Owing) : charges[b] = Owing[b] + PaidOn[b]
    BY <1>3, <1>4, <1>5
  <2> QED BY <1>5, <2>1, TotalAdd
<1>7. Total(charges) = -Total(Charged)
  <2>1. Len(charges) = Len(Charged) /\ \A b \in 1 .. Len(Charged) : charges[b] = -Charged[b]
    BY <1>4, <1>5
  <2> QED BY <1>5, <2>1, TotalNegate
<1> QED BY <1>5, <1>6, <1>7, TotalType

\* Credits less what they paid are what remains.
LEMMA RemainingIs ==
    ASSUME APInv
    PROVE  /\ Total(Remaining) \in Int /\ Total(Spent) \in Int
           /\ Total(Credited) = Total(Remaining) + Total(Spent)
<1>1. credits \in Seq(Credits_) /\ CreditsConserved
  BY DEF APInv, Tables
<1>2. PICK n \in Nat : DOMAIN credits = 1 .. n
  BY <1>1
<1>3. ASSUME NEW d \in 1 .. n
      PROVE  /\ Remaining[d] \in Int /\ Spent[d] \in Int /\ Credited[d] \in Int
             /\ Credited[d] = Remaining[d] + Spent[d]
  <2>1. PICK r \in Nat, s \in Nat, t \in Nat :
          /\ r = credits[d].remaining /\ s = Total(credits[d].applied)
          /\ t = credits[d].total /\ r + s = t
    BY <1>2, CreditIs
  <2>2. credits[d].status = "voided" => r = t
    BY <1>1, <1>2, <2>1 DEF CreditsConserved
  <2>3. Spent[d] = s
    BY <1>2, <2>1 DEF Spent
  <2>4. CASE credits[d].status # "voided"
    <3>1. Remaining[d] = r /\ Credited[d] = t
      BY <1>2, <2>1, <2>4 DEF Remaining, Credited
    <3> QED BY <2>1, <2>3, <3>1
  <2>5. CASE credits[d].status = "voided"
    <3>1. Remaining[d] = 0 /\ Credited[d] = 0 /\ s = 0
      BY <1>2, <2>1, <2>2, <2>5 DEF Remaining, Credited
    <3> QED BY <2>3, <3>1
  <2> QED BY <2>4, <2>5
<1>4. /\ Remaining = [d \in 1 .. n |-> Remaining[d]] /\ Spent = [d \in 1 .. n |-> Spent[d]]
      /\ Credited = [d \in 1 .. n |-> Credited[d]]
  BY <1>2 DEF Remaining, Spent, Credited
<1>5. /\ Remaining \in Seq(Int) /\ Len(Remaining) = n /\ Spent \in Seq(Int) /\ Len(Spent) = n
      /\ Credited \in Seq(Int) /\ Len(Credited) = n
  BY <1>3, <1>4, SequenceIs
<1>6. Total(Credited) = Total(Remaining) + Total(Spent)
  <2>1. Len(Spent) = Len(Remaining) /\ Len(Credited) = Len(Remaining)
        /\ \A d \in 1 .. Len(Remaining) : Credited[d] = Remaining[d] + Spent[d]
    BY <1>3, <1>5
  <2> QED BY <1>5, <2>1, TotalAdd
<1> QED BY <1>5, <1>6, TotalType

\* The control account is what the subledger says.
LEMMA ControlAgrees == BooksInv => ControlAccountAgrees
<1> SUFFICES ASSUME BooksInv, DocumentsStand, OnlyDocumentsOwe
             PROVE  -Balance(PayableAccount) = Total(Owing) - Total(Remaining)
  BY DEF ControlAccountAgrees, Owing, Remaining
<1>1. APInv
  BY DEF BooksInv
<1>2. PICK owing \in Int, charged \in Int, paid \in Int, remaining \in Int, spent \in Int,
           settled \in Int, credited \in Int :
        /\ owing = Total(Owing) /\ charged = Total(Charged) /\ paid = Total(PaidOn)
        /\ remaining = Total(Remaining) /\ spent = Total(Spent) /\ settled = Total(Settled)
        /\ credited = Total(Credited)
  BY <1>1, BalanceOfDocuments, OwingIs, RemainingIs, PaymentsAgree
<1>3. /\ Balance(PayableAccount) = charged + settled + credited
      /\ paid = settled + spent
      /\ owing + paid = -charged
      /\ credited = remaining + spent
  BY <1>1, <1>2, BalanceOfDocuments, OwingIs, RemainingIs, PaymentsAgree
<1>4. -(charged + settled + credited) = owing - remaining
  BY <1>3
<1> QED BY <1>2, <1>3, <1>4

(***************************************************************************)
(* The theorems.                                                           *)
(***************************************************************************)
\* The rows of bills, checks, credits and work orders always have the columns
\* that the schema declares, in range.
THEOREM PayablesTyped == PayablesAssumption /\ APSpec => []APTypeOK
BY APInvariant, APImplies, PTL

\* However checks and credits pay the same bills, bills, checks and credits are
\* voided and users reverse entries in between: what a bill says has been paid,
\* in all and line by line, is what the documents in force put on it; a credit
\* is spent once; a document in force has one entry in the journal, a draft
\* none, and a voided document none that is not reversed.  And as long as users
\* reverse no entry of a document in force and only documents touch 2010, its
\* balance is what bills say is owed less what remains of credits.
THEOREM PayablesCorrect == PayablesAssumption /\ APSpec => []PayablesAgree
<1>1. BooksInv => PayablesAgree
  BY APImplies, ControlAgrees DEF BooksInv, PayablesAgree
<1> QED BY <1>1, BooksInvariant, PTL

\* A posted bill keeps what it was posted from, and voided documents stay so.
THEOREM PayablesFrozen == PayablesAssumption /\ APSpec => PostedDocumentsFrozen
<1>1. APInv /\ [APNext]_apVars =>
        [/\ \A b \in DOMAIN bills : bills[b].status \notin Entered =>
              /\ bills'[b].vendor = bills[b].vendor
              /\ bills'[b].wo = bills[b].wo
              /\ bills'[b].lines = bills[b].lines
              /\ bills'[b].status \notin Entered
              /\ bills[b].status = "voided" => bills'[b] = bills[b]
         /\ \A c \in DOMAIN checks : checks[c].status = "voided" => checks'[c] = checks[c]
         /\ \A c \in DOMAIN credits : credits[c].status = "voided" => credits'[c] = credits[c]
        ]_apVars
  BY BillsFrozen, ChecksFrozen, CreditsFrozen DEF FrozenBill
<1> QED BY <1>1, APInvariant, PTL DEF APSpec, PostedDocumentsFrozen

\* Whenever the bills of a work order come to another sum, its actual cost is
\* that sum in the same step.
THEOREM CostsFollowBills == PayablesAssumption /\ APSpec => CostFollowsBills
<1>1. APInv /\ [APNext]_apVars =>
        [\A w \in WorkOrders :
           WorkOrderTotal(bills', w) # WorkOrderTotal(bills, w)
             => actualCost'[w] = WorkOrderTotal(bills', w)]_apVars
  BY CostsFollow
<1> QED BY <1>1, APInvariant, PTL DEF APSpec, CostFollowsBills

\* Both: neither an edit, a payment nor a void disturbs what was posted, and
\* what vendors charged is what work orders cost.
THEOREM PayablesFollow == PayablesAssumption /\ APSpec => DocumentsFrozen
BY PayablesFrozen, CostsFollowBills DEF DocumentsFrozen

\* With payables posted and voided among reversals of users, the journal still
\* implements AppendOnlyLedger, and its entries stay balanced, paired and
\* reversible.
THEOREM PayablesRefine ==
    PayablesAssumption /\ APSpec =>
       IsAppendOnlyLedger /\ [](EntriesBalanced /\ ReversalsPaired /\ AlwaysReversible)
<1>1. APInit => Ledger!Init
  BY DEF APInit, Init, Ledger!Init
<1>2. APInv /\ [APNext]_apVars
        => [Ledger!Next]_([i \in DOMAIN entries |->
                     [effect |-> [a \in Accounts |-> Effect(entries[i].lines, a)],
                      undoneBy |-> entries[i].reversedBy]])
  BY APStep DEF BookOf
<1>3. APInv => EntriesBalanced /\ ReversalsPaired /\ AlwaysReversible
  BY JournalImplies DEF APInv
<1> QED BY <1>1, <1>2, <1>3, APInvariant, PTL DEF APSpec, IsAppendOnlyLedger, Ledger!Spec

(***************************************************************************)
(* Bills that recur.                                                       *)
(***************************************************************************)
\* What the history of template t says: the dates billed are past and within
\* its term, and what was billed and what remains is what was registered.
GeneratedIs(g) ==
    LET t == generated[g].template
    IN  /\ t \in DOMAIN templates /\ generated[g].due \in Dates
        /\ DayNumber(generated[g].due) < DayNumber(templates[t].due)
        /\ NotAfter(generated[g].due, templates[t].end)
        /\ generated[g].bill \in DOMAIN bills
        /\ bills[generated[g].bill].lines = templates[t].bill.lines

TermKept(t) ==
    templates[t].limited =>
        \E input \in TemplateInputs :
            /\ input.bill = templates[t].bill
            /\ Cardinality(GeneratedBy(t)) + templates[t].remaining = input.remaining

\* A template that a pass has still to look at is due.
StillDue(t) ==
    /\ t \in DOMAIN templates
    /\ NotAfter(templates[t].due, templates[t].end)
    /\ templates[t].limited => templates[t].remaining > 0

RBInv ==
    /\ APInv /\ RecurringBillsAssumption
    /\ templates \in Seq(TemplateRows)
    /\ generated \in Seq([template : Nat, due : Dates, bill : Nat])
    /\ \A t \in pass : StillDue(t)
    /\ \A g \in DOMAIN generated : GeneratedIs(g)
    /\ \A t \in DOMAIN templates : TermKept(t)
    /\ \A g, h \in DOMAIN generated :
          generated[g].template = generated[h].template /\ generated[g].due = generated[h].due
            => g = h

LEMMA TemplateIs ==
    ASSUME RBInv, NEW t \in DOMAIN templates
    PROVE  /\ templates[t] \in TemplateRows
           /\ templates[t].bill \in BillInputs /\ templates[t].due \in Dates
           /\ templates[t].end \in Dates /\ templates[t].unit \in Units
           /\ templates[t].count \in Nat \ {0} /\ templates[t].remaining \in Nat
<1>1. templates[t] \in TemplateRows
  BY DEF RBInv
<1> QED BY <1>1 DEF TemplateRows

\* The next date of a template, by its cadence.
OneIntervalLater(t, next) ==
    /\ next \in Dates /\ DayNumber(templates[t].due) < DayNumber(next)
    /\ templates[t].unit # "week" =>
          next.month = templates[t].due.month + MonthsOf[templates[t].unit] * templates[t].count

LEMMA NextInterval ==
    ASSUME RBInv, NEW t \in DOMAIN templates
    PROVE  OneIntervalLater(t, NextIntervalDate(templates[t].due, templates[t].unit,
                                                templates[t].count))
<1> DEFINE row == templates[t]
           next == NextIntervalDate(row.due, row.unit, row.count)
<1>1. row.due \in Dates /\ row.unit \in Units /\ row.count \in Nat \ {0}
  BY TemplateIs
<1>2. DayNumber(row.due) \in Nat
  BY <1>1, DayNumberType
<1>3. CASE row.unit = "week"
  <2>1. next = AddDays(row.due, 7 * row.count) /\ 7 * row.count \in Nat /\ 7 * row.count > 0
    BY <1>1, <1>3 DEF NextIntervalDate
  <2>2. next \in Dates /\ DayNumber(next) = DayNumber(row.due) + 7 * row.count
    BY <1>1, <2>1, AddDaysAdds
  <2>3. DayNumber(row.due) < DayNumber(next)
    BY <1>2, <2>1, <2>2
  <2> QED BY <1>3, <2>2, <2>3 DEF OneIntervalLater
<1>4. CASE row.unit # "week"
  <2>1. MonthsOf[row.unit] \in {1, 3, 12}
    BY <1>1, <1>4 DEF Units, MonthsOf
  <2> DEFINE k == MonthsOf[row.unit]
             n == k * row.count
  <2>2. n \in Nat \ {0}
    <3> HIDE DEF k
    <3>1. k = 1 \/ k = 3 \/ k = 12
      BY <2>1 DEF k
    <3> QED BY <1>1, <3>1
  <2>3. next = AddMonths(row.due, n)
    BY <1>4 DEF NextIntervalDate
  <2> HIDE DEF n
  <2>4. next \in Dates /\ next.month = row.due.month + n /\ DayNumber(row.due) < DayNumber(next)
    BY <1>1, <2>2, <2>3, AddMonthsAdds
  <2> QED BY <2>4 DEF OneIntervalLater, n
<1> QED BY <1>3, <1>4

\* A step that leaves the payables alone.
LEMMA UnchangedPayables == ASSUME APInv, UNCHANGED apVars PROVE APInv'
BY APStep

\* Only bills move on, and they keep their lines.
LEMMA BillsMoveOn ==
    ASSUME RBInv, APInv', UNCHANGED <<templates, generated>>, pass' \subseteq pass,
           DOMAIN bills \subseteq DOMAIN bills',
           \A b \in DOMAIN bills : bills'[b].lines = bills[b].lines
    PROVE  RBInv'
<1>1. \A g \in DOMAIN generated : GeneratedIs(g)'
  BY DEF RBInv, GeneratedIs
<1>2. \A t \in DOMAIN templates : TermKept(t)'
  BY DEF RBInv, TermKept, GeneratedBy
<1>3. \A t \in pass : StillDue(t)'
  BY DEF RBInv, StillDue
<1>4. RecurringBillsAssumption'
  BY DEF RBInv, RecurringBillsAssumption
<1> QED BY <1>1, <1>2, <1>3, <1>4 DEF RBInv

\* A template is registered.
LEMMA RegisterStep ==
    ASSUME RBInv, NEW input \in TemplateInputs, CreateRecurringBill(input), pass = {}
    PROVE  RBInv' /\ \A t \in DOMAIN templates : templates'[t] = templates[t]
<1> DEFINE row == [bill |-> input.bill, due |-> input.due, end |-> input.end,
                   unit |-> input.unit, count |-> input.count,
                   limited |-> input.remaining # NoLimit, remaining |-> input.remaining]
<1>1. /\ templates' = Append(templates, row) /\ UNCHANGED <<apVars, pass, generated>>
  BY DEF CreateRecurringBill
<1>2. input \in [bill : BillInputs, due : Dates, end : Dates, unit : Units, count : Nat \ {0},
                 remaining : Nat]
  BY DEF RBInv, RecurringBillsAssumption
<1>3. row \in TemplateRows
  BY <1>2 DEF TemplateRows
<1>4. PICK n \in Nat : n = Len(templates) /\ DOMAIN templates = 1 .. n
  BY DEF RBInv
<1>5. row.bill = input.bill /\ row.remaining = input.remaining /\ input.remaining \in Nat
  BY <1>2
<1> HIDE DEF row
<1>6. /\ templates' \in Seq(TemplateRows) /\ DOMAIN templates' = 1 .. n + 1
      /\ templates'[n + 1] = row /\ \A t \in DOMAIN templates : templates'[t] = templates[t]
  BY <1>1, <1>3, <1>4 DEF RBInv
<1>7. APInv'
  BY <1>1, UnchangedPayables DEF RBInv
<1>8. \A g \in DOMAIN generated : GeneratedIs(g)'
  BY <1>1, <1>4, <1>6 DEF RBInv, GeneratedIs, apVars
<1>9. ASSUME NEW t \in DOMAIN templates PROVE TermKept(t)'
  <2>1. GeneratedBy(t)' = GeneratedBy(t) /\ templates'[t] = templates[t]
    BY <1>1, <1>6 DEF GeneratedBy
  <2> QED BY <2>1 DEF RBInv, TermKept
<1>10. TermKept(n + 1)'
  <2>1. GeneratedBy(n + 1)' = {}
    <3>1. \A g \in DOMAIN generated : generated[g].template \in 1 .. n
      BY <1>4 DEF RBInv, GeneratedIs
    <3> QED BY <1>1, <1>4, <3>1 DEF GeneratedBy
  <2>2. Cardinality(GeneratedBy(n + 1)') = 0
    BY <2>1, FS_EmptySet
  <2>3. Cardinality(GeneratedBy(n + 1)') + row.remaining = input.remaining
    BY <1>5, <2>2
  <2>4. templates'[n + 1] = row /\ input \in TemplateInputs
    BY <1>6
  <2> QED BY <1>5, <2>3, <2>4 DEF TermKept
<1>11. \A t \in DOMAIN templates' : TermKept(t)'
  BY <1>4, <1>6, <1>9, <1>10
<1>12. RecurringBillsAssumption' /\ pass' = {} /\ generated' = generated
  BY <1>1 DEF RBInv, RecurringBillsAssumption
<1> QED BY <1>6, <1>7, <1>8, <1>11, <1>12 DEF RBInv

\* A bill is generated and its template advanced, in one transaction.
LEMMA BillTemplateStep ==
    ASSUME RBInv, NEW t \in pass, BillTemplate(t)
    PROVE  /\ RBInv'
           /\ \A u \in DOMAIN templates : u # t => templates'[u] = templates[u]
           /\ OneIntervalLater(t, templates'[t].due)
           /\ \E g \in GeneratedBy(t)' :
                 g \notin DOMAIN generated /\ generated'[g].due = templates[t].due
<1> DEFINE row == templates[t]
           next == NextIntervalDate(row.due, row.unit, row.count)
           left == IF row.limited THEN row.remaining - 1 ELSE row.remaining
           moved == [row EXCEPT !.due = next, !.remaining = left]
           new == [template |-> t, due |-> row.due, bill |-> Len(bills) + 1]
<1>27. PICK n, m : n = Len(generated) /\ m = Len(bills)
  OBVIOUS
<1>1. /\ CreateBill(row.bill) /\ generated' = Append(generated, new)
      /\ templates' = [templates EXCEPT ![t] = Advanced(templates[t])] /\ pass' = pass \ {t}
  BY DEF BillTemplate, Recorded
<1>2. t \in DOMAIN templates /\ NotAfter(row.due, row.end) /\ (row.limited => row.remaining > 0)
  BY DEF RBInv, StillDue
<1>3. /\ row \in TemplateRows /\ row.bill \in BillInputs /\ row.due \in Dates
      /\ row.end \in Dates /\ row.remaining \in Nat
  BY <1>2, TemplateIs
<1>4. OneIntervalLater(t, next) /\ next \in Dates /\ DayNumber(row.due) < DayNumber(next)
  BY <1>2, NextInterval DEF OneIntervalLater
<1>5. Advanced(row) = moved
  BY <1>3 DEF Advanced, TemplateRows
<1>6. left \in Nat
  BY <1>2, <1>3
<1> HIDE DEF next, left
<1>7. /\ moved \in TemplateRows /\ moved.due = next /\ moved.end = row.end
      /\ moved.bill = row.bill /\ moved.limited = row.limited /\ moved.remaining = left
  BY <1>3, <1>4, <1>6 DEF TemplateRows
<1>8. /\ templates' \in Seq(TemplateRows) /\ DOMAIN templates' = DOMAIN templates
      /\ templates'[t] = moved /\ \A u \in DOMAIN templates : u # t => templates'[u] = templates[u]
  <2>1. templates' = [templates EXCEPT ![t] = moved]
    BY <1>1, <1>5
  <2> HIDE DEF moved
  <2> QED BY <1>2, <1>7, <2>1 DEF RBInv
<1> HIDE DEF moved
<1>9. APInv'
  BY <1>1, <1>3, CreateBillStep DEF RBInv
<1>10. /\ m \in Nat /\ DOMAIN bills = 1 .. m /\ DOMAIN bills' = 1 .. m + 1
       /\ bills'[m + 1].lines = row.bill.lines
       /\ \A b \in DOMAIN bills : bills'[b] = bills[b]
  <2>1. m \in Nat /\ bills \in Seq(Bills) /\ DOMAIN bills = 1 .. m
    BY <1>27 DEF RBInv, APInv, Tables
  <2> DEFINE entry == [vendor |-> row.bill.vendor, wo |-> row.bill.wo, lines |-> row.bill.lines,
                       settled |-> [k \in DOMAIN row.bill.lines |-> 0],
                       paid |-> 0, status |-> row.bill.status]
  <2>2. bills' = Append(bills, entry) /\ entry.lines = row.bill.lines
    BY <1>1 DEF CreateBill
  <2> HIDE DEF entry
  <2> QED BY <2>1, <2>2
<1>11. /\ generated \in Seq([template : Nat, due : Dates, bill : Nat])
       /\ new \in [template : Nat, due : Dates, bill : Nat]
  <2>1. t \in Nat
    BY <1>2 DEF RBInv
  <2> QED BY <1>3, <1>10, <1>27, <2>1 DEF RBInv
<1>12. new.template = t /\ new.due = row.due /\ new.bill = m + 1
  BY <1>27
<1> HIDE DEF new
<1>13. /\ generated' \in Seq([template : Nat, due : Dates, bill : Nat])
       /\ n \in Nat /\ DOMAIN generated = 1 .. n /\ DOMAIN generated' = 1 .. n + 1
       /\ generated'[n + 1] = new /\ \A g \in 1 .. n : generated'[g] = generated[g]
  BY <1>1, <1>11, <1>27
<1>14. \A g \in 1 .. n : GeneratedIs(g) /\ DayNumber(generated[g].due) \in Nat
  BY <1>13, DayNumberType DEF RBInv, GeneratedIs
<1>15. DayNumber(row.due) \in Nat /\ DayNumber(next) \in Nat
  BY <1>3, <1>4, DayNumberType
<1>16. \A g \in DOMAIN generated' : GeneratedIs(g)'
  <2>1. GeneratedIs(n + 1)'
    BY <1>2, <1>3, <1>4, <1>7, <1>8, <1>10, <1>12, <1>13 DEF GeneratedIs, NotAfter
  <2>2. ASSUME NEW g \in 1 .. n PROVE GeneratedIs(g)'
    <3>1. GeneratedIs(g) /\ generated'[g] = generated[g] /\ DayNumber(generated[g].due) \in Nat
      BY <1>13, <1>14
    <3>2. CASE generated[g].template = t
      BY <1>4, <1>7, <1>8, <1>10, <1>15, <3>1, <3>2 DEF GeneratedIs, NotAfter
    <3>3. CASE generated[g].template # t
      BY <1>8, <1>10, <3>1, <3>3 DEF GeneratedIs, NotAfter
    <3> QED BY <3>2, <3>3
  <2> QED BY <1>13, <2>1, <2>2
<1>17. ASSUME NEW u, u # t PROVE GeneratedBy(u)' = GeneratedBy(u)
  BY <1>12, <1>13, <1>17 DEF GeneratedBy
<1>18. GeneratedBy(t)' = GeneratedBy(t) \cup {n + 1} /\ n + 1 \notin GeneratedBy(t)
  <2>1. DOMAIN generated' = (1 .. n) \cup {n + 1} /\ n + 1 \notin 1 .. n
    BY <1>13
  <2>2. GeneratedBy(t)' = {g \in DOMAIN generated' : generated'[g].template = t}
    BY DEF GeneratedBy
  <2> QED BY <1>12, <1>13, <2>1, <2>2 DEF GeneratedBy
<1>19. /\ Cardinality(GeneratedBy(t)) \in Nat
       /\ Cardinality(GeneratedBy(t)') = Cardinality(GeneratedBy(t)) + 1
  <2>1. IsFiniteSet(1 .. n)
    BY <1>13, FS_Interval
  <2>2. GeneratedBy(t) \subseteq 1 .. n
    BY <1>13 DEF GeneratedBy
  <2>3. IsFiniteSet(GeneratedBy(t))
    BY <2>1, <2>2, FS_Subset
  <2> QED BY <1>18, <2>3, FS_AddElement, FS_CardinalityType
<1>20. TermKept(t)'
  <2> SUFFICES ASSUME row.limited
               PROVE  \E input \in TemplateInputs :
                         /\ input.bill = row.bill
                         /\ Cardinality(GeneratedBy(t)') + left = input.remaining
    BY <1>7, <1>8 DEF TermKept
  <2>1. PICK input \in TemplateInputs :
           /\ input.bill = row.bill
           /\ Cardinality(GeneratedBy(t)) + row.remaining = input.remaining
    BY <1>2 DEF RBInv, TermKept
  <2>2. left = row.remaining - 1
    BY DEF left
  <2>3. Cardinality(GeneratedBy(t)') + left = Cardinality(GeneratedBy(t)) + row.remaining
    BY <1>3, <1>19, <2>2
  <2> QED BY <2>1, <2>3
<1>21. \A u \in DOMAIN templates' : TermKept(u)'
  BY <1>8, <1>17, <1>20 DEF RBInv, TermKept
<1>22. \A u \in pass' : StillDue(u)'
  BY <1>1, <1>8 DEF RBInv, StillDue
<1>23. \A g, h \in DOMAIN generated' :
          generated'[g].template = generated'[h].template /\ generated'[g].due = generated'[h].due
            => g = h
  <2>1. \A g \in 1 .. n : generated[g].template = t => generated[g].due # row.due
    BY <1>14, <1>15 DEF GeneratedIs
  <2> SUFFICES ASSUME NEW g \in DOMAIN generated', NEW h \in DOMAIN generated',
                      generated'[g].template = generated'[h].template,
                      generated'[g].due = generated'[h].due
               PROVE  g = h
    OBVIOUS
  <2>2. CASE g = n + 1 /\ h \in 1 .. n
    BY <1>12, <1>13, <2>1, <2>2
  <2>3. CASE g \in 1 .. n /\ h = n + 1
    BY <1>12, <1>13, <2>1, <2>3
  <2>4. CASE g \in 1 .. n /\ h \in 1 .. n
    BY <1>13, <2>4 DEF RBInv
  <2>5. DOMAIN generated' = (1 .. n) \cup {n + 1}
    BY <1>13
  <2> QED BY <2>2, <2>3, <2>4, <2>5
<1>24. RecurringBillsAssumption'
  BY DEF RBInv, RecurringBillsAssumption
<1>25. RBInv'
  BY <1>8, <1>9, <1>13, <1>16, <1>21, <1>22, <1>23, <1>24 DEF RBInv
<1>26. n + 1 \in GeneratedBy(t)' /\ n + 1 \notin DOMAIN generated /\ generated'[n + 1].due = row.due
  BY <1>12, <1>13, <1>18
<1> QED BY <1>4, <1>7, <1>8, <1>25, <1>26

\* Where the date of a template moves, the date before it has its bill.
BilledAndMoved ==
    \A t \in DOMAIN templates :
        templates'[t].due # templates[t].due =>
            /\ \E g \in GeneratedBy(t)' :
                  g \notin DOMAIN generated /\ generated'[g].due = templates[t].due
            /\ templates[t].unit # "week" =>
                  templates'[t].due.month =
                    templates[t].due.month + MonthsOf[templates[t].unit] * templates[t].count

LEMMA RBStep == RBInv /\ [RBNext]_RBVars => RBInv' /\ [BilledAndMoved]_RBVars
<1> SUFFICES ASSUME RBInv, [RBNext]_RBVars PROVE RBInv' /\ BilledAndMoved
  OBVIOUS
<1>1. ASSUME \A t \in DOMAIN templates : templates'[t] = templates[t] PROVE BilledAndMoved
  BY <1>1 DEF BilledAndMoved
<1>2. ASSUME UNCHANGED <<apVars, templates, generated>>, \A t \in pass' : StillDue(t)
      PROVE  RBInv' /\ BilledAndMoved
  <2>1. APInv'
    BY <1>2, UnchangedPayables DEF RBInv
  <2>2. UNCHANGED <<templates, generated, bills>>
    BY <1>2 DEF apVars
  <2>3. \A g \in DOMAIN generated : GeneratedIs(g)'
    BY <2>2 DEF RBInv, GeneratedIs
  <2>4. \A t \in DOMAIN templates : TermKept(t)'
    BY <2>2 DEF RBInv, TermKept, GeneratedBy
  <2>5. \A t \in pass' : StillDue(t)'
    BY <1>2, <2>2 DEF StillDue
  <2>6. RecurringBillsAssumption'
    BY DEF RBInv, RecurringBillsAssumption
  <2> QED BY <1>1, <2>1, <2>2, <2>3, <2>4, <2>5, <2>6 DEF RBInv
<1>3. ASSUME NEW input \in TemplateInputs, CreateRecurringBill(input), pass = {}
      PROVE  RBInv' /\ BilledAndMoved
  BY <1>1, <1>3, RegisterStep
<1>4. ASSUME NEW asOf \in RunDates, StartPass(asOf) PROVE RBInv' /\ BilledAndMoved
  BY <1>2, <1>4 DEF StartPass, IsDue, StillDue
<1>5. ASSUME UseBills PROVE RBInv' /\ BilledAndMoved
  <2>1. UNCHANGED <<templates, pass, generated>>
    BY <1>5 DEF UseBills
  <2>2. ASSUME NEW b \in DOMAIN bills, ApproveBill(b) \/ VoidBill(b)
        PROVE  RBInv'
    <3>1. APInv'
      BY <2>2, ApproveBillStep, VoidBillStep DEF RBInv
    <3>2. \E s : bills' = [bills EXCEPT ![b].status = s]
      BY <2>2 DEF ApproveBill, VoidBill
    <3>3. bills \in Seq(Bills)
      BY DEF RBInv, APInv, Tables
    <3>4. /\ DOMAIN bills \subseteq DOMAIN bills'
          /\ \A k \in DOMAIN bills : bills'[k].lines = bills[k].lines
      <4>1. \A k \in DOMAIN bills : bills[k] \in Bills
        BY <3>3
      <4> QED BY <3>2, <3>3, <4>1 DEF Bills
    <3> QED BY <2>1, <3>1, <3>4, BillsMoveOn
  <2>3. ASSUME NEW r \in Refs, DeleteRef(r) PROVE RBInv'
    <3>1. APInv'
      <4>1. [APNext]_apVars
        BY <2>3 DEF APNext
      <4> QED BY <4>1, APStep DEF RBInv
    <3>2. UNCHANGED bills
      BY <2>3 DEF DeleteRef
    <3> QED BY <2>1, <3>1, <3>2, BillsMoveOn
  <2> QED BY <1>1, <1>5, <2>1, <2>2, <2>3 DEF UseBills
<1>6. ASSUME PassStep PROVE RBInv' /\ BilledAndMoved
  <2>1. PICK t \in pass : BillTemplate(t) \/ FailTemplate(t)
    BY <1>6 DEF PassStep
  <2>2. CASE BillTemplate(t)
    <3>1. /\ RBInv' /\ OneIntervalLater(t, templates'[t].due)
          /\ \A u \in DOMAIN templates : u # t => templates'[u] = templates[u]
          /\ \E g \in GeneratedBy(t)' :
                g \notin DOMAIN generated /\ generated'[g].due = templates[t].due
      BY <2>1, <2>2, BillTemplateStep
    <3> QED BY <3>1 DEF BilledAndMoved, OneIntervalLater
  <2>3. CASE FailTemplate(t)
    BY <1>2, <2>3 DEF FailTemplate, RBInv
  <2> QED BY <2>1, <2>2, <2>3
<1>7. ASSUME Crash PROVE RBInv' /\ BilledAndMoved
  BY <1>2, <1>7 DEF Crash
<1>8. ASSUME UNCHANGED RBVars PROVE RBInv' /\ BilledAndMoved
  BY <1>2, <1>8 DEF RBVars, RBInv
<1> QED BY <1>3, <1>4, <1>5, <1>6, <1>7, <1>8 DEF RBNext

\* A template bills each of its dates once, though passes die between two
\* templates and are run again, and every such bill has the lines of the
\* template; it bills no more often than it was registered for and no date
\* after its end (generateDueRecurringBills).
THEOREM TemplatesBillOnce ==
    PayablesAssumption /\ RecurringBillsAssumption /\ RBSpec
      => [](RBTypeOK /\ BilledOncePerDate /\ WithinItsTerm)
<1>1. PayablesAssumption /\ RecurringBillsAssumption /\ RBInit => RBInv
  BY PayablesInitial DEF RBInit, RBInv
<1>2. RBInv => RBTypeOK /\ BilledOncePerDate /\ WithinItsTerm
  <2> SUFFICES ASSUME RBInv PROVE RBTypeOK /\ BilledOncePerDate /\ WithinItsTerm
    OBVIOUS
  <2>1. RBTypeOK
    BY TemplateIs DEF RBTypeOK, RBInv, StillDue
  <2>2. BilledOncePerDate
    BY DEF BilledOncePerDate, RBInv, GeneratedIs
  <2>3. ASSUME NEW t \in DOMAIN templates, templates[t].limited
        PROVE  \E input \in TemplateInputs :
                  input.bill = templates[t].bill /\ Cardinality(GeneratedBy(t)) <= input.remaining
    <3>1. PICK input \in TemplateInputs :
             /\ input.bill = templates[t].bill
             /\ Cardinality(GeneratedBy(t)) + templates[t].remaining = input.remaining
      BY <2>3 DEF RBInv, TermKept
    <3>2. IsFiniteSet(GeneratedBy(t))
      <4>1. PICK n \in Nat : DOMAIN generated = 1 .. n
        BY DEF RBInv
      <4>2. IsFiniteSet(1 .. n) /\ GeneratedBy(t) \subseteq 1 .. n
        BY <4>1, FS_Interval DEF GeneratedBy
      <4> QED BY <4>2, FS_Subset
    <3>3. Cardinality(GeneratedBy(t)) \in Nat /\ templates[t].remaining \in Nat
      BY <3>2, FS_CardinalityType, TemplateIs
    <3> QED BY <3>1, <3>3
  <2>4. \A t \in DOMAIN templates : \A g \in GeneratedBy(t) :
           NotAfter(generated[g].due, templates[t].end)
    BY DEF RBInv, GeneratedIs, GeneratedBy
  <2> QED BY <2>1, <2>2, <2>3, <2>4 DEF WithinItsTerm
<1> QED BY <1>1, <1>2, RBStep, PTL DEF RBSpec

\* Between the first date of a template and its next one every period of its
\* cadence has its bill, whatever the lengths of months: a date is left behind
\* only with its bill, never because a bill failed.
THEOREM NoPeriodIsSkipped ==
    PayablesAssumption /\ RecurringBillsAssumption /\ RBSpec => NoPeriodSkipped
<1>1. PayablesAssumption /\ RecurringBillsAssumption /\ RBInit => RBInv
  BY PayablesInitial DEF RBInit, RBInv
<1>2. RBInv /\ [RBNext]_RBVars =>
        [\A t \in DOMAIN templates :
          templates'[t].due # templates[t].due =>
            /\ \E g \in GeneratedBy(t)' :
                  g \notin DOMAIN generated /\ generated'[g].due = templates[t].due
            /\ templates[t].unit # "week" =>
                  templates'[t].due.month =
                    templates[t].due.month + MonthsOf[templates[t].unit] * templates[t].count]_RBVars
  BY RBStep DEF BilledAndMoved
<1> QED BY <1>1, <1>2, RBStep, PTL DEF RBSpec, NoPeriodSkipped

\* All of it.
THEOREM TemplatesKept ==
    PayablesAssumption /\ RecurringBillsAssumption /\ RBSpec => TemplatesKeepTerm
BY TemplatesBillOnce, NoPeriodIsSkipped, PTL DEF TemplatesKeepTerm

\* A template writes no bill that a user could not have entered: the bills, the
\* journal and the costs of work orders change as requests alone change them.
LEMMA TemplatesEnterBills == RBInv /\ [RBNext]_RBVars => [APNext]_apVars
<1> SUFFICES ASSUME RBInv, [RBNext]_RBVars, ~UNCHANGED apVars PROVE APNext
  OBVIOUS
<1>1. CASE UseBills
  <2>1. ASSUME NEW b \in DOMAIN bills, ApproveBill(b) \/ VoidBill(b) PROVE APNext
    BY <2>1 DEF APNext, BillRequests
  <2>2. ASSUME NEW r \in Refs, DeleteRef(r) PROVE APNext
    BY <2>2 DEF APNext
  <2> QED BY <1>1, <2>1, <2>2 DEF UseBills
<1>2. CASE PassStep
  <2>1. PICK t \in pass : BillTemplate(t)
    BY <1>2 DEF PassStep, FailTemplate
  <2>2. templates[t].bill \in BillInputs
    BY <2>1, TemplateIs DEF RBInv, StillDue
  <2>3. CreateBill(templates[t].bill)
    BY <2>1 DEF BillTemplate
  <2> QED BY <2>2, <2>3 DEF APNext, BillRequests
<1>3. UseBills \/ PassStep
  <2>1. RBNext
    BY DEF RBVars
  <2> QED BY <2>1 DEF RBNext, CreateRecurringBill, StartPass, Crash
<1> QED BY <1>1, <1>2, <1>3

THEOREM TemplatesRefinePayables ==
    PayablesAssumption /\ RecurringBillsAssumption /\ RBSpec => APSpec
<1>1. PayablesAssumption /\ RecurringBillsAssumption /\ RBInit => RBInv
  BY PayablesInitial DEF RBInit, RBInv
<1>2. RBInit => APInit
  BY DEF RBInit
<1> QED BY <1>1, <1>2, RBStep, TemplatesEnterBills, PTL DEF RBSpec, APSpec

\* So the payables and the journal stay right while templates write bills.
THEOREM RecurringKeepsPayables ==
    PayablesAssumption /\ RecurringBillsAssumption /\ RBSpec => [](APTypeOK /\ PayablesAgree)
BY TemplatesRefinePayables, PayablesTyped, PayablesCorrect, PTL

(***************************************************************************)
(* The money of owners.                                                    *)
(***************************************************************************)
\* The totals of ClientAccounting are those of the journal.
LEMMA OwnersTotal == \A f : Owners!Total(f) = Total(f)
BY DEF Owners!Total, Total

\* A list of rows of any kind, and what appending to one does.
Listed(s) == s \in Seq({s[i] : i \in DOMAIN s})

LEMMA ListedAppend ==
    ASSUME NEW s, Listed(s), NEW e
    PROVE  /\ Listed(Append(s, e)) /\ Len(s) \in Nat /\ DOMAIN s = 1 .. Len(s)
           /\ Len(Append(s, e)) = Len(s) + 1
           /\ DOMAIN Append(s, e) = 1 .. Len(s) + 1
           /\ \A i \in 1 .. Len(s) : Append(s, e)[i] = s[i]
           /\ Append(s, e)[Len(s) + 1] = e
<1> DEFINE S == {s[i] : i \in DOMAIN s} \cup {e}
           t == Append(s, e)
<1>1. s \in Seq(S)
  <2>1. {s[i] : i \in DOMAIN s} \subseteq S
    OBVIOUS
  <2> HIDE DEF S
  <2> QED BY <2>1 DEF Listed
<1>2. e \in S
  OBVIOUS
<1> HIDE DEF S
<1>3. /\ Len(s) \in Nat /\ DOMAIN s = 1 .. Len(s)
      /\ t \in Seq(S) /\ Len(t) = Len(s) + 1 /\ DOMAIN t = 1 .. Len(s) + 1
      /\ \A i \in 1 .. Len(s) : t[i] = s[i]
      /\ t[Len(s) + 1] = e
  BY <1>1, <1>2
<1>4. Listed(t)
  <2> HIDE DEF t
  <2> DEFINE T == {t[i] : i \in DOMAIN t}
  <2>1. \A i \in 1 .. Len(t) : t[i] \in T
    BY <1>3
  <2>2. t = [i \in 1 .. Len(t) |-> t[i]]
    BY <1>3
  <2> HIDE DEF T
  <2>3. [i \in 1 .. Len(t) |-> t[i]] \in Seq(T)
    BY <1>3, <2>1
  <2> QED BY <2>2, <2>3 DEF Listed, T
<1> QED BY <1>3, <1>4

LEMMA ListedEmpty == Listed(<< >>)
BY DEF Listed

\* What contributions and draws say in the journal.
Capital == {"client_contribution", "client_draw"}
BroughtIn(s, f, d) ==
    Total([i \in DOMAIN s |->
             IF s[i].source = "client_contribution" /\ s[i].portfolio = f /\ s[i].date <= d
             THEN s[i].in ELSE 0])
DrawnOut(s, f, d) ==
    Total([i \in DOMAIN s |->
             IF s[i].source = "client_draw" /\ s[i].portfolio = f /\ s[i].date <= d
             THEN s[i].out ELSE 0])

OwnerFields == {"source", "property", "for", "portfolio", "in", "out", "date", "of",
                "agreement", "month", "fee"}
OwnerRow(e, g) ==
    /\ DOMAIN e = OwnerFields
    /\ e.in \in Nat /\ e.out \in Nat /\ e.date \in Nat
    /\ e.property # None => e.property = e.for
    /\ e.source = "client_contribution" => e.out = 0
    /\ e.source = "client_draw" => e.in = 0
    /\ e.source \in Capital =>
          /\ e.property = e.for
          /\ "move" \notin Uses
          /\ e.property # None => g[e.property] = e.portfolio
CapitalRow == [portfolio : Portfolios, amount : Nat, date : Nat]

\* A property with capital of its owners stays in its portfolio.
OwnersStay == "move" \notin Uses \/ ("contribute" \notin Uses /\ "draw" \notin Uses)

CapitalPosted ==
    \A f \in Portfolios, d \in Nat :
        /\ Owners!RowsOf(contributions, f, d) = BroughtIn(cashEntries, f, d)
        /\ Owners!RowsOf(distributions, f, d) = DrawnOut(cashEntries, f, d)
OwnersInv ==
    /\ Owners!ClientAccountingAssumption /\ OwnersStay
    /\ today \in Nat \ {0}
    /\ portfolioOf \in [Properties -> Portfolios]
    /\ Listed(cashEntries) /\ \A i \in DOMAIN cashEntries : OwnerRow(cashEntries[i], portfolioOf)
    /\ contributions \in Seq(CapitalRow) /\ distributions \in Seq(CapitalRow)
    /\ CapitalPosted

\* An entry adds what it says.
LEMMA CapitalOfEntry ==
    ASSUME OwnersInv, NEW e, OwnerRow(e, portfolioOf), NEW f, NEW d \in Nat
    PROVE  /\ BroughtIn(Append(cashEntries, e), f, d) = BroughtIn(cashEntries, f, d)
                + IF e.source = "client_contribution" /\ e.portfolio = f /\ e.date <= d
                  THEN e.in ELSE 0
           /\ DrawnOut(Append(cashEntries, e), f, d) = DrawnOut(cashEntries, f, d)
                + IF e.source = "client_draw" /\ e.portfolio = f /\ e.date <= d
                  THEN e.out ELSE 0
<1> DEFINE s == cashEntries
           n == Len(s)
           t == Append(s, e)
           brought(x) == IF x.source = "client_contribution" /\ x.portfolio = f /\ x.date <= d
                         THEN x.in ELSE 0
           drawn(x) == IF x.source = "client_draw" /\ x.portfolio = f /\ x.date <= d
                       THEN x.out ELSE 0
           b == [i \in 1 .. n |-> brought(s[i])]
           w == [i \in 1 .. n |-> drawn(s[i])]
<1>1. /\ n \in Nat /\ DOMAIN s = 1 .. n /\ DOMAIN t = 1 .. n + 1
      /\ \A i \in 1 .. n : t[i] = s[i]
      /\ t[n + 1] = e
  BY ListedAppend DEF OwnersInv
<1>2. \A x : OwnerRow(x, portfolioOf) => brought(x) \in Int /\ drawn(x) \in Int
  BY DEF OwnerRow
<1>3. \A i \in 1 .. n : OwnerRow(s[i], portfolioOf)
  BY <1>1 DEF OwnersInv
<1> HIDE DEF s, n, t, brought, drawn
<1>4. b \in Seq(Int) /\ w \in Seq(Int) /\ Len(b) = n /\ Len(w) = n
  <2>1. \A i \in 1 .. n : brought(s[i]) \in Int /\ drawn(s[i]) \in Int
    BY <1>1, <1>2, <1>3
  <2> QED BY <1>1, <2>1
<1>5. /\ [i \in DOMAIN t |-> brought(t[i])] = Append(b, brought(e))
      /\ [i \in DOMAIN t |-> drawn(t[i])] = Append(w, drawn(e))
  BY <1>1, <1>4
<1>6. Total(Append(b, brought(e))) = Total(b) + brought(e)
  BY <1>2, <1>4, TotalAppend
<1>7. Total(Append(w, drawn(e))) = Total(w) + drawn(e)
  BY <1>2, <1>4, TotalAppend
<1>8. /\ BroughtIn(t, f, d) = Total(Append(b, brought(e)))
      /\ DrawnOut(t, f, d) = Total(Append(w, drawn(e)))
      /\ BroughtIn(s, f, d) = Total(b) /\ DrawnOut(s, f, d) = Total(w)
  BY <1>1, <1>5 DEF BroughtIn, DrawnOut, brought, drawn
<1> QED BY <1>6, <1>7, <1>8 DEF brought, drawn, s, t

\* Rows of capital have a total, to which a new one adds its amount.
LEMMA RowsTotalled ==
    ASSUME NEW rows \in Seq(CapitalRow), NEW f, NEW d \in Nat
    PROVE  Owners!RowsOf(rows, f, d) \in Int
<1> DEFINE n == Len(rows)
           v == [i \in 1 .. n |->
                   IF rows[i].portfolio = f /\ rows[i].date <= d THEN rows[i].amount ELSE 0]
<1>1. n \in Nat /\ DOMAIN rows = 1 .. n /\ \A i \in 1 .. n : rows[i] \in CapitalRow
  OBVIOUS
<1>2. Owners!RowsOf(rows, f, d) = Total(v)
  BY <1>1, OwnersTotal DEF Owners!RowsOf
<1> HIDE DEF n
<1>3. v \in Seq(Int)
  <2>1. \A i \in 1 .. n : v[i] \in Int
    BY <1>1 DEF CapitalRow
  <2> QED BY <1>1, <2>1
<1> QED BY <1>2, <1>3, TotalType

LEMMA RowsOfNext ==
    ASSUME NEW rows \in Seq(CapitalRow), NEW row \in CapitalRow,
           NEW f, NEW d \in Nat
    PROVE  /\ Owners!RowsOf(Append(rows, row), f, d) = Owners!RowsOf(rows, f, d)
                + IF row.portfolio = f /\ row.date <= d THEN row.amount ELSE 0
<1> DEFINE n == Len(rows)
           t == Append(rows, row)
           value(x) == IF x.portfolio = f /\ x.date <= d THEN x.amount ELSE 0
           v == [i \in 1 .. n |-> value(rows[i])]
<1>1. /\ n \in Nat /\ DOMAIN rows = 1 .. n /\ DOMAIN t = 1 .. n + 1
      /\ \A i \in 1 .. n : t[i] = rows[i]
      /\ t[n + 1] = row
      /\ \A i \in 1 .. n : rows[i] \in CapitalRow
  OBVIOUS
<1>2. \A x \in CapitalRow : value(x) \in Int
  BY DEF CapitalRow
<1> HIDE DEF n, t, value
<1>3. v \in Seq(Int) /\ Len(v) = n
  BY <1>1, <1>2
<1>4. [i \in DOMAIN t |-> value(t[i])] = Append(v, value(row))
  BY <1>1, <1>3
<1>5. Total(Append(v, value(row))) = Total(v) + value(row) /\ Total(v) \in Int
  BY <1>2, <1>3, TotalAppend, TotalType
<1>6. /\ Owners!RowsOf(t, f, d) = Total(Append(v, value(row)))
      /\ Owners!RowsOf(rows, f, d) = Total(v)
  BY <1>1, <1>4, OwnersTotal DEF Owners!RowsOf, value
<1> QED BY <1>5, <1>6 DEF value, t

\* Where every line that moves money names its property or is one of capital,
\* rows and lines together are the cash.
LEMMA CashIs ==
    ASSUME OwnersInv, NEW f \in Portfolios, NEW d \in Nat,
           \A i \in DOMAIN cashEntries :
               \/ cashEntries[i].property # None \/ cashEntries[i].source \in Capital
               \/ cashEntries[i].in = 0 /\ cashEntries[i].out = 0
    PROVE  /\ Owners!CashOf(f, d) \in Int
           /\ Owners!AvailableForDistribution(f, d) = Owners!Max0(Owners!CashOf(f, d))
<1> DEFINE n == Len(cashEntries)
           E(i) == cashEntries[i]
           cash == [i \in 1 .. n |->
                      IF Owners!Belongs(i, f) /\ E(i).date <= d THEN E(i).in - E(i).out ELSE 0]
           in == [i \in 1 .. n |->
                    IF Owners!OnLine(i, f, d) /\ E(i).source # "client_contribution"
                    THEN E(i).in ELSE 0]
           out == [i \in 1 .. n |->
                     IF Owners!OnLine(i, f, d) /\ E(i).source # "client_draw"
                     THEN E(i).out ELSE 0]
           brought == [i \in 1 .. n |->
                         IF E(i).source = "client_contribution" /\ E(i).portfolio = f
                              /\ E(i).date <= d
                         THEN E(i).in ELSE 0]
           drawn == [i \in 1 .. n |->
                       IF E(i).source = "client_draw" /\ E(i).portfolio = f /\ E(i).date <= d
                       THEN E(i).out ELSE 0]
<1>1. n \in Nat /\ DOMAIN cashEntries = 1 .. n
  BY ListedAppend DEF OwnersInv
<1>2. ASSUME NEW i \in 1 .. n
      PROVE  /\ cash[i] \in Int /\ in[i] \in Int /\ out[i] \in Int
             /\ brought[i] \in Int /\ drawn[i] \in Int
             /\ cash[i] + out[i] + drawn[i] = in[i] + brought[i]
  <2>1. OwnerRow(E(i), portfolioOf)
    BY <1>1 DEF OwnersInv
  <2>2. \/ E(i).property # None \/ E(i).source \in Capital
        \/ E(i).in = 0 /\ E(i).out = 0
    BY <1>1
  <2>3. /\ Owners!Belongs(i, f) <=> IF E(i).for # None THEN portfolioOf[E(i).for] = f
                                    ELSE E(i).portfolio = f
        /\ Owners!OnLine(i, f, d) <=> /\ E(i).property # None
                                      /\ portfolioOf[E(i).property] = f /\ E(i).date <= d
    BY DEF Owners!Belongs, Owners!OnLine
  <2> HIDE DEF n, E
  <2>4. /\ cash[i] = IF Owners!Belongs(i, f) /\ E(i).date <= d THEN E(i).in - E(i).out ELSE 0
        /\ in[i] = IF Owners!OnLine(i, f, d) /\ E(i).source # "client_contribution"
                   THEN E(i).in ELSE 0
        /\ out[i] = IF Owners!OnLine(i, f, d) /\ E(i).source # "client_draw"
                    THEN E(i).out ELSE 0
        /\ brought[i] = IF E(i).source = "client_contribution" /\ E(i).portfolio = f
                             /\ E(i).date <= d
                        THEN E(i).in ELSE 0
        /\ drawn[i] = IF E(i).source = "client_draw" /\ E(i).portfolio = f /\ E(i).date <= d
                      THEN E(i).out ELSE 0
    OBVIOUS
  <2>5. E(i).in \in Nat /\ E(i).out \in Nat
    BY <2>1 DEF OwnerRow
  <2> HIDE DEF cash, in, out, brought, drawn
  <2>6. /\ cash[i] \in Int /\ in[i] \in Int /\ out[i] \in Int
        /\ brought[i] \in Int /\ drawn[i] \in Int
    BY <2>4, <2>5
  <2>7. CASE E(i).source \notin Capital /\ E(i).property # None
    <3>1. /\ brought[i] = 0 /\ drawn[i] = 0
          /\ E(i).source # "client_contribution" /\ E(i).source # "client_draw"
      BY <2>4, <2>7 DEF Capital
    <3>2. Owners!OnLine(i, f, d) <=> Owners!Belongs(i, f) /\ E(i).date <= d
      BY <2>1, <2>3, <2>7 DEF OwnerRow
    <3> QED BY <2>4, <2>5, <3>1, <3>2
  <2>8. CASE E(i).source \notin Capital /\ E(i).property = None
    <3>1. E(i).in = 0 /\ E(i).out = 0
      BY <2>2, <2>8
    <3> QED BY <2>4, <3>1
  <2>9. CASE E(i).source \in Capital
    <3>1. Owners!Belongs(i, f) <=> E(i).portfolio = f
      BY <2>1, <2>3, <2>9 DEF OwnerRow
    <3>2. CASE E(i).source = "client_contribution"
      <4>1. E(i).out = 0
        BY <2>1, <3>2 DEF OwnerRow
      <4> QED BY <2>4, <2>5, <3>1, <3>2, <4>1
    <3>3. CASE E(i).source = "client_draw"
      <4>1. E(i).in = 0
        BY <2>1, <3>3 DEF OwnerRow
      <4> QED BY <2>4, <2>5, <3>1, <3>3, <4>1
    <3> QED BY <2>9, <3>2, <3>3 DEF Capital
  <2> QED BY <2>6, <2>7, <2>8, <2>9
<1>3. /\ Owners!CashOf(f, d) = Total(cash) /\ Owners!Receipts(f, d) = Total(in)
      /\ Owners!Disbursements(f, d) = Total(out)
      /\ BroughtIn(cashEntries, f, d) = Total(brought)
      /\ DrawnOut(cashEntries, f, d) = Total(drawn)
  BY <1>1, OwnersTotal
     DEF Owners!CashOf, Owners!Receipts, Owners!Disbursements, Owners!Indices, BroughtIn, DrawnOut
<1> HIDE DEF n, E, cash, in, out, brought, drawn
<1>4. /\ cash \in Seq(Int) /\ in \in Seq(Int) /\ out \in Seq(Int)
      /\ brought \in Seq(Int) /\ drawn \in Seq(Int)
      /\ Len(cash) = n /\ Len(in) = n /\ Len(out) = n /\ Len(brought) = n /\ Len(drawn) = n
  BY <1>1, <1>2 DEF cash, in, out, brought, drawn
<1> DEFINE sum1 == [i \in 1 .. n |-> cash[i] + out[i]]
           sum2 == [i \in 1 .. n |-> sum1[i] + drawn[i]]
<1>5. /\ sum1 \in Seq(Int) /\ Len(sum1) = n /\ sum2 \in Seq(Int) /\ Len(sum2) = n
      /\ \A i \in 1 .. n : /\ sum1[i] = cash[i] + out[i]
                           /\ sum2[i] = sum1[i] + drawn[i]
                           /\ sum2[i] = in[i] + brought[i]
  <2>1. \A i \in 1 .. n : sum1[i] = cash[i] + out[i] /\ sum1[i] \in Int
    BY <1>2
  <2> HIDE DEF sum1
  <2>2. \A i \in 1 .. n : /\ sum2[i] = sum1[i] + drawn[i] /\ sum2[i] \in Int
                          /\ sum2[i] = in[i] + brought[i]
    BY <1>2, <2>1
  <2>3. sum1 \in Seq(Int) /\ Len(sum1) = n
    BY <1>1, <2>1 DEF sum1
  <2>4. sum2 \in Seq(Int) /\ Len(sum2) = n
    BY <1>1, <2>2
  <2> QED BY <2>1, <2>2, <2>3, <2>4
<1> HIDE DEF sum1, sum2
<1>6. Total(sum1) = Total(cash) + Total(out)
  <2>1. Len(sum1) = Len(cash) /\ Len(out) = Len(cash)
        /\ \A i \in 1 .. Len(cash) : sum1[i] = cash[i] + out[i]
    BY <1>4, <1>5
  <2> QED BY <1>4, <1>5, <2>1, TotalAdd
<1>7. Total(sum2) = Total(sum1) + Total(drawn)
  <2>1. Len(sum2) = Len(sum1) /\ Len(drawn) = Len(sum1)
        /\ \A i \in 1 .. Len(sum1) : sum2[i] = sum1[i] + drawn[i]
    BY <1>4, <1>5
  <2> QED BY <1>4, <1>5, <2>1, TotalAdd
<1>8. Total(sum2) = Total(in) + Total(brought)
  <2>1. Len(sum2) = Len(in) /\ Len(brought) = Len(in)
        /\ \A i \in 1 .. Len(in) : sum2[i] = in[i] + brought[i]
    BY <1>4, <1>5
  <2> QED BY <1>4, <1>5, <2>1, TotalAdd
<1>9. /\ Total(cash) \in Int /\ Total(in) \in Int /\ Total(out) \in Int
      /\ Total(brought) \in Int /\ Total(drawn) \in Int
  BY <1>4, TotalType
<1>10. Total(in) - Total(out) + Total(brought) - Total(drawn) = Total(cash)
  BY <1>6, <1>7, <1>8, <1>9
<1>11. /\ Owners!RowsOf(contributions, f, d) = Total(brought)
       /\ Owners!RowsOf(distributions, f, d) = Total(drawn)
  BY <1>3 DEF OwnersInv, CapitalPosted
<1> QED BY <1>3, <1>9, <1>10, <1>11 DEF Owners!AvailableForDistribution

\* Entries as operations write them.
LEMMA EntryIs ==
    ASSUME NEW source, NEW property, NEW whom, NEW f, NEW in \in Nat, NEW out \in Nat,
           NEW date \in Nat, NEW e, e = Owners!Entry(source, property, whom, f, in, out, date)
    PROVE  /\ DOMAIN e = OwnerFields
           /\ e.source = source /\ e.property = property /\ e.for = whom /\ e.portfolio = f
           /\ e.in = in /\ e.out = out /\ e.date = date /\ e.of = 0
BY DEF Owners!Entry, OwnerFields

\* A new entry is another such row.
LEMMA RowsAppended ==
    ASSUME OwnersInv, portfolioOf' = portfolioOf, NEW e, OwnerRow(e, portfolioOf),
           cashEntries' = Append(cashEntries, e)
    PROVE  /\ Listed(cashEntries')
           /\ \A i \in DOMAIN cashEntries' : OwnerRow(cashEntries'[i], portfolioOf')
<1>1. \A i \in DOMAIN cashEntries : OwnerRow(cashEntries[i], portfolioOf)
  BY DEF OwnersInv
<1>2. /\ DOMAIN cashEntries' = 1 .. Len(cashEntries) + 1 /\ Listed(cashEntries')
      /\ DOMAIN cashEntries = 1 .. Len(cashEntries) /\ Len(cashEntries) \in Nat
      /\ \A i \in 1 .. Len(cashEntries) : cashEntries'[i] = cashEntries[i]
      /\ cashEntries'[Len(cashEntries) + 1] = e
  BY ListedAppend DEF OwnersInv
<1>3. \A i \in 1 .. Len(cashEntries) + 1 :
          i \in 1 .. Len(cashEntries) \/ i = Len(cashEntries) + 1
  BY <1>2
<1> QED BY <1>1, <1>2, <1>3

\* An entry of another kind leaves the capital alone.
LEMMA OtherEntry ==
    ASSUME OwnersInv, UNCHANGED <<today, portfolioOf, contributions, distributions>>,
           NEW e, OwnerRow(e, portfolioOf), e.source \notin Capital,
           cashEntries' = Append(cashEntries, e)
    PROVE  OwnersInv'
<1>1. ASSUME NEW f \in Portfolios, NEW d \in Nat
      PROVE  /\ BroughtIn(cashEntries', f, d) = Owners!RowsOf(contributions, f, d)
             /\ DrawnOut(cashEntries', f, d) = Owners!RowsOf(distributions, f, d)
  <2>1. e.source # "client_contribution" /\ e.source # "client_draw"
    BY DEF Capital
  <2>2. /\ BroughtIn(cashEntries', f, d) = BroughtIn(cashEntries, f, d) + 0
        /\ DrawnOut(cashEntries', f, d) = DrawnOut(cashEntries, f, d) + 0
    <3>1. /\ BroughtIn(Append(cashEntries, e), f, d) = BroughtIn(cashEntries, f, d) + 0
          /\ DrawnOut(Append(cashEntries, e), f, d) = DrawnOut(cashEntries, f, d) + 0
      BY <2>1, CapitalOfEntry
    <3> QED BY <3>1
  <2>3. /\ BroughtIn(cashEntries, f, d) = Owners!RowsOf(contributions, f, d)
        /\ DrawnOut(cashEntries, f, d) = Owners!RowsOf(distributions, f, d)
    BY DEF OwnersInv, CapitalPosted
  <2>4. /\ Owners!RowsOf(contributions, f, d) \in Int
        /\ Owners!RowsOf(distributions, f, d) \in Int
    BY RowsTotalled DEF OwnersInv
  <2> QED BY <2>2, <2>3, <2>4
<1>2. CapitalPosted'
  BY <1>1 DEF CapitalPosted
<1> QED BY <1>2, RowsAppended DEF OwnersInv

\* One of capital comes with its row.
LEMMA ContributionEntry ==
    ASSUME OwnersInv, UNCHANGED <<today, portfolioOf, distributions>>,
           NEW e, OwnerRow(e, portfolioOf), e.source = "client_contribution",
           cashEntries' = Append(cashEntries, e),
           NEW row \in CapitalRow, contributions' = Append(contributions, row),
           row.portfolio = e.portfolio, row.amount = e.in, row.date = e.date
    PROVE  OwnersInv'
<1>1. ASSUME NEW f \in Portfolios, NEW d \in Nat
      PROVE  /\ BroughtIn(cashEntries', f, d) = Owners!RowsOf(contributions', f, d)
             /\ DrawnOut(cashEntries', f, d) = Owners!RowsOf(distributions, f, d)
  <2> DEFINE v == IF e.portfolio = f /\ e.date <= d THEN e.in ELSE 0
  <2>1. /\ BroughtIn(cashEntries', f, d) = BroughtIn(cashEntries, f, d) + v
        /\ DrawnOut(cashEntries', f, d) = DrawnOut(cashEntries, f, d) + 0
    <3>1. /\ BroughtIn(Append(cashEntries, e), f, d) = BroughtIn(cashEntries, f, d)
                + IF e.source = "client_contribution" /\ e.portfolio = f /\ e.date <= d
                  THEN e.in ELSE 0
          /\ DrawnOut(Append(cashEntries, e), f, d) = DrawnOut(cashEntries, f, d)
                + IF e.source = "client_draw" /\ e.portfolio = f /\ e.date <= d
                  THEN e.out ELSE 0
      BY CapitalOfEntry
    <3> QED BY <3>1
  <2>2. Owners!RowsOf(contributions', f, d) = Owners!RowsOf(contributions, f, d) + v
    BY RowsOfNext DEF OwnersInv
  <2>3. /\ BroughtIn(cashEntries, f, d) = Owners!RowsOf(contributions, f, d)
        /\ DrawnOut(cashEntries, f, d) = Owners!RowsOf(distributions, f, d)
    BY DEF OwnersInv, CapitalPosted
  <2>4. Owners!RowsOf(distributions, f, d) \in Int
    BY RowsTotalled DEF OwnersInv
  <2> HIDE DEF v
  <2> QED BY <2>1, <2>2, <2>3, <2>4
<1>2. CapitalPosted'
  BY <1>1 DEF CapitalPosted
<1>3. contributions' \in Seq(CapitalRow)
  BY DEF OwnersInv
<1> QED BY <1>2, <1>3, RowsAppended DEF OwnersInv

LEMMA DrawEntry ==
    ASSUME OwnersInv, UNCHANGED <<today, portfolioOf, contributions>>,
           NEW e, OwnerRow(e, portfolioOf), e.source = "client_draw",
           cashEntries' = Append(cashEntries, e),
           NEW row \in CapitalRow, distributions' = Append(distributions, row),
           row.portfolio = e.portfolio, row.amount = e.out, row.date = e.date
    PROVE  OwnersInv'
<1>1. ASSUME NEW f \in Portfolios, NEW d \in Nat
      PROVE  /\ BroughtIn(cashEntries', f, d) = Owners!RowsOf(contributions, f, d)
             /\ DrawnOut(cashEntries', f, d) = Owners!RowsOf(distributions', f, d)
  <2> DEFINE v == IF e.portfolio = f /\ e.date <= d THEN e.out ELSE 0
  <2>1. /\ BroughtIn(cashEntries', f, d) = BroughtIn(cashEntries, f, d) + 0
        /\ DrawnOut(cashEntries', f, d) = DrawnOut(cashEntries, f, d) + v
    <3>1. /\ BroughtIn(Append(cashEntries, e), f, d) = BroughtIn(cashEntries, f, d)
                + IF e.source = "client_contribution" /\ e.portfolio = f /\ e.date <= d
                  THEN e.in ELSE 0
          /\ DrawnOut(Append(cashEntries, e), f, d) = DrawnOut(cashEntries, f, d)
                + IF e.source = "client_draw" /\ e.portfolio = f /\ e.date <= d
                  THEN e.out ELSE 0
      BY CapitalOfEntry
    <3> QED BY <3>1
  <2>2. Owners!RowsOf(distributions', f, d) = Owners!RowsOf(distributions, f, d) + v
    BY RowsOfNext DEF OwnersInv
  <2>3. /\ BroughtIn(cashEntries, f, d) = Owners!RowsOf(contributions, f, d)
        /\ DrawnOut(cashEntries, f, d) = Owners!RowsOf(distributions, f, d)
    BY DEF OwnersInv, CapitalPosted
  <2>4. Owners!RowsOf(contributions, f, d) \in Int
    BY RowsTotalled DEF OwnersInv
  <2> HIDE DEF v
  <2> QED BY <2>1, <2>2, <2>3, <2>4
<1>2. CapitalPosted'
  BY <1>1 DEF CapitalPosted
<1>3. distributions' \in Seq(CapitalRow)
  BY DEF OwnersInv
<1> QED BY <1>2, <1>3, RowsAppended DEF OwnersInv

LEMMA OwnersInitial ==
    Owners!ClientAccountingAssumption /\ OwnersStay /\ Owners!CAInit => OwnersInv
<1> SUFFICES ASSUME Owners!ClientAccountingAssumption, OwnersStay, Owners!CAInit PROVE OwnersInv
  OBVIOUS
<1>1. /\ today = 1 /\ portfolioOf = InitialPortfolio /\ cashEntries = << >>
      /\ contributions = << >> /\ distributions = << >>
  BY DEF Owners!CAInit
<1>2. portfolioOf \in [Properties -> Portfolios]
  BY <1>1 DEF Owners!ClientAccountingAssumption
<1>3. ASSUME NEW f, NEW d
      PROVE  /\ Owners!RowsOf(<< >>, f, d) = 0
             /\ BroughtIn(<< >>, f, d) = 0 /\ DrawnOut(<< >>, f, d) = 0
  <2>1. ASSUME NEW g, g = [i \in DOMAIN << >> |-> g[i]] PROVE Total(g) = 0
    <3>1. g = << >>
      BY <2>1
    <3> QED BY <3>1, TotalEmpty
  <2> QED BY <2>1, OwnersTotal DEF Owners!RowsOf, BroughtIn, DrawnOut
<1>4. CapitalPosted
  BY <1>1, <1>3 DEF CapitalPosted
<1> QED BY <1>1, <1>2, <1>4, ListedEmpty DEF OwnersInv

\* A reversal is an entry of its own.
LEMMA ReversalIs ==
    ASSUME OwnersInv, NEW i \in DOMAIN cashEntries, NEW e,
           e = [cashEntries[i] EXCEPT !.source = "reversal", !.in = cashEntries[i].out,
                                      !.out = cashEntries[i].in, !.date = today, !.of = i]
    PROVE  /\ OwnerRow(e, portfolioOf) /\ e.source = "reversal" /\ e.source \notin Capital
           /\ e.property = cashEntries[i].property
           /\ e.in = cashEntries[i].out /\ e.out = cashEntries[i].in
<1> DEFINE x == cashEntries[i]
<1>1. OwnerRow(x, portfolioOf) /\ today \in Nat
  BY DEF OwnersInv
<1> HIDE DEF x
<1>2. DOMAIN x = OwnerFields
  BY <1>1 DEF OwnerRow
<1>3. e = [x EXCEPT !.source = "reversal", !.in = x.out, !.out = x.in, !.date = today, !.of = i]
  BY DEF x
<1>4. /\ DOMAIN e = OwnerFields /\ e.source = "reversal" /\ e.property = x.property
      /\ e.for = x.for /\ e.in = x.out /\ e.out = x.in /\ e.date = today
  BY <1>2, <1>3 DEF OwnerFields
<1>5. e.source \notin Capital
  BY <1>4 DEF Capital
<1>6. OwnerRow(e, portfolioOf)
  BY <1>1, <1>4, <1>5 DEF OwnerRow
<1> QED BY <1>4, <1>5, <1>6 DEF x

\* What operations other than contributions and draws do to the money.
OtherOwnerStep ==
    \/ \E p \in Properties, amount \in Amounts :
          \/ Owners!ReceiveRent(p, amount) \/ Owners!PayExpense(p, amount)
          \/ Owners!CreateVendorCheck(p, amount)
    \/ \E i \in DOMAIN cashEntries : Owners!ReverseEntry(i)
    \/ \E a \in DOMAIN agreements : \E month : Owners!PostManagementFee(a, month)

LEMMA OtherEntryIs ==
    ASSUME OwnersInv, OtherOwnerStep
    PROVE  \E e : /\ OwnerRow(e, portfolioOf) /\ e.source \notin Capital
                  /\ cashEntries' = Append(cashEntries, e)
                  /\ \/ e.property # None \/ "check" \in Uses
                     \/ e.in = 0 /\ e.out = 0
                     \/ \E i \in DOMAIN cashEntries :
                          /\ "reverse" \in Uses
                          /\ e.property = cashEntries[i].property
                          /\ e.in = cashEntries[i].out /\ e.out = cashEntries[i].in
<1>1. today \in Nat /\ Amounts \subseteq Nat /\ None \notin Properties
  BY DEF OwnersInv, Owners!ClientAccountingAssumption
<1>2. ASSUME NEW p \in Properties, NEW amount \in Amounts,
             \/ Owners!ReceiveRent(p, amount) \/ Owners!PayExpense(p, amount)
             \/ Owners!CreateVendorCheck(p, amount)
      PROVE  \E e : /\ OwnerRow(e, portfolioOf) /\ e.source \notin Capital
                    /\ cashEntries' = Append(cashEntries, e)
                    /\ e.property # None \/ "check" \in Uses
  <2>1. p # None /\ amount \in Nat
    BY <1>1
  <2>2. CASE Owners!ReceiveRent(p, amount)
    <3> DEFINE e == Owners!Entry("payment", p, p, portfolioOf[p], amount, 0, today)
    <3>1. cashEntries' = Append(cashEntries, e)
      BY <2>2 DEF Owners!ReceiveRent, Owners!Post
    <3>2. /\ DOMAIN e = OwnerFields /\ e.source = "payment" /\ e.property = p /\ e.for = p
          /\ e.in = amount /\ e.out = 0 /\ e.date = today
      BY <1>1, <2>1, EntryIs
    <3> HIDE DEF e
    <3>3. OwnerRow(e, portfolioOf) /\ e.source \notin Capital
      BY <1>1, <2>1, <3>2 DEF OwnerRow, Capital
    <3> QED BY <2>1, <3>1, <3>2, <3>3
  <2>3. CASE Owners!PayExpense(p, amount)
    <3> DEFINE e == Owners!Entry("expense", p, p, portfolioOf[p], 0, amount, today)
    <3>1. cashEntries' = Append(cashEntries, e)
      BY <2>3 DEF Owners!PayExpense, Owners!Post
    <3>2. /\ DOMAIN e = OwnerFields /\ e.source = "expense" /\ e.property = p /\ e.for = p
          /\ e.in = 0 /\ e.out = amount /\ e.date = today
      BY <1>1, <2>1, EntryIs
    <3> HIDE DEF e
    <3>3. OwnerRow(e, portfolioOf) /\ e.source \notin Capital
      BY <1>1, <2>1, <3>2 DEF OwnerRow, Capital
    <3> QED BY <2>1, <3>1, <3>2, <3>3
  <2>4. CASE Owners!CreateVendorCheck(p, amount)
    <3> DEFINE e == Owners!Entry("vendor_check", None, p, portfolioOf[p], 0, amount, today)
    <3>1. cashEntries' = Append(cashEntries, e) /\ "check" \in Uses
      BY <2>4 DEF Owners!CreateVendorCheck, Owners!Post
    <3>2. /\ DOMAIN e = OwnerFields /\ e.source = "vendor_check" /\ e.property = None
          /\ e.in = 0 /\ e.out = amount /\ e.date = today
      BY <1>1, <2>1, EntryIs
    <3> HIDE DEF e
    <3>3. OwnerRow(e, portfolioOf) /\ e.source \notin Capital
      BY <1>1, <2>1, <3>2 DEF OwnerRow, Capital
    <3> QED BY <3>1, <3>3
  <2> QED BY <1>2, <2>2, <2>3, <2>4
<1>3. ASSUME NEW i \in DOMAIN cashEntries, Owners!ReverseEntry(i)
      PROVE  \E e : /\ OwnerRow(e, portfolioOf) /\ e.source \notin Capital
                    /\ cashEntries' = Append(cashEntries, e)
                    /\ "reverse" \in Uses
                    /\ e.property = cashEntries[i].property
                    /\ e.in = cashEntries[i].out /\ e.out = cashEntries[i].in
  <2> DEFINE e == [cashEntries[i] EXCEPT !.source = "reversal", !.in = cashEntries[i].out,
                                         !.out = cashEntries[i].in, !.date = today, !.of = i]
  <2>1. cashEntries' = Append(cashEntries, e) /\ "reverse" \in Uses
    BY <1>3 DEF Owners!ReverseEntry, Owners!Post
  <2>2. /\ OwnerRow(e, portfolioOf) /\ e.source \notin Capital
        /\ e.property = cashEntries[i].property
        /\ e.in = cashEntries[i].out /\ e.out = cashEntries[i].in
    BY ReversalIs
  <2> HIDE DEF e
  <2> QED BY <2>1, <2>2
<1>4. ASSUME NEW a \in DOMAIN agreements, NEW month, Owners!PostManagementFee(a, month)
      PROVE  \E e : /\ OwnerRow(e, portfolioOf) /\ e.source \notin Capital
                    /\ cashEntries' = Append(cashEntries, e)
                    /\ e.in = 0 /\ e.out = 0
  <2> DEFINE p == agreements[a].property
             x == Owners!Entry("management_fee", p, p, agreements[a].portfolio, 0, 0, today)
             fee == Owners!CalculateManagementFee(a, month)
             e == [x EXCEPT !.agreement = a, !.month = month, !.fee = fee]
  <2>1. cashEntries' = Append(cashEntries, e)
    BY <1>4 DEF Owners!PostManagementFee, Owners!Post
  <2>2. /\ DOMAIN x = OwnerFields /\ x.source = "management_fee" /\ x.property = x.for
        /\ x.in = 0 /\ x.out = 0 /\ x.date = today
    BY <1>1, EntryIs
  <2> HIDE DEF p, x, fee
  <2>3. /\ DOMAIN e = OwnerFields /\ e.source = "management_fee" /\ e.property = e.for
        /\ e.in = 0 /\ e.out = 0 /\ e.date = today
    BY <2>2 DEF OwnerFields
  <2> HIDE DEF e
  <2>4. OwnerRow(e, portfolioOf) /\ e.source \notin Capital
    BY <1>1, <2>3 DEF OwnerRow, Capital
  <2> QED BY <2>1, <2>3, <2>4
<1> QED BY <1>2, <1>3, <1>4 DEF OtherOwnerStep

\* Contributions and draws, as entries.
LEMMA ContributionIs ==
    ASSUME OwnersInv, NEW f \in Portfolios, NEW p \in Properties \cup {None},
           NEW amount \in Amounts, NEW date \in 1 .. today,
           Owners!CreateCapitalContribution(f, p, amount, date)
    PROVE  /\ OwnersInv'
           /\ \E e : /\ cashEntries' = Append(cashEntries, e) /\ e.source \in Capital
                     /\ e.property = p
           /\ p = None => "whole" \in Uses
<1> DEFINE e == Owners!Entry("client_contribution", p, p, f, amount, 0, date)
           row == [portfolio |-> f, amount |-> amount, date |-> date]
<1>1. /\ "contribute" \in Uses /\ cashEntries' = Append(cashEntries, e)
      /\ contributions' = Append(contributions, row)
      /\ UNCHANGED <<today, portfolioOf, distributions>>
      /\ IF p = None THEN "whole" \in Uses ELSE portfolioOf[p] = f
  BY DEF Owners!CreateCapitalContribution, Owners!Post
<1>2. amount \in Nat /\ date \in Nat /\ "move" \notin Uses
  BY <1>1 DEF OwnersInv, OwnersStay, Owners!ClientAccountingAssumption
<1>3. /\ DOMAIN e = OwnerFields /\ e.source = "client_contribution" /\ e.property = p
      /\ e.for = p /\ e.portfolio = f /\ e.in = amount /\ e.out = 0 /\ e.date = date
  BY <1>2, EntryIs
<1>4. row \in CapitalRow /\ row.portfolio = f /\ row.amount = amount /\ row.date = date
  BY <1>2 DEF CapitalRow
<1> HIDE DEF e, row
<1>5. OwnerRow(e, portfolioOf) /\ e.source \in Capital
  BY <1>1, <1>2, <1>3 DEF OwnerRow, Capital
<1>6. OwnersInv'
  BY <1>1, <1>3, <1>4, <1>5, ContributionEntry
<1> QED BY <1>1, <1>3, <1>5, <1>6

DrawPosts(e, f, p, amount, date) ==
    /\ cashEntries' = Append(cashEntries, e) /\ OwnerRow(e, portfolioOf)
    /\ e.source \in Capital /\ e.property = p /\ e.portfolio = f
    /\ e.in = 0 /\ e.out = amount /\ e.date = date

LEMMA DrawIs ==
    ASSUME OwnersInv, NEW f \in Portfolios, NEW p \in Properties \cup {None},
           NEW amount \in Amounts, NEW date \in 1 .. today,
           Owners!CreateDistribution(f, p, amount, date)
    PROVE  /\ OwnersInv'
           /\ \E e : DrawPosts(e, f, p, amount, date)
           /\ \E row : /\ distributions' = Append(distributions, row) /\ row.portfolio = f
           /\ p = None => "whole" \in Uses
<1> DEFINE e == Owners!Entry("client_draw", p, p, f, 0, amount, date)
           row == [portfolio |-> f, amount |-> amount, date |-> date]
<1>1. /\ "draw" \in Uses /\ cashEntries' = Append(cashEntries, e)
      /\ distributions' = Append(distributions, row)
      /\ UNCHANGED <<today, portfolioOf, contributions>>
      /\ IF p = None THEN "whole" \in Uses ELSE portfolioOf[p] = f
  BY DEF Owners!CreateDistribution, Owners!Post
<1>2. amount \in Nat /\ date \in Nat /\ "move" \notin Uses
  BY <1>1 DEF OwnersInv, OwnersStay, Owners!ClientAccountingAssumption
<1>3. /\ DOMAIN e = OwnerFields /\ e.source = "client_draw" /\ e.property = p
      /\ e.for = p /\ e.portfolio = f /\ e.in = 0 /\ e.out = amount /\ e.date = date
  BY <1>2, EntryIs
<1>4. row \in CapitalRow /\ row.portfolio = f /\ row.amount = amount /\ row.date = date
  BY <1>2 DEF CapitalRow
<1> HIDE DEF e, row
<1>5. OwnerRow(e, portfolioOf) /\ e.source \in Capital
  BY <1>1, <1>2, <1>3 DEF OwnerRow, Capital
<1>6. OwnersInv'
  BY <1>1, <1>3, <1>4, <1>5, DrawEntry
<1>7. DrawPosts(e, f, p, amount, date)
  BY <1>1, <1>3, <1>5 DEF DrawPosts
<1> QED BY <1>1, <1>4, <1>6, <1>7

\* The steps of owners' money, sorted.
LEMMA OwnerSteps ==
    ASSUME OwnersInv, Owners!CANext
    PROVE  \/ OtherOwnerStep /\ UNCHANGED <<today, portfolioOf, contributions, distributions>>
           \/ \E f \in Portfolios, p \in Properties \cup {None}, amount \in Amounts,
                 date \in 1 .. today : Owners!CreateCapitalContribution(f, p, amount, date)
           \/ \E f \in Portfolios, p \in Properties \cup {None}, amount \in Amounts,
                 date \in 1 .. today :
                   /\ Owners!CreateDistribution(f, p, amount, date)
                   /\ date \in Owners!Dates("backdate")
           \/ \E p \in Properties, f \in Portfolios : Owners!MoveProperty(p, f)
           \/ /\ today' \in {today, today + 1}
              /\ UNCHANGED <<portfolioOf, cashEntries, contributions, distributions>>
<1>1. ASSUME NEW p \in Properties, NEW amount \in Amounts,
             \/ Owners!ReceiveRent(p, amount) \/ Owners!PayExpense(p, amount)
             \/ Owners!CreateVendorCheck(p, amount)
      PROVE  OtherOwnerStep /\ UNCHANGED <<today, portfolioOf, contributions, distributions>>
  BY <1>1 DEF OtherOwnerStep, Owners!ReceiveRent, Owners!PayExpense, Owners!CreateVendorCheck
<1>2. ASSUME NEW i \in DOMAIN cashEntries, Owners!ReverseEntry(i)
      PROVE  OtherOwnerStep /\ UNCHANGED <<today, portfolioOf, contributions, distributions>>
  BY <1>2 DEF OtherOwnerStep, Owners!ReverseEntry
<1>3. ASSUME NEW a \in DOMAIN agreements, NEW month, Owners!PostManagementFee(a, month)
      PROVE  OtherOwnerStep /\ UNCHANGED <<today, portfolioOf, contributions, distributions>>
  BY <1>3 DEF OtherOwnerStep, Owners!PostManagementFee
<1>4. ASSUME NEW date \in Owners!Dates("backdate") PROVE date \in 1 .. today
  BY <1>4 DEF Owners!Dates, OwnersInv
<1>5. ASSUME NEW f \in Portfolios, NEW p \in Properties \cup {None}, NEW method,
             Owners!CreateManagementFeeAgreement(f, p, method)
      PROVE  UNCHANGED <<today, portfolioOf, cashEntries, contributions, distributions>>
  BY <1>5 DEF Owners!CreateManagementFeeAgreement
<1>6. ASSUME NEW a, Owners!DeleteManagementFeeAgreement(a)
      PROVE  UNCHANGED <<today, portfolioOf, cashEntries, contributions, distributions>>
  BY <1>6 DEF Owners!DeleteManagementFeeAgreement
<1>7. ASSUME Owners!NextDay
      PROVE  /\ today' = today + 1
             /\ UNCHANGED <<portfolioOf, cashEntries, contributions, distributions>>
  BY <1>7 DEF Owners!NextDay
<1> QED BY <1>1, <1>2, <1>3, <1>4, <1>5, <1>6, <1>7 DEF Owners!CANext, Owners!Indices

LEMMA UnchangedOwners ==
    ASSUME OwnersInv, today' \in {today, today + 1},
           UNCHANGED <<portfolioOf, cashEntries, contributions, distributions>>
    PROVE  OwnersInv'
<1>1. CapitalPosted'
  BY DEF OwnersInv, CapitalPosted
<1>2. today' \in Nat \ {0}
  BY DEF OwnersInv
<1> QED BY <1>1, <1>2 DEF OwnersInv

LEMMA OwnersStep == OwnersInv /\ [Owners!CANext]_(Owners!caVars) => OwnersInv'
<1> SUFFICES ASSUME OwnersInv, [Owners!CANext]_(Owners!caVars) PROVE OwnersInv'
  OBVIOUS
<1>1. CASE UNCHANGED Owners!caVars
  BY <1>1, UnchangedOwners DEF Owners!caVars
<1>2. CASE OtherOwnerStep /\ UNCHANGED <<today, portfolioOf, contributions, distributions>>
  <2>1. PICK e : /\ OwnerRow(e, portfolioOf) /\ e.source \notin Capital
                 /\ cashEntries' = Append(cashEntries, e)
    BY <1>2, OtherEntryIs
  <2> QED BY <1>2, <2>1, OtherEntry
<1>3. ASSUME NEW f \in Portfolios, NEW p \in Properties \cup {None}, NEW amount \in Amounts,
             NEW date \in 1 .. today,
             \/ Owners!CreateCapitalContribution(f, p, amount, date)
             \/ Owners!CreateDistribution(f, p, amount, date)
      PROVE  OwnersInv'
  BY <1>3, ContributionIs, DrawIs
<1>4. ASSUME NEW p \in Properties, NEW f \in Portfolios, Owners!MoveProperty(p, f)
      PROVE  OwnersInv'
  <2>1. /\ "move" \in Uses /\ portfolioOf' = [portfolioOf EXCEPT ![p] = f]
        /\ UNCHANGED <<today, cashEntries, contributions, distributions>>
    BY <1>4 DEF Owners!MoveProperty
  <2>2. portfolioOf' \in [Properties -> Portfolios]
    BY <2>1 DEF OwnersInv
  <2>3. \A i \in DOMAIN cashEntries : OwnerRow(cashEntries[i], portfolioOf')
    <3>1. \A i \in DOMAIN cashEntries : OwnerRow(cashEntries[i], portfolioOf)
      BY DEF OwnersInv
    <3> QED BY <2>1, <3>1 DEF OwnerRow
  <2>4. CapitalPosted'
    BY <2>1 DEF OwnersInv, CapitalPosted
  <2> QED BY <2>1, <2>2, <2>3, <2>4 DEF OwnersInv
<1>5. CASE /\ today' \in {today, today + 1}
           /\ UNCHANGED <<portfolioOf, cashEntries, contributions, distributions>>
  BY <1>5, UnchangedOwners
<1> QED BY <1>1, <1>2, <1>3, <1>4, <1>5, OwnerSteps

\* The sum of contributions less draws that getPortfolioCashSummary adds to the
\* lines of the journal makes the cash of the portfolio on every day, where no
\* property with capital changes its portfolio and every line names its property.
THEOREM CashAvailable ==
    Owners!ClientAccountingAssumption /\ OwnersStay /\ Owners!CASpec
        => []Owners!AvailableIsCash
<1>1. ASSUME OwnersInv PROVE Owners!AvailableIsCash
  <2>1. SUFFICES ASSUME NEW f \in Portfolios, NEW d \in 1 .. today,
                        \A i \in DOMAIN cashEntries : cashEntries[i].property # None
                 PROVE  Owners!AvailableForDistribution(f, d) = Owners!Max0(Owners!CashOf(f, d))
    BY DEF Owners!AvailableIsCash, Owners!Indices
  <2>2. d \in Nat
    BY <1>1 DEF OwnersInv
  <2> QED BY <1>1, <2>1, <2>2, CashIs
<1> QED BY <1>1, OwnersInitial, OwnersStep, PTL DEF Owners!CASpec

\* The entries that name no property, where draws are to be covered.
NamedRow(e) ==
    \/ e.property # None
    \/ e.in = 0 /\ e.out = 0
    \/ e.source \in Capital /\ "reverse" \notin Uses

\* Checks, whose lines name no property; draws of an earlier day; and reversals
\* of what a whole portfolio drew or contributed are not in use.
DrawsInOrder ==
    "check" \notin Uses /\ "backdate" \notin Uses /\ ("reverse" \notin Uses \/ "whole" \notin Uses)
DrawsInv ==
    DrawsInOrder /\ OwnersInv /\ \A i \in DOMAIN cashEntries : NamedRow(cashEntries[i])

LEMMA NamedAppended ==
    ASSUME DrawsInv, NEW e, NamedRow(e), cashEntries' = Append(cashEntries, e)
    PROVE  \A i \in DOMAIN cashEntries' : NamedRow(cashEntries'[i])
<1>1. \A i \in DOMAIN cashEntries : NamedRow(cashEntries[i])
  BY DEF DrawsInv
<1>2. /\ DOMAIN cashEntries' = 1 .. Len(cashEntries) + 1
      /\ DOMAIN cashEntries = 1 .. Len(cashEntries) /\ Len(cashEntries) \in Nat
      /\ \A i \in 1 .. Len(cashEntries) : cashEntries'[i] = cashEntries[i]
      /\ cashEntries'[Len(cashEntries) + 1] = e
  BY ListedAppend DEF DrawsInv, OwnersInv
<1>3. \A i \in 1 .. Len(cashEntries) + 1 :
          i \in 1 .. Len(cashEntries) \/ i = Len(cashEntries) + 1
  BY <1>2
<1> QED BY <1>1, <1>2, <1>3

LEMMA DrawsStep == DrawsInv /\ [Owners!CANext]_(Owners!caVars) => DrawsInv'
<1> SUFFICES ASSUME DrawsInv, [Owners!CANext]_(Owners!caVars)
             PROVE  \A i \in DOMAIN cashEntries' : NamedRow(cashEntries'[i])
  BY OwnersStep DEF DrawsInv
<1>1. DrawsInOrder /\ OwnersInv /\ \A i \in DOMAIN cashEntries : NamedRow(cashEntries[i])
  BY DEF DrawsInv
<1>2. CASE UNCHANGED cashEntries
  BY <1>1, <1>2
<1>3. CASE OtherOwnerStep
  <2>1. PICK e : /\ OwnerRow(e, portfolioOf) /\ e.source \notin Capital
                 /\ cashEntries' = Append(cashEntries, e)
                 /\ \/ e.property # None \/ "check" \in Uses
                    \/ e.in = 0 /\ e.out = 0
                    \/ \E i \in DOMAIN cashEntries :
                          /\ "reverse" \in Uses
                          /\ e.property = cashEntries[i].property
                          /\ e.in = cashEntries[i].out /\ e.out = cashEntries[i].in
    BY <1>1, <1>3, OtherEntryIs
  <2>2. NamedRow(e)
    BY <1>1, <2>1 DEF NamedRow, DrawsInOrder
  <2> QED BY <2>1, <2>2, NamedAppended
<1>4. ASSUME NEW f \in Portfolios, NEW p \in Properties \cup {None}, NEW amount \in Amounts,
             NEW date \in 1 .. today,
             \/ Owners!CreateCapitalContribution(f, p, amount, date)
             \/ Owners!CreateDistribution(f, p, amount, date)
      PROVE  \A i \in DOMAIN cashEntries' : NamedRow(cashEntries'[i])
  <2>1. /\ \E e : /\ cashEntries' = Append(cashEntries, e) /\ e.source \in Capital
                  /\ e.property = p
        /\ p = None => "whole" \in Uses
    <3>1. CASE Owners!CreateCapitalContribution(f, p, amount, date)
      BY <1>1, <3>1, ContributionIs
    <3>2. CASE Owners!CreateDistribution(f, p, amount, date)
      <4>1. PICK e : DrawPosts(e, f, p, amount, date)
        BY <1>1, <3>2, DrawIs
      <4>2. p = None => "whole" \in Uses
        BY <1>1, <3>2, DrawIs
      <4> QED BY <4>1, <4>2 DEF DrawPosts
    <3> QED BY <1>4, <3>1, <3>2
  <2>2. PICK e : /\ cashEntries' = Append(cashEntries, e) /\ e.source \in Capital
                 /\ e.property = p
    BY <2>1
  <2>3. NamedRow(e)
    BY <1>1, <2>1, <2>2 DEF NamedRow, DrawsInOrder
  <2> QED BY <2>2, <2>3, NamedAppended
<1>5. ASSUME NEW p \in Properties, NEW f \in Portfolios, Owners!MoveProperty(p, f)
      PROVE  UNCHANGED cashEntries
  BY <1>5 DEF Owners!MoveProperty
<1>6. UNCHANGED Owners!caVars => UNCHANGED cashEntries
  BY DEF Owners!caVars
<1> QED BY <1>1, <1>2, <1>3, <1>4, <1>5, <1>6, OwnerSteps

\* A draw takes its amount from the cash of its portfolio.
LEMMA CashDrawn ==
    ASSUME OwnersInv, NEW f \in Portfolios, NEW d \in Nat, NEW e, OwnerRow(e, portfolioOf),
           e.source \in Capital, e.portfolio = f, e.in = 0, e.date <= d,
           cashEntries' = Append(cashEntries, e), portfolioOf' = portfolioOf,
           today' = today, d = today
    PROVE  Owners!CashOf(f, today)' = Owners!CashOf(f, today) - e.out
<1> DEFINE n == Len(cashEntries)
           value(x) == IF /\ IF x.for # None THEN portfolioOf[x.for] = f ELSE x.portfolio = f
                          /\ x.date <= d
                       THEN x.in - x.out ELSE 0
           c == [i \in 1 .. n |-> value(cashEntries[i])]
<1>1. /\ n \in Nat /\ DOMAIN cashEntries = 1 .. n /\ DOMAIN cashEntries' = 1 .. n + 1
      /\ \A i \in 1 .. n : cashEntries'[i] = cashEntries[i]
      /\ cashEntries'[n + 1] = e
  BY ListedAppend DEF OwnersInv
<1>2. Owners!CashOf(f, today) = Total(c)
  BY <1>1, OwnersTotal DEF Owners!CashOf, Owners!Indices, Owners!Belongs
<1>3. Owners!CashOf(f, today)' = Total([i \in 1 .. n + 1 |-> value(cashEntries'[i])])
  BY <1>1, OwnersTotal DEF Owners!CashOf, Owners!Indices, Owners!Belongs
<1>4. ASSUME NEW x, OwnerRow(x, portfolioOf) PROVE value(x) \in Int
  BY <1>4 DEF OwnerRow
<1>5. value(e) = -e.out /\ e.out \in Nat
  BY DEF OwnerRow
<1>6. \A i \in 1 .. n : value(cashEntries[i]) \in Int
  BY <1>1, <1>4 DEF OwnersInv
<1> HIDE DEF n, value
<1>7. c \in Seq(Int) /\ Len(c) = n
  BY <1>1, <1>6
<1>8. [i \in 1 .. n + 1 |-> value(cashEntries'[i])] = Append(c, value(e))
  BY <1>1, <1>7
<1>9. Total(Append(c, value(e))) = Total(c) + value(e) /\ Total(c) \in Int
  BY <1>5, <1>7, TotalAppend, TotalType
<1> QED BY <1>2, <1>3, <1>5, <1>8, <1>9

\* No draw takes more than its portfolio has: "enforces cash sufficiency on
\* distributions" (client_accounting.test.ts).  A draw dates from today, and the
\* cash of its portfolio is at least nothing after it.
THEOREM DrawsCovered ==
    Owners!ClientAccountingAssumption /\ OwnersStay /\ DrawsInOrder /\ Owners!CASpec
        => Owners!DrawsAreCovered
<1> DEFINE Covers == \A f \in Portfolios :
              Len(distributions') > Len(distributions)
                  /\ Owners!Last(distributions').portfolio = f
                  => Owners!CashOf(f, today)' >= 0
<1>1. ASSUME DrawsInv, [Owners!CANext]_(Owners!caVars) PROVE Covers
  <2>1. DrawsInOrder /\ OwnersInv /\ \A i \in DOMAIN cashEntries : NamedRow(cashEntries[i])
    BY <1>1 DEF DrawsInv
  <2>2. Len(distributions) \in Nat
    BY <2>1 DEF OwnersInv
  <2>3. CASE UNCHANGED distributions
    BY <2>2, <2>3
  <2>4. ASSUME NEW g \in Portfolios, NEW p \in Properties \cup {None}, NEW amount \in Amounts,
               NEW date \in 1 .. today, Owners!CreateDistribution(g, p, amount, date),
               date \in Owners!Dates("backdate")
        PROVE  Covers
    <3>1. date = today /\ today \in Nat /\ amount \in Nat
      BY <1>1, <2>1, <2>4
         DEF Owners!Dates, DrawsInOrder, OwnersInv, Owners!ClientAccountingAssumption
    <3>2. PICK e : DrawPosts(e, g, p, amount, date)
      BY <2>1, <2>4, DrawIs
    <3>3. PICK row : distributions' = Append(distributions, row) /\ row.portfolio = g
      BY <2>1, <2>4, DrawIs
    <3>4. /\ amount <= Owners!AvailableForDistribution(g, today)
          /\ UNCHANGED <<today, portfolioOf>>
      BY <2>4, <3>1 DEF Owners!CreateDistribution
    <3>5. \A i \in DOMAIN cashEntries :
              \/ cashEntries[i].property # None \/ cashEntries[i].source \in Capital
              \/ cashEntries[i].in = 0 /\ cashEntries[i].out = 0
      BY <2>1 DEF NamedRow
    <3>6. /\ Owners!CashOf(g, today) \in Int
          /\ Owners!AvailableForDistribution(g, today) = Owners!Max0(Owners!CashOf(g, today))
      BY <2>1, <3>1, <3>5, CashIs
    <3>7. Owners!CashOf(g, today)' = Owners!CashOf(g, today) - amount
      BY <2>1, <3>1, <3>2, <3>4, CashDrawn DEF DrawPosts
    <3>8. amount > 0
      BY <2>1 DEF OwnersInv, Owners!ClientAccountingAssumption
    <3>9. amount <= Owners!CashOf(g, today)
      BY <3>1, <3>4, <3>6, <3>8 DEF Owners!Max0
    <3>10. Owners!CashOf(g, today)' >= 0
      BY <3>1, <3>6, <3>7, <3>9
    <3>11. Owners!Last(distributions').portfolio = g
      BY <2>1, <3>3 DEF Owners!Last, OwnersInv
    <3> QED BY <3>10, <3>11
  <2>5. CASE OtherOwnerStep /\ UNCHANGED <<today, portfolioOf, contributions, distributions>>
    BY <2>3, <2>5
  <2>6. ASSUME NEW f, NEW p, NEW amount, NEW date,
               Owners!CreateCapitalContribution(f, p, amount, date)
        PROVE  UNCHANGED distributions
    BY <2>6 DEF Owners!CreateCapitalContribution
  <2>7. ASSUME NEW p, NEW f, Owners!MoveProperty(p, f) PROVE UNCHANGED distributions
    BY <2>7 DEF Owners!MoveProperty
  <2>8. UNCHANGED Owners!caVars => UNCHANGED distributions
    BY DEF Owners!caVars
  <2> HIDE DEF Covers
  <2> QED BY <1>1, <2>1, <2>3, <2>4, <2>5, <2>6, <2>7, <2>8, OwnerSteps
<1>2. Owners!ClientAccountingAssumption /\ OwnersStay /\ DrawsInOrder /\ Owners!CAInit => DrawsInv
  BY OwnersInitial DEF DrawsInv, Owners!CAInit
<1>3. DrawsInv /\ [Owners!CANext]_(Owners!caVars) => Covers
  BY <1>1
<1>4. Owners!ClientAccountingAssumption /\ OwnersStay /\ DrawsInOrder /\ Owners!CASpec
        => [][Covers]_(Owners!caVars)
  BY <1>2, <1>3, DrawsStep, PTL DEF Owners!CASpec
<1> QED BY <1>4 DEF Owners!DrawsAreCovered

(***************************************************************************)
(* Management fees.                                                        *)
(***************************************************************************)
\* The days of a month.
LEMMA MonthIs ==
    ASSUME NEW date \in Nat, NEW month \in Int, NEW n \in Nat \ {0}
    PROVE  (date - 1) \div n = month <=> date \in month * n + 1 .. (month + 1) * n
<1> DEFINE q == (date - 1) \div n
<1>1. q \in Int /\ n * q <= date - 1 /\ date - 1 < n * q + n
  OBVIOUS
<1> HIDE DEF q
<1>2. q = month => date \in month * n + 1 .. (month + 1) * n
  BY <1>1
<1>3. ASSUME date \in month * n + 1 .. (month + 1) * n PROVE q = month
  <2>1. n * month <= date - 1 /\ date - 1 < n * month + n
    BY <1>3
  <2>2. ~ (q < month)
    <3>1. q < month => n * (q + 1) <= n * month
      BY <1>1
    <3> QED BY <1>1, <2>1, <3>1
  <2>3. ~ (month < q)
    <3>1. month < q => n * (month + 1) <= n * q
      BY <1>1
    <3> QED BY <1>1, <2>1, <3>1
  <2> QED BY <1>1, <2>2, <2>3
<1> QED BY <1>2, <1>3 DEF q

\* Rent that is never taken back.
RentRow(e) ==
    /\ DOMAIN e = OwnerFields
    /\ e.in \in Nat /\ e.date \in Nat /\ e.of = 0
    /\ e.source = "payment" => e.out = 0
FeesInv ==
    /\ Owners!ClientAccountingAssumption /\ "reverse" \notin Uses
    /\ today \in Nat \ {0}
    /\ Listed(cashEntries) /\ \A i \in DOMAIN cashEntries : RentRow(cashEntries[i])

\* An operation of owners' money writes one entry or none.
FeePosted(e) ==
    \E a \in DOMAIN agreements, month \in Nat :
        /\ e.source = "management_fee" /\ e.agreement = a /\ e.month = month
        /\ e.fee = Owners!CalculateManagementFee(a, month)
Posting ==
    \/ UNCHANGED cashEntries
    \/ \E e : /\ cashEntries' = Append(cashEntries, e) /\ RentRow(e)
              /\ e.source # "management_fee" \/ FeePosted(e)

LEMMA PostingEntry ==
    ASSUME NEW source, NEW property, NEW whom, NEW f, NEW in \in Nat, NEW out \in Nat,
           NEW date \in Nat, source # "management_fee", source # "payment" \/ out = 0,
           cashEntries' = Append(cashEntries,
                                 Owners!Entry(source, property, whom, f, in, out, date))
    PROVE  Posting
<1> DEFINE e == Owners!Entry(source, property, whom, f, in, out, date)
<1>1. /\ DOMAIN e = OwnerFields /\ e.source = source /\ e.in = in /\ e.out = out
      /\ e.date = date /\ e.of = 0
  BY EntryIs
<1>2. cashEntries' = Append(cashEntries, e)
  OBVIOUS
<1> HIDE DEF e
<1>3. RentRow(e)
  BY <1>1 DEF RentRow
<1> QED BY <1>1, <1>2, <1>3 DEF Posting

LEMMA PostingStep == FeesInv /\ [Owners!CANext]_(Owners!caVars) => Posting /\ today' \in Nat \ {0}
<1> SUFFICES ASSUME FeesInv, [Owners!CANext]_(Owners!caVars)
             PROVE  Posting /\ today' \in Nat \ {0}
  OBVIOUS
<1>1. today \in Nat \ {0} /\ Amounts \subseteq Nat /\ "reverse" \notin Uses
  BY DEF FeesInv, Owners!ClientAccountingAssumption
<1>2. ASSUME NEW p \in Properties, NEW amount \in Amounts,
             \/ Owners!ReceiveRent(p, amount) \/ Owners!PayExpense(p, amount)
             \/ Owners!CreateVendorCheck(p, amount)
      PROVE  Posting /\ today' = today
  <2>1. amount \in Nat /\ today \in Nat
    BY <1>1
  <2>2. CASE Owners!ReceiveRent(p, amount)
    BY <2>1, <2>2, PostingEntry DEF Owners!ReceiveRent, Owners!Post
  <2>3. CASE Owners!PayExpense(p, amount)
    BY <2>1, <2>3, PostingEntry DEF Owners!PayExpense, Owners!Post
  <2>4. CASE Owners!CreateVendorCheck(p, amount)
    BY <2>1, <2>4, PostingEntry DEF Owners!CreateVendorCheck, Owners!Post
  <2> QED BY <1>2, <2>2, <2>3, <2>4
<1>3. ASSUME NEW i, Owners!ReverseEntry(i) PROVE FALSE
  BY <1>1, <1>3 DEF Owners!ReverseEntry
<1>4. ASSUME NEW p, NEW f, Owners!MoveProperty(p, f) PROVE Posting /\ today' = today
  BY <1>4 DEF Owners!MoveProperty, Posting
<1>5. ASSUME NEW f, NEW p, NEW amount \in Amounts, NEW date \in Nat,
             \/ Owners!CreateCapitalContribution(f, p, amount, date)
             \/ Owners!CreateDistribution(f, p, amount, date)
      PROVE  Posting /\ today' = today
  <2>1. amount \in Nat
    BY <1>1
  <2>2. CASE Owners!CreateCapitalContribution(f, p, amount, date)
    BY <2>1, <2>2, PostingEntry DEF Owners!CreateCapitalContribution, Owners!Post
  <2>3. CASE Owners!CreateDistribution(f, p, amount, date)
    BY <2>1, <2>3, PostingEntry DEF Owners!CreateDistribution, Owners!Post
  <2> QED BY <1>5, <2>2, <2>3
<1>6. \A date : date \in 1 .. today \/ date \in Owners!Dates("backdate") => date \in Nat
  BY <1>1 DEF Owners!Dates
<1>7. ASSUME NEW f, NEW p, NEW method, Owners!CreateManagementFeeAgreement(f, p, method)
      PROVE  Posting /\ today' = today
  BY <1>7 DEF Owners!CreateManagementFeeAgreement, Posting
<1>8. ASSUME NEW a, Owners!DeleteManagementFeeAgreement(a) PROVE Posting /\ today' = today
  BY <1>8 DEF Owners!DeleteManagementFeeAgreement, Posting
<1>9. ASSUME NEW a \in DOMAIN agreements, NEW month \in 0 .. Owners!MonthOf(today),
             Owners!PostManagementFee(a, month)
      PROVE  Posting /\ today' = today
  <2> DEFINE p == agreements[a].property
             x == Owners!Entry("management_fee", p, p, agreements[a].portfolio, 0, 0, today)
             fee == Owners!CalculateManagementFee(a, month)
             e == [x EXCEPT !.agreement = a, !.month = month, !.fee = fee]
  <2>1. cashEntries' = Append(cashEntries, e) /\ today' = today
    BY <1>9 DEF Owners!PostManagementFee, Owners!Post
  <2>2. /\ DOMAIN x = OwnerFields /\ x.source = "management_fee"
        /\ x.in = 0 /\ x.out = 0 /\ x.date = today /\ x.of = 0
    BY <1>1, EntryIs
  <2>3. month \in Nat
    OBVIOUS
  <2> HIDE DEF p, x
  <2>4. e.fee = fee
    BY <2>2 DEF OwnerFields
  <2> HIDE DEF fee
  <2>5. /\ DOMAIN e = OwnerFields /\ e.source = "management_fee"
        /\ e.in = 0 /\ e.out = 0 /\ e.date = today /\ e.of = 0
        /\ e.agreement = a /\ e.month = month
    BY <2>2 DEF OwnerFields
  <2> HIDE DEF e
  <2>6. RentRow(e)
    BY <1>1, <2>5 DEF RentRow
  <2>7. FeePosted(e)
    BY <2>3, <2>4, <2>5 DEF FeePosted, fee
  <2> QED BY <2>1, <2>6, <2>7 DEF Posting
<1>10. ASSUME Owners!NextDay PROVE Posting /\ today' = today + 1
  BY <1>10 DEF Owners!NextDay, Posting
<1>11. UNCHANGED Owners!caVars => Posting /\ today' = today
  BY DEF Owners!caVars, Posting
<1>12. Owners!CANext => Posting /\ today' \in {today, today + 1}
  BY <1>2, <1>3, <1>4, <1>5, <1>6, <1>7, <1>8, <1>9, <1>10 DEF Owners!CANext, Owners!Indices
<1> QED BY <1>1, <1>11, <1>12

LEMMA FeesStep == FeesInv /\ [Owners!CANext]_(Owners!caVars) => FeesInv'
<1> SUFFICES ASSUME FeesInv, [Owners!CANext]_(Owners!caVars) PROVE FeesInv'
  OBVIOUS
<1>1. Posting /\ today' \in Nat \ {0}
  BY PostingStep
<1>2. Listed(cashEntries) /\ \A i \in DOMAIN cashEntries : RentRow(cashEntries[i])
  BY DEF FeesInv
<1>3. Listed(cashEntries') /\ \A i \in DOMAIN cashEntries' : RentRow(cashEntries'[i])
  <2>1. CASE UNCHANGED cashEntries
    BY <1>2, <2>1
  <2>2. ASSUME NEW e, cashEntries' = Append(cashEntries, e), RentRow(e)
        PROVE  Listed(cashEntries') /\ \A i \in DOMAIN cashEntries' : RentRow(cashEntries'[i])
    <3>1. /\ DOMAIN cashEntries' = 1 .. Len(cashEntries) + 1 /\ Listed(cashEntries')
          /\ DOMAIN cashEntries = 1 .. Len(cashEntries) /\ Len(cashEntries) \in Nat
          /\ \A i \in 1 .. Len(cashEntries) : cashEntries'[i] = cashEntries[i]
          /\ cashEntries'[Len(cashEntries) + 1] = e
      BY <1>2, <2>2, ListedAppend
    <3>2. \A i \in 1 .. Len(cashEntries) + 1 :
              i \in 1 .. Len(cashEntries) \/ i = Len(cashEntries) + 1
      BY <3>1
    <3> QED BY <1>2, <2>2, <3>1, <3>2
  <2> QED BY <1>1, <2>1, <2>2 DEF Posting
<1> QED BY <1>1, <1>3 DEF FeesInv

\* The revenue of a month is the rent that was kept.
LEMMA RevenueIs ==
    ASSUME FeesInv, NEW a, NEW month \in Nat
    PROVE  Owners!CollectedRevenue(a, month) = Owners!RentKept(a, month)
<1> DEFINE n == Len(cashEntries)
           E(i) == cashEntries[i]
           paid(i) == E(i).property \in Owners!Covered(a) /\ E(i).source = "payment"
           r == [i \in 1 .. n |-> IF paid(i) /\ Owners!MonthOf(E(i).date) = month
                                  THEN E(i).in - E(i).out ELSE 0]
           k == [i \in 1 .. n |->
                   IF /\ paid(i)
                      /\ E(i).date \in month * DaysPerMonth + 1 .. (month + 1) * DaysPerMonth
                      /\ ~Owners!Reversed(i)
                   THEN E(i).in ELSE 0]
<1>1. n \in Nat /\ DOMAIN cashEntries = 1 .. n
  BY ListedAppend DEF FeesInv
<1>2. /\ Owners!CollectedRevenue(a, month) = Owners!Max0(Total(r))
      /\ Owners!RentKept(a, month) = Total(k)
  BY <1>1, OwnersTotal
     DEF Owners!CollectedRevenue, Owners!RentKept, Owners!Indices
<1>3. ASSUME NEW i \in 1 .. n PROVE r[i] = k[i] /\ r[i] \in Nat
  <2>1. RentRow(E(i)) /\ DaysPerMonth \in Nat \ {0}
    BY <1>1 DEF FeesInv, Owners!ClientAccountingAssumption
  <2>2. ~Owners!Reversed(i)
    <3>1. \A j \in 1 .. n : E(j).of = 0
      BY <1>1 DEF FeesInv, RentRow
    <3> QED BY <1>1, <3>1 DEF Owners!Reversed, Owners!Indices
  <2> HIDE DEF n, E
  <2>3. E(i).in \in Nat /\ E(i).date \in Nat /\ (E(i).source = "payment" => E(i).out = 0)
    BY <2>1 DEF RentRow
  <2>4. Owners!MonthOf(E(i).date) = month
          <=> E(i).date \in month * DaysPerMonth + 1 .. (month + 1) * DaysPerMonth
    BY <2>1, <2>3, MonthIs DEF Owners!MonthOf
  <2>5. r[i] = IF paid(i) /\ Owners!MonthOf(E(i).date) = month THEN E(i).in - E(i).out ELSE 0
    OBVIOUS
  <2>6. k[i] = IF paid(i) /\ Owners!MonthOf(E(i).date) = month THEN E(i).in ELSE 0
    BY <2>2, <2>4
  <2> HIDE DEF r, k
  <2> QED BY <2>3, <2>5, <2>6
<1> HIDE DEF n, E, paid
<1>4. r = k
  BY <1>3
<1>5. r \in Seq(Nat)
  <2>1. \A i \in 1 .. n : r[i] \in Nat
    BY <1>3
  <2> QED BY <1>1, <2>1
<1>6. Total(r) \in Nat
  BY <1>5, TotalOfNaturals
<1> HIDE DEF r, k
<1>7. \A m \in Nat : Owners!Max0(m) = m
  BY DEF Owners!Max0
<1> QED BY <1>2, <1>4, <1>6, <1>7

\* docs/modules/accounting.md: "calculate operator earned revenue based on
\* collected rent percentages".  A percentage fee is the share of the rent that
\* was collected in its month, where no entry is reversed.
THEOREM FeesFollow ==
    Owners!ClientAccountingAssumption /\ "reverse" \notin Uses /\ Owners!CASpec
        => Owners!FeesFollowRent
<1> DEFINE Follows == \A i \in DOMAIN cashEntries' \ DOMAIN cashEntries :
              LET e == cashEntries'[i] IN
              e.source = "management_fee" /\ Owners!MonthOf(today) > e.month
                  /\ agreements[e.agreement].method = "percentage_collected_revenue" =>
                      e.fee = Owners!Share(Owners!RentKept(e.agreement, e.month))
<1>1. ASSUME FeesInv, [Owners!CANext]_(Owners!caVars) PROVE Follows
  <2>1. Posting
    BY <1>1, PostingStep
  <2>2. CASE UNCHANGED cashEntries
    BY <2>2
  <2>3. ASSUME NEW e, cashEntries' = Append(cashEntries, e),
               e.source # "management_fee" \/ FeePosted(e)
        PROVE  Follows
    <3>1. \A i \in DOMAIN cashEntries' \ DOMAIN cashEntries : cashEntries'[i] = e
      <4>1. /\ DOMAIN cashEntries' = 1 .. Len(cashEntries) + 1
            /\ DOMAIN cashEntries = 1 .. Len(cashEntries) /\ Len(cashEntries) \in Nat
            /\ cashEntries'[Len(cashEntries) + 1] = e
        BY <1>1, <2>3, ListedAppend DEF FeesInv
      <4> QED BY <4>1
    <3>2. ASSUME FeePosted(e),
                 agreements[e.agreement].method = "percentage_collected_revenue"
          PROVE  e.fee = Owners!Share(Owners!RentKept(e.agreement, e.month))
      <4>1. PICK a \in DOMAIN agreements, month \in Nat :
                /\ e.agreement = a /\ e.month = month
                /\ e.fee = Owners!CalculateManagementFee(a, month)
        BY <3>2 DEF FeePosted
      <4>2. e.fee = Owners!Share(Owners!CollectedRevenue(a, month))
        BY <3>2, <4>1 DEF Owners!CalculateManagementFee
      <4> QED BY <1>1, <4>1, <4>2, RevenueIs
    <3> QED BY <2>3, <3>1, <3>2
  <2> QED BY <2>1, <2>2, <2>3 DEF Posting
<1>2. Owners!ClientAccountingAssumption /\ "reverse" \notin Uses /\ Owners!CAInit => FeesInv
  BY ListedEmpty DEF FeesInv, Owners!CAInit
<1>3. FeesInv /\ [Owners!CANext]_(Owners!caVars) => Follows
  BY <1>1
<1>4. Owners!ClientAccountingAssumption /\ "reverse" \notin Uses /\ Owners!CASpec
        => [][Follows]_(Owners!caVars)
  BY <1>2, <1>3, FeesStep, PTL DEF Owners!CASpec
<1> QED BY <1>4 DEF Owners!FeesFollowRent, Owners!Indices
==============================================================================
