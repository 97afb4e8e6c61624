---------------------------- MODULE JournalProofs -----------------------------
(***************************************************************************)
(* Theorems about Journal, for every chart of accounts, every set of       *)
(* references and every bound on the ledger, and the lemmas about Total    *)
(* they rest on, for sequences of integers of every length.                *)
(***************************************************************************)
EXTENDS Journal, FiniteSetTheorems, WellFoundedInduction, TLAPS

(***************************************************************************)
(* What Total returns.                                                     *)
(*                                                                         *)
(* Induction on the length is replaced by a least counterexample: the      *)
(* theorems on well-founded relations give every non-empty set of naturals *)
(* a least member, and the running total is extended by one row at it.     *)
(***************************************************************************)
Below == {p \in Nat \X Nat : p[1] < p[2]}

\* Every non-empty set of natural numbers has a least member.
LEMMA LeastNatural ==
    ASSUME NEW T, T \subseteq Nat, T # {}
    PROVE  \E m \in T : \A k \in T : m <= k
<1>1. IsWellFoundedOn(Below, Nat)
  BY NatLessThanWellFounded DEF OpToRel, Below
<1>2. \E m \in T : \A k \in T : ~ (<<k, m>> \in Below)
  BY <1>1, WFMin
<1>3. PICK m \in T : \A k \in T : ~ (<<k, m>> \in Below)
  BY <1>2
<1>4. \A k \in T : ~ (k < m)
  BY <1>3 DEF Below
<1> QED BY <1>4

\* r is the running total of the first n rows of f.
IsRunning(r, f, n) ==
    /\ r \in [0 .. n -> Int]
    /\ r[0] = 0
    /\ \A i \in 1 .. n : r[i] = r[i - 1] + f[i]

\* Every table has a running total.
LEMMA RunningExists ==
    ASSUME NEW f \in Seq(Int)
    PROVE  \E r : IsRunning(r, f, Len(f))
<1> DEFINE T == {n \in 0 .. Len(f) : ~ \E r : IsRunning(r, f, n)}
<1>1. SUFFICES ASSUME T # {} PROVE FALSE
  <2>1. Len(f) \in 0 .. Len(f)
    OBVIOUS
  <2> QED BY <2>1
<1>2. PICK m \in T : \A k \in T : m <= k
  <2>1. T \subseteq Nat
    OBVIOUS
  <2> HIDE DEF T
  <2> QED BY <1>1, <2>1, LeastNatural
<1>3. m # 0
  <2>1. IsRunning([i \in 0 .. 0 |-> 0], f, 0)
    BY DEF IsRunning
  <2> QED BY <2>1
<1>4. m \in 1 .. Len(f) /\ m - 1 \in 0 .. Len(f) /\ m - 1 \notin T
  BY <1>2, <1>3
<1>5. PICK r : IsRunning(r, f, m - 1)
  BY <1>4
<1> DEFINE s == [i \in 0 .. m |-> IF i = m THEN r[m - 1] + f[m] ELSE r[i]]
<1>6. IsRunning(s, f, m)
  <2>1. f[m] \in Int /\ r[m - 1] \in Int
    BY <1>4, <1>5 DEF IsRunning
  <2>2. s \in [0 .. m -> Int]
    BY <2>1, <1>4, <1>5 DEF IsRunning
  <2>3. s[0] = 0
    BY <1>4, <1>5 DEF IsRunning
  <2>4. \A i \in 1 .. m : s[i] = s[i - 1] + f[i]
    BY <1>4, <1>5 DEF IsRunning
  <2> QED BY <2>2, <2>3, <2>4 DEF IsRunning
<1> QED BY <1>6

\* Total is the last value of any running total.
LEMMA TotalIsRunning ==
    ASSUME NEW f \in Seq(Int), NEW r, IsRunning(r, f, Len(f))
    PROVE  Total(f) = r[Len(f)]
<1> DEFINE n == Len(f)
           Rec(g) == g = [i \in 0 .. n |-> IF i = 0 THEN 0 ELSE g[i - 1] + f[i]]
           g == CHOOSE h : Rec(h)
<1>1. n \in Nat
  OBVIOUS
<1>2. Rec(r)
  BY <1>1 DEF IsRunning
<1>3. Rec(g)
  BY <1>2
<1>4. Total(f) = g[n]
  BY DEF Total
<1> DEFINE T == {i \in 0 .. n : g[i] # r[i]}
<1>5. T = {}
  <2>1. SUFFICES ASSUME T # {} PROVE FALSE
    OBVIOUS
  <2>2. PICK m \in T : \A k \in T : m <= k
    <3>1. T \subseteq Nat
      OBVIOUS
    <3> HIDE DEF T
    <3> QED BY <2>1, <3>1, LeastNatural
  <2> HIDE DEF g
  <2>3. g[0] = 0 /\ \A i \in 1 .. n : g[i] = g[i - 1] + f[i]
    BY <1>1, <1>3, SMTT(30)
  <2>4. m # 0
    BY <2>2, <2>3 DEF IsRunning
  <2>5. m \in 1 .. n /\ m - 1 \in 0 .. n /\ m - 1 \notin T
    BY <2>2, <2>4, <1>1
  <2>6. g[m] = r[m]
    BY <2>3, <2>5 DEF IsRunning
  <2> QED BY <2>2, <2>6
<1> HIDE DEF g
<1> QED BY <1>1, <1>4, <1>5

\* Total returns an integer, and 0 for no rows.
LEMMA TotalType ==
    ASSUME NEW f \in Seq(Int)
    PROVE  Total(f) \in Int
<1>1. PICK r : IsRunning(r, f, Len(f))
  BY RunningExists
<1>2. r[Len(f)] \in Int
  BY <1>1 DEF IsRunning
<1> QED BY <1>1, <1>2, TotalIsRunning

LEMMA TotalEmpty == Total(<< >>) = 0
<1>1. IsRunning([i \in 0 .. 0 |-> 0], << >>, Len(<< >>))
  BY DEF IsRunning
<1>2. << >> \in Seq(Int)
  OBVIOUS
<1> QED BY <1>1, <1>2, TotalIsRunning

\* A new row adds its value.
LEMMA TotalAppend ==
    ASSUME NEW f \in Seq(Int), NEW x \in Int
    PROVE  Total(Append(f, x)) = Total(f) + x
<1> DEFINE n == Len(f)
           g == Append(f, x)
<1>1. PICK r : IsRunning(r, f, n)
  BY RunningExists
<1> DEFINE s == [i \in 0 .. n + 1 |-> IF i = n + 1 THEN r[n] + x ELSE r[i]]
<1>2. /\ g \in Seq(Int)
      /\ n \in Nat
      /\ Len(g) = n + 1
      /\ g[n + 1] = x
      /\ \A i \in 1 .. n : g[i] = f[i]
  OBVIOUS
<1>3. IsRunning(s, g, Len(g))
  <2> HIDE DEF g, n
  <2>1. s \in [0 .. n + 1 -> Int] /\ s[0] = 0
    BY <1>1, <1>2 DEF IsRunning
  <2>2. \A i \in 1 .. n + 1 : s[i] = s[i - 1] + g[i]
    BY <1>1, <1>2 DEF IsRunning
  <2> QED BY <1>2, <2>1, <2>2 DEF IsRunning
<1>4. Total(g) = s[Len(g)]
  BY <1>2, <1>3, TotalIsRunning
<1>5. Total(f) = r[n]
  BY <1>1, TotalIsRunning
<1> QED BY <1>2, <1>4, <1>5

\* Changing one row by d changes the total by d.
LEMMA TotalUpdate ==
    ASSUME NEW f \in Seq(Int), NEW g \in Seq(Int), Len(g) = Len(f),
           NEW k \in 1 .. Len(f), NEW d \in Int, g[k] = f[k] + d,
           \A i \in 1 .. Len(f) : i # k => g[i] = f[i]
    PROVE  Total(g) = Total(f) + d
<1> DEFINE n == Len(f)
<1>1. PICK r : IsRunning(r, f, n)
  BY RunningExists
<1> DEFINE s == [i \in 0 .. n |-> IF i < k THEN r[i] ELSE r[i] + d]
<1>2. n \in Nat /\ \A i \in 1 .. n : f[i] \in Int
  OBVIOUS
<1>3. IsRunning(s, g, n)
  <2>1. /\ k \in 1 .. n
        /\ \A i \in 1 .. n : i # k => g[i] = f[i]
        /\ g[k] = f[k] + d
    OBVIOUS
  <2> HIDE DEF n
  <2>2. /\ \A i \in 0 .. n : r[i] \in Int
        /\ r[0] = 0
        /\ \A i \in 1 .. n : r[i] = r[i - 1] + f[i]
    BY <1>1 DEF IsRunning
  <2>3. \A i \in 0 .. n : s[i] \in Int
    BY <2>1, <2>2, <1>2
  <2>4. s \in [0 .. n -> Int] /\ s[0] = 0
    BY <2>1, <2>2, <2>3, <1>2
  <2>5. ASSUME NEW i \in 1 .. n PROVE s[i] = s[i - 1] + g[i]
    <3>1. /\ i - 1 \in 0 .. n /\ i \in 0 .. n
          /\ r[i] = r[i - 1] + f[i]
          /\ r[i - 1] \in Int /\ f[i] \in Int
      BY <1>2, <2>2
    <3>2. s[i] = (IF i < k THEN r[i] ELSE r[i] + d)
      BY <3>1
    <3>3. s[i - 1] = (IF i - 1 < k THEN r[i - 1] ELSE r[i - 1] + d)
      BY <3>1
    <3> HIDE DEF s
    <3>4. CASE i = k
      BY <3>1, <3>2, <3>3, <3>4, <2>1
    <3>5. CASE i # k
      BY <3>1, <3>2, <3>3, <3>5, <2>1, SMTT(30)
    <3> QED BY <3>4, <3>5
  <2> QED BY <2>4, <2>5 DEF IsRunning
<1>4. Total(g) = s[n] /\ Total(f) = r[n]
  BY <1>1, <1>3, TotalIsRunning
<1> QED BY <1>2, <1>4

\* The total of a row-wise sum is the sum of the totals.
LEMMA TotalAdd ==
    ASSUME NEW f \in Seq(Int), NEW g \in Seq(Int), NEW h \in Seq(Int),
           Len(g) = Len(f), Len(h) = Len(f),
           \A i \in 1 .. Len(f) : h[i] = f[i] + g[i]
    PROVE  Total(h) = Total(f) + Total(g)
<1> DEFINE n == Len(f)
<1>1. PICK r : IsRunning(r, f, n)
  BY RunningExists
<1>2. PICK q : IsRunning(q, g, n)
  BY RunningExists
<1> DEFINE s == [i \in 0 .. n |-> r[i] + q[i]]
<1>3. n \in Nat /\ \A i \in 1 .. n : f[i] \in Int /\ g[i] \in Int
  OBVIOUS
<1>4. IsRunning(s, h, n)
  <2>1. n = Len(f) /\ \A i \in 1 .. n : h[i] = f[i] + g[i]
    OBVIOUS
  <2> HIDE DEF n
  <2>2. s \in [0 .. n -> Int] /\ s[0] = 0
    BY <1>1, <1>2, <1>3 DEF IsRunning
  <2>3. ASSUME NEW i \in 1 .. n PROVE s[i] = s[i - 1] + h[i]
    <3>1. /\ i - 1 \in 0 .. n /\ i \in 0 .. n
          /\ r[i] = r[i - 1] + f[i] /\ q[i] = q[i - 1] + g[i]
          /\ r[i - 1] \in Int /\ f[i] \in Int
          /\ q[i - 1] \in Int /\ g[i] \in Int
      BY <1>1, <1>2, <1>3 DEF IsRunning
    <3>2. s[i] = r[i] + q[i] /\ s[i - 1] = r[i - 1] + q[i - 1]
      BY <3>1
    <3>3. h[i] = f[i] + g[i]
      BY <2>1
    <3> HIDE DEF s
    <3> QED BY <3>1, <3>2, <3>3, SMTT(30)
  <2> QED BY <2>2, <2>3 DEF IsRunning
<1>5. Total(h) = s[n] /\ Total(f) = r[n] /\ Total(g) = q[n]
  BY <1>1, <1>2, <1>4, TotalIsRunning
<1> QED BY <1>3, <1>5

\* The total of the opposite rows is the opposite total.
LEMMA TotalNegate ==
    ASSUME NEW f \in Seq(Int), NEW g \in Seq(Int), Len(g) = Len(f),
           \A i \in 1 .. Len(f) : g[i] = -f[i]
    PROVE  Total(g) = -Total(f)
<1> DEFINE n == Len(f)
<1>1. PICK r : IsRunning(r, f, n)
  BY RunningExists
<1> DEFINE s == [i \in 0 .. n |-> -r[i]]
<1>2. n \in Nat /\ \A i \in 1 .. n : f[i] \in Int
  OBVIOUS
<1>3. IsRunning(s, g, n)
  <2>1. n = Len(f) /\ \A i \in 1 .. n : g[i] = -f[i]
    OBVIOUS
  <2> HIDE DEF n
  <2>2. s \in [0 .. n -> Int] /\ s[0] = 0
    BY <1>1, <1>2 DEF IsRunning
  <2>3. ASSUME NEW i \in 1 .. n PROVE s[i] = s[i - 1] + g[i]
    <3>1. /\ i - 1 \in 0 .. n /\ i \in 0 .. n
          /\ r[i] = r[i - 1] + f[i] /\ r[i - 1] \in Int /\ f[i] \in Int
      BY <1>1, <1>2 DEF IsRunning
    <3>2. s[i] = -r[i] /\ s[i - 1] = -r[i - 1] /\ g[i] = -f[i]
      BY <2>1, <3>1
    <3> HIDE DEF s
    <3> QED BY <3>1, <3>2
  <2> QED BY <2>2, <2>3 DEF IsRunning
<1>4. Total(g) = s[n] /\ Total(f) = r[n]
  BY <1>1, <1>3, TotalIsRunning
<1> QED BY <1>2, <1>4

\* Rows that are not negative have a total that is not, and that is no less
\* than any of them.
LEMMA TotalOfNaturals ==
    ASSUME NEW f \in Seq(Nat)
    PROVE  /\ Total(f) \in Nat
           /\ \A k \in 1 .. Len(f) : f[k] <= Total(f)
<1> DEFINE n == Len(f)
<1>1. f \in Seq(Int) /\ n \in Nat /\ \A i \in 1 .. n : f[i] \in Nat
  OBVIOUS
<1>2. PICK r : IsRunning(r, f, n)
  BY <1>1, RunningExists
<1>3. Total(f) = r[n]
  BY <1>1, <1>2, TotalIsRunning
<1>4. /\ \A i \in 0 .. n : r[i] \in Int
      /\ r[0] = 0
      /\ \A i \in 1 .. n : r[i] = r[i - 1] + f[i]
  BY <1>2 DEF IsRunning
<1> HIDE DEF n
<1>5. ASSUME NEW j \in 0 .. n, NEW k \in j .. n
      PROVE  r[j] <= r[k]
  <2> DEFINE T == {i \in j .. n : r[i] < r[j]}
  <2>1. j \in Nat /\ k \in 0 .. n /\ r[j] \in Int /\ r[k] \in Int
    BY <1>1, <1>4
  <2>2. SUFFICES ASSUME T # {} PROVE FALSE
    <3>1. ~ (r[k] < r[j])
      BY <2>2
    <3> QED BY <2>1, <3>1
  <2>3. PICK m \in T : \A i \in T : m <= i
    <3>1. T \subseteq Nat
      BY <1>1
    <3> HIDE DEF T
    <3> QED BY <2>2, <3>1, LeastNatural
  <2>4. m # j /\ m \in j .. n /\ r[m] < r[j]
    BY <2>1, <2>3
  <2>5. m - 1 \in j .. n /\ m \in 1 .. n /\ m - 1 \in 0 .. n
    BY <1>1, <2>1, <2>4
  <2>6. ~ (r[m - 1] < r[j])
    <3>1. m - 1 \notin T
      BY <2>3, <2>5
    <3> QED BY <2>5, <3>1
  <2>7. /\ f[m] \in Nat /\ r[m - 1] \in Int /\ r[m] = r[m - 1] + f[m]
    BY <1>1, <1>4, <2>5
  <2> HIDE DEF T
  <2> QED BY <2>1, <2>4, <2>6, <2>7
<1>6. r[n] \in Int /\ r[n] >= 0
  BY <1>1, <1>4, <1>5
<1>7. ASSUME NEW k \in 1 .. n PROVE f[k] <= r[n]
  <2>1. k - 1 \in 0 .. n /\ k \in 0 .. n /\ n \in k .. n /\ k - 1 \in 0 .. n
    BY <1>1
  <2>2. f[k] \in Nat /\ r[k] \in Int /\ r[k - 1] \in Int /\ r[k] = r[k - 1] + f[k]
    BY <1>1, <1>4, <2>1
  <2>3. r[0] <= r[k - 1] /\ r[k] <= r[n]
    BY <1>1, <1>5, <2>1
  <2> QED BY <1>4, <1>6, <2>2, <2>3
<1> QED BY <1>3, <1>6, <1>7 DEF n

(***************************************************************************)
(* The journal.                                                            *)
(***************************************************************************)
(***************************************************************************)
(* Lists of lines and their reversal.                                      *)
(***************************************************************************)
\* The columns of a line.
LEMMA LineFields ==
    ASSUME NEW lines \in Seq(LineInputs), NEW k \in DOMAIN lines
    PROVE  /\ lines[k] \in LineInputs
           /\ lines[k].account \in AccountIds /\ lines[k].ref \in Refs \cup {NoRef}
           /\ lines[k].debit \in Int /\ lines[k].credit \in Int
<1>1. lines[k] \in LineInputs
  OBVIOUS
<1> QED BY <1>1 DEF LineInputs

\* The sums that validation takes over a list of lines are integers.
LEMMA LineSums ==
    ASSUME NEW lines \in Seq(LineInputs), NEW S
    PROVE  /\ [k \in DOMAIN lines |-> lines[k].debit] \in Seq(Int)
           /\ [k \in DOMAIN lines |-> lines[k].credit] \in Seq(Int)
           /\ [k \in DOMAIN lines |->
                 IF lines[k].account \in S THEN lines[k].debit - lines[k].credit
                 ELSE 0] \in Seq(Int)
           /\ NetDebit(lines, S) \in Int
<1>1. \A k \in DOMAIN lines : lines[k].debit \in Int /\ lines[k].credit \in Int
  BY LineFields
<1>2. DOMAIN lines = 1 .. Len(lines) /\ Len(lines) \in Nat
  OBVIOUS
<1> DEFINE d == [k \in DOMAIN lines |-> lines[k].debit]
           c == [k \in DOMAIN lines |-> lines[k].credit]
           n == [k \in DOMAIN lines |->
                   IF lines[k].account \in S THEN lines[k].debit - lines[k].credit
                   ELSE 0]
<1>3. d \in Seq(Int) /\ c \in Seq(Int)
  BY <1>1, <1>2
<1>4. n \in Seq(Int)
  BY <1>1, <1>2
<1>5. NetDebit(lines, S) \in Int
  BY <1>4, TotalType DEF NetDebit
<1> QED BY <1>3, <1>4, <1>5

\* A reversal has the lines of its original, with the sides exchanged.
LEMMA SwapLines ==
    ASSUME NEW lines \in Seq(LineInputs)
    PROVE  /\ Swap(lines) \in Seq(LineInputs)
           /\ DOMAIN Swap(lines) = DOMAIN lines
           /\ Len(Swap(lines)) = Len(lines)
           /\ \A k \in DOMAIN lines :
                /\ Swap(lines)[k].account = lines[k].account
                /\ Swap(lines)[k].ref = lines[k].ref
                /\ Swap(lines)[k].debit = lines[k].credit
                /\ Swap(lines)[k].credit = lines[k].debit
<1>1. DOMAIN lines = 1 .. Len(lines) /\ Len(lines) \in Nat
  OBVIOUS
<1>2. \A k \in DOMAIN lines :
        /\ Swap(lines)[k] \in LineInputs
        /\ Swap(lines)[k].account = lines[k].account
        /\ Swap(lines)[k].ref = lines[k].ref
        /\ Swap(lines)[k].debit = lines[k].credit
        /\ Swap(lines)[k].credit = lines[k].debit
  <2>1. SUFFICES ASSUME NEW k \in DOMAIN lines
                 PROVE  LET t == [lines[k] EXCEPT !.debit = lines[k].credit,
                                                  !.credit = lines[k].debit]
                        IN  /\ t \in LineInputs
                            /\ t.account = lines[k].account /\ t.ref = lines[k].ref
                            /\ t.debit = lines[k].credit /\ t.credit = lines[k].debit
    BY DEF Swap
  <2>2. lines[k] \in LineInputs
    BY LineFields
  <2> QED BY <2>2 DEF LineInputs
<1>3. DOMAIN Swap(lines) = DOMAIN lines
  BY DEF Swap
<1>4. Swap(lines) \in Seq(LineInputs) /\ Len(Swap(lines)) = Len(lines)
  <2>1. Swap(lines) = [k \in 1 .. Len(lines) |-> Swap(lines)[k]]
    BY <1>1 DEF Swap
  <2>2. \A k \in 1 .. Len(lines) : Swap(lines)[k] \in LineInputs
    BY <1>1, <1>2
  <2> HIDE DEF Swap
  <2> QED BY <1>1, <2>1, <2>2
<1> QED BY <1>2, <1>3, <1>4

\* It has the opposite effect on every set of accounts.
LEMMA SwapNegates ==
    ASSUME NEW lines \in Seq(LineInputs), NEW S
    PROVE  NetDebit(Swap(lines), S) = -NetDebit(lines, S)
<1> DEFINE f == [k \in DOMAIN lines |->
                   IF lines[k].account \in S THEN lines[k].debit - lines[k].credit
                   ELSE 0]
           g == [k \in DOMAIN Swap(lines) |->
                   IF Swap(lines)[k].account \in S
                   THEN Swap(lines)[k].debit - Swap(lines)[k].credit ELSE 0]
<1>1. f \in Seq(Int) /\ g \in Seq(Int)
  BY LineSums, SwapLines
<1>2. \A k \in DOMAIN lines : lines[k].debit \in Int /\ lines[k].credit \in Int
  BY LineFields
<1>3. /\ DOMAIN f = DOMAIN lines /\ DOMAIN g = DOMAIN lines
      /\ \A k \in DOMAIN lines : g[k] = -f[k]
  BY <1>2, SwapLines
<1>4. Len(g) = Len(f) /\ \A k \in 1 .. Len(f) : g[k] = -f[k]
  <2> HIDE DEF f, g
  <2> QED BY <1>1, <1>3
<1>5. Total(g) = -Total(f)
  <2> HIDE DEF f, g
  <2> QED BY <1>1, <1>4, TotalNegate
<1> QED BY <1>5 DEF NetDebit

\* What validation leaves true of stored lines, whether references were
\* looked up with their deletions or without.
Valid(lines) ==
    /\ WellFormed(lines)
    /\ ~Commingles(lines)
    /\ \A k \in DOMAIN lines :
          lines[k].account \in Accounts /\ lines[k].ref \in {NoRef} \cup Refs

LEMMA MayPostIsValid ==
    ASSUME NEW lines, NEW historical \in BOOLEAN, liveRefs \subseteq Refs,
           MayPost(lines, historical)
    PROVE  Valid(lines)
BY DEF MayPost, Resolves, Valid

\* Valid lines have the types of the stored columns.
LEMMA ValidLines ==
    ASSUME NEW lines \in Seq(LineInputs), Valid(lines)
    PROVE  lines \in Seq(Lines)
<1>1. \A k \in DOMAIN lines : lines[k] \in Lines
  <2>1. SUFFICES ASSUME NEW k \in DOMAIN lines PROVE lines[k] \in Lines
    OBVIOUS
  <2>2. lines[k] \in LineInputs
    BY LineFields
  <2>3. lines[k].account \in Accounts /\ OneSided(lines[k])
    BY DEF Valid, WellFormed
  <2> QED BY <2>2, <2>3 DEF LineInputs, Lines, OneSided
<1> QED BY <1>1

LEMMA LinesAreInputs == Seq(Lines) \subseteq Seq(LineInputs)
<1>1. Lines \subseteq LineInputs
  BY DEF Lines, LineInputs, AccountIds
<1>2. SUFFICES ASSUME NEW lines \in Seq(Lines) PROVE lines \in Seq(LineInputs)
  OBVIOUS
<1>3. \A k \in 1 .. Len(lines) : lines[k] \in LineInputs
  BY <1>1
<1> QED BY <1>3

\* Reversing valid lines gives valid lines: no validation can stand in the way
\* of a reversal.
LEMMA SwapValid ==
    ASSUME NEW lines \in Seq(LineInputs), Valid(lines)
    PROVE  Valid(Swap(lines)) /\ MayPost(Swap(lines), TRUE)
<1>1. /\ DOMAIN Swap(lines) = DOMAIN lines
      /\ Len(Swap(lines)) = Len(lines)
      /\ \A k \in DOMAIN lines :
           /\ Swap(lines)[k].account = lines[k].account
           /\ Swap(lines)[k].ref = lines[k].ref
           /\ Swap(lines)[k].debit = lines[k].credit
           /\ Swap(lines)[k].credit = lines[k].debit
  BY SwapLines
<1>2. Debits(Swap(lines)) = Credits(lines) /\ Credits(Swap(lines)) = Debits(lines)
  <2>1. [k \in DOMAIN Swap(lines) |-> Swap(lines)[k].debit]
          = [k \in DOMAIN lines |-> lines[k].credit]
    BY <1>1
  <2>2. [k \in DOMAIN Swap(lines) |-> Swap(lines)[k].credit]
          = [k \in DOMAIN lines |-> lines[k].debit]
    BY <1>1
  <2> QED BY <2>1, <2>2 DEF Debits, Credits
<1>3. WellFormed(Swap(lines))
  <2>1. \A k \in DOMAIN lines : OneSided(Swap(lines)[k])
    BY <1>1 DEF OneSided, Valid, WellFormed
  <2> QED BY <1>1, <1>2, <2>1 DEF Valid, WellFormed
<1>4. ~Commingles(Swap(lines))
  <2>1. \A S : Touches(Swap(lines), S) = Touches(lines, S)
    BY <1>1 DEF Touches
  <2>2. \A S : /\ NetDebit(lines, S) \in Int
               /\ NetDebit(Swap(lines), S) = -NetDebit(lines, S)
    BY LineSums, SwapNegates
  <2>3. ~Commingles(lines)
    BY DEF Valid
  <2> QED BY <2>1, <2>2, <2>3 DEF Commingles
<1> QED BY <1>1, <1>3, <1>4 DEF Valid, MayPost, Resolves

(***************************************************************************)
(* The inductive invariant: every entry is valid, so that it can be        *)
(* reversed; its number is its position, so that it is not renumbered; and *)
(* reversals are paired.                                                   *)
(***************************************************************************)
EntriesValid == \A i \in DOMAIN entries : Valid(entries[i].lines)

JournalInv ==
    /\ TypeOK
    /\ NumbersConsecutive
    /\ EntriesValid
    /\ ReversalsPaired

LEMMA EntryFields ==
    ASSUME TypeOK, NEW i \in DOMAIN entries
    PROVE  /\ entries[i] \in Entries
           /\ entries[i].number \in Nat /\ entries[i].doc \in Nat
           /\ entries[i].reversedBy \in Nat
           /\ entries[i].source \in Sources
           /\ entries[i].lines \in Seq(Lines) /\ entries[i].lines \in Seq(LineInputs)
<1>1. entries[i] \in Entries
  BY DEF TypeOK
<1> QED BY <1>1, LinesAreInputs DEF Entries

\* The next number is one more than the length of the ledger.
LEMMA NextNumberIs ==
    ASSUME TypeOK, NumbersConsecutive
    PROVE  NextNumber = Len(entries) + 1
<1> DEFINE n == Len(entries)
           N == {0} \cup {entries[i].number : i \in DOMAIN entries}
<1>1. n \in Nat /\ DOMAIN entries = 1 .. n
  BY DEF TypeOK
<1>2. N = 0 .. n
  BY <1>1 DEF NumbersConsecutive
<1>3. Max(N) = n
  <2> HIDE DEF N, n
  <2>1. n \in N /\ \A x \in N : n >= x
    BY <1>1, <1>2
  <2>2. \A m \in N : (\A x \in N : m >= x) => m = n
    BY <1>1, <1>2, <2>1
  <2> QED BY <2>1, <2>2 DEF Max
<1>4. NextNumber = 1 + Max(N)
  BY Zenon DEF NextNumber
<1> HIDE DEF N
<1> QED BY <1>1, <1>3, <1>4

\* A new entry at the end of the ledger.
LEMMA AppendedEntry ==
    ASSUME NEW s \in Seq(Entries), NEW e \in Entries
    PROVE  /\ Append(s, e) \in Seq(Entries)
           /\ DOMAIN Append(s, e) = 1 .. (Len(s) + 1)
           /\ Len(Append(s, e)) = Len(s) + 1
           /\ DOMAIN s = 1 .. Len(s) /\ Len(s) \in Nat
           /\ Append(s, e)[Len(s) + 1] = e
           /\ \A i \in 1 .. Len(s) : Append(s, e)[i] = s[i]
OBVIOUS

\* The entries of new documents preserve the invariant.
LEMMA AddedPreserve ==
    ASSUME JournalInv, NEW n \in Nat, NEW m \in Nat, n = Len(entries), n <= m,
           entries' \in Seq(Entries), Len(entries') = m,
           \A i \in 1 .. n : entries'[i] = entries[i],
           \A i \in (n + 1) .. m :
              /\ entries'[i].number = i /\ Valid(entries'[i].lines)
              /\ entries'[i].reversedBy = 0 /\ ~IsReversal(i)',
           liveRefs' \subseteq Refs
    PROVE  JournalInv'
<1>1. /\ DOMAIN entries = 1 .. n /\ DOMAIN entries' = 1 .. m
      /\ \A i \in 1 .. m : i \in 1 .. n \/ i \in (n + 1) .. m
  BY DEF JournalInv, TypeOK
<1>2. TypeOK'
  BY DEF TypeOK
<1>3. NumbersConsecutive'
  <2>1. \A i \in 1 .. n : entries[i].number = i
    BY <1>1 DEF NumbersConsecutive, JournalInv
  <2> QED BY <1>1, <2>1 DEF NumbersConsecutive
<1>4. EntriesValid'
  BY <1>1 DEF EntriesValid, JournalInv
<1>5. ReversalsPaired'
  <2>1. ReversalsPaired
    BY DEF JournalInv
  <2>2. ASSUME NEW i \in DOMAIN entries', entries'[i].reversedBy # 0
        PROVE  LET j == entries'[i].reversedBy
               IN  /\ j \in (i + 1) .. Len(entries')
                   /\ entries'[j].source = "reversal"
                   /\ entries'[j].doc = i
                   /\ entries'[j].lines = Swap(entries'[i].lines)
    <3>1. i \in 1 .. n
      BY <1>1, <2>2
    <3>2. entries[i].reversedBy \in (i + 1) .. n
      BY <1>1, <2>1, <2>2, <3>1 DEF ReversalsPaired
    <3>3. entries[i].reversedBy \in 1 .. n
      BY <3>1, <3>2
    <3> QED BY <1>1, <2>1, <2>2, <3>1, <3>2, <3>3 DEF ReversalsPaired
  <2>3. ASSUME NEW j \in DOMAIN entries', IsReversal(j)'
        PROVE  /\ entries'[j].doc \in 1 .. (j - 1)
               /\ entries'[entries'[j].doc].reversedBy = j
    <3>1. j \in 1 .. n
      BY <1>1, <2>3
    <3>2. entries[j].doc \in 1 .. (j - 1) /\ entries[entries[j].doc].reversedBy = j
      BY <1>1, <2>1, <2>3, <3>1 DEF ReversalsPaired, IsReversal
    <3>3. entries[j].doc \in 1 .. n
      BY <3>1, <3>2, SMTT(30)
    <3> QED BY <3>1, <3>2, <3>3
  <2> QED BY <2>2, <2>3 DEF ReversalsPaired
<1> QED BY <1>2, <1>3, <1>4, <1>5 DEF JournalInv

\* Posting a new document, from whichever component, preserves the invariant.
LEMMA PostPreserves ==
    ASSUME JournalInv, NEW source \in Sources, NEW doc \in Nat,
           source # "reversal" \/ doc = 0,
           NEW lines \in Seq(LineInputs), PostEntry(source, doc, lines),
           liveRefs' \subseteq Refs
    PROVE  JournalInv'
<1> DEFINE n == Len(entries)
           e == NewEntry(source, doc, lines)
<1>1. Valid(lines)
  BY MayPostIsValid DEF PostEntry, JournalInv, TypeOK
<1>2. NextNumber = n + 1
  BY NextNumberIs DEF JournalInv
<1>3. entries \in Seq(Entries) /\ n \in Nat /\ DOMAIN entries = 1 .. n
  BY DEF JournalInv, TypeOK
<1>4. e = [number |-> n + 1, source |-> source, doc |-> doc, lines |-> lines,
           reversedBy |-> 0]
  BY <1>2 DEF NewEntry
<1>5. e \in Entries
  BY <1>1, <1>3, <1>4, ValidLines DEF Entries
<1>6. /\ entries' \in Seq(Entries)
      /\ DOMAIN entries' = 1 .. (n + 1)
      /\ Len(entries') = n + 1
      /\ entries'[n + 1] = e
      /\ \A i \in 1 .. n : entries'[i] = entries[i]
  BY <1>3, <1>5, AppendedEntry DEF PostEntry
<1> HIDE DEF e, n
<1>7. e.number = n + 1 /\ e.source = source /\ e.doc = doc /\ e.lines = lines /\ e.reversedBy = 0
  BY <1>4
<1>8. ~(e.source = "reversal" /\ e.doc # 0)
  BY <1>7
<1> HIDE DEF e, n
<1>9. PICK m \in Nat : m = n + 1 /\ n <= m
  BY <1>3
<1>10. \A i \in (n + 1) .. m : i = n + 1
  BY <1>3, <1>9
<1>11. \A i \in (n + 1) .. m :
          /\ entries'[i].number = i /\ Valid(entries'[i].lines)
          /\ entries'[i].reversedBy = 0 /\ ~IsReversal(i)'
  BY <1>1, <1>6, <1>7, <1>8, <1>9, <1>10 DEF IsReversal
<1>12. n = Len(entries) /\ Len(entries') = m /\ \A i \in 1 .. n : entries'[i] = entries[i]
  BY <1>6, <1>9 DEF n
<1> QED BY <1>3, <1>6, <1>9, <1>11, <1>12, AddedPreserve

\* Setting reversed_by_entry_id leaves the other columns alone.
LEMMA LinkedEntry ==
    ASSUME NEW x \in Entries, NEW b \in Nat,
           NEW y, y = [x EXCEPT !.reversedBy = b]
    PROVE  /\ y \in Entries /\ y.reversedBy = b
           /\ y.number = x.number /\ y.source = x.source
           /\ y.doc = x.doc /\ y.lines = x.lines
BY DEF Entries

\* What reverseEntry writes: the original is linked to a new last entry.
LEMMA ReversalWrites ==
    ASSUME JournalInv, NEW i, ReverseEntry(i)
    PROVE  LET n == Len(entries)
           IN  /\ n \in Nat /\ DOMAIN entries = 1 .. n /\ i \in 1 .. n
               /\ entries[i].reversedBy = 0
               /\ Len(entries') = n + 1 /\ DOMAIN entries' = 1 .. (n + 1)
               /\ entries' \in Seq(Entries)
               /\ entries'[n + 1] =
                    [number |-> n + 1, source |-> "reversal", doc |-> i,
                     lines |-> Swap(entries[i].lines), reversedBy |-> 0]
               /\ entries'[i].reversedBy = n + 1
               /\ \A k \in 1 .. n :
                    /\ entries'[k].number = entries[k].number
                    /\ entries'[k].source = entries[k].source
                    /\ entries'[k].doc = entries[k].doc
                    /\ entries'[k].lines = entries[k].lines
               /\ \A k \in 1 .. n : k # i => entries'[k] = entries[k]
<1> DEFINE n == Len(entries)
           s == [entries EXCEPT ![i].reversedBy = n + 1]
           e == NewEntry("reversal", i, Swap(entries[i].lines))
<1>1. entries \in Seq(Entries) /\ n \in Nat /\ DOMAIN entries = 1 .. n /\ i \in 1 .. n
  BY DEF JournalInv, TypeOK, ReverseEntry
<1>2. /\ entries[i] \in Entries /\ entries[i].lines \in Seq(LineInputs)
      /\ entries[i].reversedBy = 0
  BY <1>1, EntryFields DEF ReverseEntry, JournalInv
<1>3. e = [number |-> n + 1, source |-> "reversal", doc |-> i,
           lines |-> Swap(entries[i].lines), reversedBy |-> 0]
  BY NextNumberIs DEF NewEntry, JournalInv
<1>4. Swap(entries[i].lines) \in Seq(Lines)
  BY <1>1, <1>2, SwapLines, SwapValid, ValidLines DEF JournalInv, EntriesValid
<1>5. e \in Entries
  BY <1>1, <1>3, <1>4 DEF Entries, Sources
<1> DEFINE y == [entries[i] EXCEPT !.reversedBy = n + 1]
<1>6. /\ y \in Entries /\ y.reversedBy = n + 1
      /\ y.number = entries[i].number /\ y.source = entries[i].source
      /\ y.doc = entries[i].doc /\ y.lines = entries[i].lines
  <2>1. n + 1 \in Nat
    BY <1>1
  <2>2. y = [entries[i] EXCEPT !.reversedBy = n + 1]
    OBVIOUS
  <2> HIDE DEF y, n, s, e
  <2> QED BY <1>2, <2>1, <2>2, LinkedEntry
<1>7. /\ s \in Seq(Entries) /\ Len(s) = n
      /\ s[i] = y
      /\ \A k \in 1 .. n : k # i => s[k] = entries[k]
  BY <1>1, <1>6
<1>8. entries' = Append(s, e)
  BY DEF ReverseEntry
<1> HIDE DEF s, e, y
<1>9. /\ entries' \in Seq(Entries) /\ Len(entries') = n + 1
      /\ DOMAIN entries' = 1 .. (n + 1) /\ entries'[n + 1] = e
      /\ \A k \in 1 .. n : entries'[k] = s[k]
  BY <1>5, <1>7, <1>8, AppendedEntry
<1>10. \A k \in 1 .. n :
         /\ entries'[k].number = entries[k].number
         /\ entries'[k].source = entries[k].source
         /\ entries'[k].doc = entries[k].doc
         /\ entries'[k].lines = entries[k].lines
  BY <1>6, <1>7, <1>9
<1> QED BY <1>1, <1>2, <1>3, <1>6, <1>7, <1>9, <1>10

\* Reversing an entry, by a route or by a void, preserves the invariant.
LEMMA ReversePreserves ==
    ASSUME JournalInv, NEW i, ReverseEntry(i), liveRefs' \subseteq Refs
    PROVE  JournalInv'
<1> DEFINE n == Len(entries)
           swapped == Swap(entries[i].lines)
<1>1. /\ n \in Nat /\ DOMAIN entries = 1 .. n /\ i \in 1 .. n
      /\ entries[i].reversedBy = 0
      /\ Len(entries') = n + 1 /\ DOMAIN entries' = 1 .. (n + 1)
      /\ entries' \in Seq(Entries)
      /\ entries'[n + 1] = [number |-> n + 1, source |-> "reversal", doc |-> i,
                            lines |-> swapped, reversedBy |-> 0]
      /\ entries'[i].reversedBy = n + 1
      /\ \A k \in 1 .. n : k # i => entries'[k] = entries[k]
  BY ReversalWrites
<1>2. entries[i] \in Entries /\ entries[i].lines \in Seq(LineInputs)
  BY <1>1, EntryFields DEF JournalInv
<1>3. Valid(entries[i].lines) /\ Valid(swapped)
  BY <1>1, <1>2, SwapValid DEF JournalInv, EntriesValid
<1>5. \A k \in 1 .. n : /\ entries'[k].number = entries[k].number
                        /\ entries'[k].source = entries[k].source
                        /\ entries'[k].doc = entries[k].doc
                        /\ entries'[k].lines = entries[k].lines
  BY ReversalWrites
<1> HIDE DEF n, swapped
<1>6. TypeOK'
  BY <1>1 DEF TypeOK
<1>7. NumbersConsecutive'
  BY <1>1, <1>5 DEF NumbersConsecutive, JournalInv
<1>8. EntriesValid'
  BY <1>1, <1>3, <1>5 DEF EntriesValid, JournalInv
<1>9. ReversalsPaired'
  <2>1. ReversalsPaired /\ Len(entries) = n
    BY DEF JournalInv, n
  <2>2. ASSUME NEW k \in DOMAIN entries', entries'[k].reversedBy # 0
        PROVE  LET j == entries'[k].reversedBy
               IN  /\ j \in (k + 1) .. Len(entries')
                   /\ entries'[j].source = "reversal"
                   /\ entries'[j].doc = k
                   /\ entries'[j].lines = Swap(entries'[k].lines)
    <3>1. k \in 1 .. n
      BY <1>1, <2>2
    <3>2. CASE k = i
      <4>1. /\ entries'[k].reversedBy = n + 1 /\ n + 1 \in (k + 1) .. (n + 1)
            /\ entries'[n + 1].source = "reversal" /\ entries'[n + 1].doc = k
            /\ entries'[n + 1].lines = swapped
        BY <1>1, <3>1, <3>2
      <4>2. swapped = Swap(entries'[k].lines)
        BY <1>5, <3>1, <3>2 DEF swapped
      <4> QED BY <1>1, <4>1, <4>2
    <3>3. CASE k # i
      <4>1. /\ entries[k].reversedBy \in (k + 1) .. n
            /\ entries'[k].reversedBy = entries[k].reversedBy
        BY <1>1, <2>1, <2>2, <3>1, <3>3 DEF ReversalsPaired
      <4>2. entries[k].reversedBy \in 1 .. n
        BY <1>1, <3>1, <4>1
      <4> QED BY <1>1, <1>5, <2>1, <2>2, <3>1, <4>1, <4>2, SMTT(30) DEF ReversalsPaired
    <3> QED BY <3>2, <3>3
  <2>3. ASSUME NEW j \in DOMAIN entries', IsReversal(j)'
        PROVE  /\ entries'[j].doc \in 1 .. (j - 1)
               /\ entries'[entries'[j].doc].reversedBy = j
    <3>1. CASE j = n + 1
      BY <1>1, <3>1
    <3>2. CASE j # n + 1
      <4>1. j \in 1 .. n
        BY <1>1, <3>2
      <4>2. /\ entries[j].doc \in 1 .. (j - 1)
            /\ entries[entries[j].doc].reversedBy = j
            /\ entries'[j].doc = entries[j].doc
        BY <1>1, <1>5, <2>1, <2>3, <4>1 DEF ReversalsPaired, IsReversal
      <4>3. entries[j].doc \in 1 .. n /\ entries[j].doc # i
        BY <1>1, <4>1, <4>2
      <4> QED BY <1>1, <4>2, <4>3
    <3> QED BY <3>1, <3>2
  <2> QED BY <2>2, <2>3 DEF ReversalsPaired
<1> QED BY <1>6, <1>7, <1>8, <1>9 DEF JournalInv

\* What the invariant says of every ledger, whoever writes it.
LEMMA JournalImplies == JournalInv => EntriesBalanced /\ ReversalsPaired /\ AlwaysReversible
<1>1. JournalInv => EntriesBalanced
  BY DEF JournalInv, EntriesValid, EntriesBalanced, Valid, WellFormed
<1>2. JournalInv => AlwaysReversible
  BY EntryFields, SwapValid DEF JournalInv, EntriesValid, AlwaysReversible
<1> QED BY <1>1, <1>2 DEF JournalInv

LEMMA JournalInit == Init => JournalInv
BY DEF Init, JournalInv, TypeOK, NumbersConsecutive, EntriesValid, ReversalsPaired

LEMMA JournalStep == JournalInv /\ [Next]_vars => JournalInv'
<1> SUFFICES ASSUME JournalInv, [Next]_vars PROVE JournalInv'
  OBVIOUS
<1> USE JournalAssumption
<1>1. liveRefs \subseteq Refs
  BY DEF JournalInv, TypeOK
<1>2. ASSUME NEW source \in ManualSources, NEW lines \in ManualLines,
             PostManual(source, lines)
      PROVE  JournalInv'
  BY <1>1, <1>2, PostPreserves DEF PostManual
<1>3. ASSUME NEW i \in DOMAIN entries, ReverseManual(i) PROVE JournalInv'
  BY <1>1, <1>3, ReversePreserves DEF ReverseManual
<1>4. ASSUME NEW r \in Refs, SoftDelete(r) PROVE JournalInv'
  BY <1>1, <1>4 DEF SoftDelete, JournalInv, TypeOK, NumbersConsecutive,
                    EntriesValid, ReversalsPaired, IsReversal
<1>5. CASE UNCHANGED vars
  BY <1>5 DEF vars, JournalInv, TypeOK, NumbersConsecutive, EntriesValid,
              ReversalsPaired, IsReversal
<1> QED BY <1>2, <1>3, <1>4, <1>5 DEF Next

LEMMA JournalInvariant == Spec => []JournalInv
BY JournalInit, JournalStep, PTL DEF Spec

(***************************************************************************)
(* Balances and reversals.                                                 *)
(***************************************************************************)
\* A table that is given row by row.
LEMMA SequenceIs ==
    ASSUME NEW S, NEW n \in Nat, NEW f, f = [i \in 1 .. n |-> f[i]],
           \A i \in 1 .. n : f[i] \in S
    PROVE  f \in Seq(S) /\ Len(f) = n /\ DOMAIN f = 1 .. n
OBVIOUS

\* Rows of zeros have the total zero.
LEMMA TotalOfZeros ==
    ASSUME NEW n \in Nat
    PROVE  Total([i \in 1 .. n |-> 0]) = 0
<1> DEFINE f == [i \in 1 .. n |-> 0]
<1>1. f \in Seq(Int) /\ Len(f) = n /\ \A i \in 1 .. n : f[i] = 0
  <2>1. f = [i \in 1 .. n |-> f[i]] /\ \A i \in 1 .. n : f[i] = 0
    OBVIOUS
  <2> HIDE DEF f
  <2> QED BY <2>1, SequenceIs
<1> HIDE DEF f
<1>2. Len(f) = Len(f) /\ \A i \in 1 .. Len(f) : f[i] = -f[i]
  BY <1>1
<1>3. Total(f) = -Total(f) /\ Total(f) \in Int
  BY <1>1, <1>2, TotalNegate, TotalType
<1>4. Total(f) = 0
  BY <1>3
<1> QED BY <1>4 DEF f

\* A table of n rows and m columns, the sums of its rows and of its columns.
Grid(M, n, m) == \A i \in 1 .. n, j \in 1 .. m : M[i][j] \in Int
RowSums(t, M, n, m) ==
    t = [i \in 1 .. n |-> Total([j \in 1 .. m |-> M[i][j]])]
ColumnSums(t, M, n, m) ==
    t = [j \in 1 .. m |-> Total([i \in 1 .. n |-> M[i][j]])]

\* Both come to the same.
LEMMA SumsSwap ==
    ASSUME NEW n \in Nat, NEW m \in Nat, NEW M, Grid(M, n, m),
           NEW rows, RowSums(rows, M, n, m), NEW columns, ColumnSums(columns, M, n, m)
    PROVE  /\ rows \in Seq(Int) /\ Len(rows) = n /\ Total(rows) \in Int
           /\ columns \in Seq(Int) /\ Len(columns) = m /\ Total(columns) = Total(rows)
<1> DEFINE row(i) == [j \in 1 .. m |-> M[i][j]]
           column(j, k) == [i \in 1 .. k |-> M[i][j]]
           upto(k) == [j \in 1 .. m |-> Total(column(j, k))]
           s == [k \in 0 .. n |-> Total(upto(k))]
<1>1. ASSUME NEW i \in 1 .. n
      PROVE  row(i) \in Seq(Int) /\ Len(row(i)) = m /\ \A j \in 1 .. m : row(i)[j] = M[i][j]
  <2>1. /\ row(i) = [j \in 1 .. m |-> row(i)[j]] /\ \A j \in 1 .. m : row(i)[j] = M[i][j]
    OBVIOUS
  <2>2. \A j \in 1 .. m : row(i)[j] \in Int
    BY <2>1 DEF Grid
  <2> HIDE DEF row
  <2> QED BY <2>1, <2>2, SequenceIs
<1>2. ASSUME NEW j \in 1 .. m, NEW k \in 0 .. n
      PROVE  column(j, k) \in Seq(Int) /\ Len(column(j, k)) = k
             /\ \A i \in 1 .. k : column(j, k)[i] = M[i][j]
  <2>1. /\ column(j, k) = [i \in 1 .. k |-> column(j, k)[i]]
        /\ \A i \in 1 .. k : column(j, k)[i] = M[i][j] /\ i \in 1 .. n
    OBVIOUS
  <2>2. k \in Nat /\ \A i \in 1 .. k : column(j, k)[i] \in Int
    BY <2>1 DEF Grid
  <2> HIDE DEF column
  <2> QED BY <2>1, <2>2, SequenceIs
<1>3. ASSUME NEW j \in 1 .. m, NEW k \in 1 .. n
      PROVE  Total(column(j, k)) = Total(column(j, k - 1)) + M[k][j]
  <2>1. k \in 0 .. n /\ k - 1 \in 0 .. n /\ k - 1 + 1 = k /\ M[k][j] \in Int
    BY DEF Grid
  <2>2. PICK f \in Seq(Int), g \in Seq(Int), x \in Int :
          /\ f = column(j, k - 1) /\ g = column(j, k) /\ x = M[k][j]
          /\ Len(f) = k - 1 /\ Len(g) = k /\ g[k] = x
          /\ \A i \in 1 .. (k - 1) : g[i] = f[i]
    <3>1. k \in 1 .. k /\ \A i \in 1 .. (k - 1) : i \in 1 .. k
      OBVIOUS
    <3>2. PICK f, g : f = column(j, k - 1) /\ g = column(j, k)
      OBVIOUS
    <3> HIDE DEF column
    <3>3. /\ f \in Seq(Int) /\ Len(f) = k - 1
          /\ \A i \in 1 .. (k - 1) : f[i] = M[i][j]
      BY <1>2, <2>1, <3>2
    <3>4. g \in Seq(Int) /\ Len(g) = k /\ \A i \in 1 .. k : g[i] = M[i][j]
      BY <1>2, <2>1, <3>2
    <3> QED BY <2>1, <3>1, <3>2, <3>3, <3>4
  <2>3. g = Append(f, x)
    BY <2>1, <2>2
  <2> HIDE DEF column
  <2> QED BY <2>2, <2>3, TotalAppend
<1>4. ASSUME NEW k \in 0 .. n
      PROVE  upto(k) \in Seq(Int) /\ Len(upto(k)) = m
             /\ \A j \in 1 .. m : upto(k)[j] = Total(column(j, k))
  <2> HIDE DEF column
  <2>1. /\ upto(k) = [j \in 1 .. m |-> upto(k)[j]]
        /\ \A j \in 1 .. m : upto(k)[j] = Total(column(j, k))
    OBVIOUS
  <2>2. \A j \in 1 .. m : Total(column(j, k)) \in Int
    BY <1>2, TotalType
  <2>3. \A j \in 1 .. m : upto(k)[j] \in Int
    BY <2>1, <2>2
  <2> HIDE DEF upto
  <2> QED BY <2>1, <2>3, SequenceIs
<1>5. upto(0) = [j \in 1 .. m |-> 0]
  <2>1. \A j : column(j, 0) = << >>
    BY <1>2
  <2>2. \A j : Total(column(j, 0)) = 0
    BY <2>1, TotalEmpty
  <2> HIDE DEF column
  <2> QED BY <2>2
<1>6. upto(n) = columns
  BY DEF ColumnSums
<1>7. /\ rows = [i \in 1 .. n |-> rows[i]]
      /\ \A i \in 1 .. n : rows[i] = Total(row(i))
  BY DEF RowSums
<1> HIDE DEF row, column, upto
<1>8. \A i \in 1 .. n : rows[i] \in Int
  BY <1>1, <1>7, TotalType
<1>9. rows \in Seq(Int) /\ Len(rows) = n
  BY <1>7, <1>8, SequenceIs
<1>10. ASSUME NEW k \in 1 .. n
       PROVE  Total(upto(k)) = Total(upto(k - 1)) + rows[k]
  <2>1. k \in 0 .. n /\ k - 1 \in 0 .. n
    OBVIOUS
  <2>2. PICK f \in Seq(Int), g \in Seq(Int), h \in Seq(Int) :
          f = upto(k - 1) /\ g = row(k) /\ h = upto(k)
    BY <1>1, <1>4, <2>1
  <2>3. Len(f) = m /\ Len(g) = m /\ Len(h) = m
    BY <1>1, <1>4, <2>1, <2>2
  <2>4. \A j \in 1 .. m : h[j] = f[j] + g[j]
    BY <1>1, <1>3, <1>4, <2>1, <2>2
  <2>5. Len(g) = Len(f) /\ Len(h) = Len(f) /\ \A j \in 1 .. Len(f) : h[j] = f[j] + g[j]
    BY <2>3, <2>4
  <2>6. Total(h) = Total(f) + Total(g)
    BY <2>5, TotalAdd
  <2> QED BY <1>7, <2>2, <2>6
<1>11. \A k \in 0 .. n : Total(upto(k)) \in Int
  BY <1>4, TotalType
<1>12. IsRunning(s, rows, n)
  <2>1. s \in [0 .. n -> Int] /\ s[0] = 0
    BY <1>5, <1>11, TotalOfZeros
  <2>2. \A k \in 1 .. n : s[k] = s[k - 1] + rows[k]
    BY <1>10
  <2> HIDE DEF s
  <2> QED BY <2>1, <2>2 DEF IsRunning
<1>13. s[n] = Total(columns)
  BY <1>6
<1>14. columns \in Seq(Int) /\ Len(columns) = m
  BY <1>4, <1>6
<1> HIDE DEF s
<1>15. Total(rows) = s[n]
  BY <1>9, <1>12, TotalIsRunning
<1> QED BY <1>9, <1>13, <1>14, <1>15, TotalType

\* g has the rows of f, and then rows without value.
Prolongs(g, m, f, n) ==
    /\ n <= m /\ f = [i \in 1 .. n |-> f[i]] /\ g = [i \in 1 .. m |-> g[i]]
    /\ \A i \in 1 .. n : f[i] \in Int /\ g[i] = f[i]
    /\ \A i \in 1 .. m : i > n => g[i] = 0

\* Such rows do not count.
LEMMA TotalExtends ==
    ASSUME NEW n \in Nat, NEW m \in Nat, NEW f, NEW g, Prolongs(g, m, f, n)
    PROVE  Total(g) = Total(f) /\ Total(f) \in Int
<1>0. /\ n <= m /\ f = [i \in 1 .. n |-> f[i]] /\ g = [i \in 1 .. m |-> g[i]]
      /\ \A i \in 1 .. n : f[i] \in Int /\ g[i] = f[i]
      /\ \A i \in 1 .. m : i > n => g[i] = 0
  BY DEF Prolongs
<1>1. \A i \in 1 .. m : g[i] \in Int
  <2>1. \A i \in 1 .. m : i \in 1 .. n \/ i > n
    OBVIOUS
  <2> QED BY <1>0, <2>1
<1>2. f \in Seq(Int) /\ Len(f) = n /\ g \in Seq(Int) /\ Len(g) = m
  BY <1>0, <1>1, SequenceIs
<1>3. PICK r : IsRunning(r, f, n)
  BY <1>2, RunningExists
<1> DEFINE s == [i \in 0 .. m |-> IF i <= n THEN r[i] ELSE r[n]]
<1>4. r \in [0 .. n -> Int] /\ r[0] = 0 /\ \A i \in 1 .. n : r[i] = r[i - 1] + f[i]
  BY <1>3 DEF IsRunning
<1>5. s \in [0 .. m -> Int] /\ s[0] = 0
  BY <1>0, <1>4
<1>6. ASSUME NEW i \in 1 .. m PROVE s[i] = s[i - 1] + g[i]
  <2>1. i - 1 \in 0 .. m /\ i \in 0 .. m
    OBVIOUS
  <2>2. CASE i <= n
    <3>1. s[i] = r[i] /\ s[i - 1] = r[i - 1] /\ i \in 1 .. n
      BY <2>1, <2>2
    <3> QED BY <1>0, <1>4, <3>1
  <2>3. CASE i > n
    <3>1. s[i] = r[n] /\ s[i - 1] = r[n] /\ r[n] \in Int
      BY <1>0, <1>4, <2>1, <2>3
    <3> QED BY <1>0, <2>3, <3>1
  <2> QED BY <2>2, <2>3
<1>7. IsRunning(s, g, m) /\ s[m] = r[n]
  BY <1>0, <1>5, <1>6 DEF IsRunning
<1> HIDE DEF s
<1>8. Total(g) = s[m] /\ Total(f) = r[n]
  BY <1>2, <1>3, <1>7, TotalIsRunning
<1> QED BY <1>2, <1>7, <1>8, TotalType

\* A table of n rows of which those of S count, with the values v.
Counted(t, n, S, v) == t = [i \in 1 .. n |-> IF i \in S THEN v[i] ELSE 0]

\* d and p are inverse to each other between the rows of S and those of T.
Inverses(d, p, S, T) ==
    /\ \A i \in S : d[i] \in T /\ p[d[i]] = i
    /\ \A b \in T : p[b] \in S /\ d[p[b]] = b

\* The rows that count in one table are those that count in the other, in
\* whatever order: d says where a row of I is in B.
Rearranged(left, n, I, v, right, m, B, f, d, p) ==
    /\ n \in Nat /\ I \subseteq 1 .. n /\ Counted(left, n, I, v)
    /\ m \in Nat /\ B \subseteq 1 .. m /\ Counted(right, m, B, f)
    /\ Inverses(d, p, I, B)
    /\ \A i \in I : v[i] = f[d[i]]
    /\ \A b \in B : f[b] \in Int

\* So the tables have the same total.
LEMMA Reindexed ==
    ASSUME NEW left, NEW n, NEW I, NEW v, NEW right, NEW m, NEW B, NEW f, NEW d, NEW p,
           Rearranged(left, n, I, v, right, m, B, f, d, p)
    PROVE  Total(left) = Total(right) /\ Total(left) \in Int
<1>0. /\ n \in Nat /\ I \subseteq 1 .. n /\ left = [i \in 1 .. n |-> IF i \in I THEN v[i] ELSE 0]
      /\ m \in Nat /\ B \subseteq 1 .. m /\ right = [b \in 1 .. m |-> IF b \in B THEN f[b] ELSE 0]
      /\ \A i \in I : d[i] \in B /\ p[d[i]] = i
      /\ \A b \in B : p[b] \in I /\ d[p[b]] = b
      /\ \A i \in I : v[i] = f[d[i]]
      /\ \A b \in B : f[b] \in Int
  BY DEF Rearranged, Counted, Inverses
<1> USE <1>0
<1> DEFINE Upto(k) == [b \in 1 .. m |-> IF b \in B /\ p[b] <= k THEN f[b] ELSE 0]
           s == [k \in 0 .. n |-> Total(Upto(k))]
<1>1. left \in Seq(Int) /\ Len(left) = n
  <2>1. /\ left = [i \in 1 .. n |-> left[i]]
        /\ \A i \in 1 .. n : left[i] = IF i \in I THEN f[d[i]] ELSE 0
    OBVIOUS
  <2>2. \A i \in I : f[d[i]] \in Int
    OBVIOUS
  <2>3. \A i \in 1 .. n : left[i] \in Int
    BY <2>1, <2>2
  <2> QED BY <2>1, <2>3, SequenceIs
<1>2. ASSUME NEW k \in 0 .. n
      PROVE  /\ Upto(k) \in Seq(Int) /\ Len(Upto(k)) = m
             /\ \A b \in 1 .. m : Upto(k)[b] = IF b \in B /\ p[b] <= k THEN f[b] ELSE 0
  <2>1. /\ Upto(k) = [b \in 1 .. m |-> Upto(k)[b]]
        /\ \A b \in 1 .. m : Upto(k)[b] = IF b \in B /\ p[b] <= k THEN f[b] ELSE 0
    OBVIOUS
  <2>2. \A b \in 1 .. m : Upto(k)[b] \in Int
    BY <2>1
  <2> HIDE DEF Upto
  <2> QED BY <2>1, <2>2, SequenceIs
<1>3. Upto(0) = [b \in 1 .. m |-> 0]
  <2>1. \A b \in B : p[b] \in 1 .. n
    OBVIOUS
  <2>2. \A b \in 1 .. m : ~ (b \in B /\ p[b] <= 0)
    BY <2>1
  <2> QED BY <2>2
<1>4. Upto(n) = right
  <2>1. \A b \in B : p[b] \in 1 .. n
    OBVIOUS
  <2>2. \A b \in B : p[b] <= n
    BY <2>1
  <2> QED BY <2>2
<1>5. \A i \in 1 .. n : left[i] = IF i \in I THEN f[d[i]] ELSE 0
  OBVIOUS
<1> HIDE DEF Upto
<1>6. ASSUME NEW k \in 1 .. n
      PROVE  Total(Upto(k)) = Total(Upto(k - 1)) + left[k]
  <2>1. k \in 0 .. n /\ k - 1 \in 0 .. n
    OBVIOUS
  <2>2. \A b \in B : p[b] \in Int /\ (p[b] <= k <=> (p[b] <= k - 1 \/ p[b] = k))
    <3>1. \A b \in B : p[b] \in 1 .. n
      OBVIOUS
    <3> QED BY <3>1
  <2>3. CASE k \in I
    <3>1. PICK c \in 1 .. m : c = d[k] /\ c \in B /\ p[c] = k
      BY <2>3
    <3>2. \A b \in B : p[b] = k => b = c
      BY <3>1
    <3>3. f[c] \in Int /\ left[k] = f[c]
      BY <1>5, <2>3, <3>1
    <3>4. Upto(k)[c] = f[c] /\ Upto(k - 1)[c] = 0
      <4>1. p[c] <= k /\ ~ (p[c] <= k - 1)
        BY <3>1
      <4> QED BY <1>2, <2>1, <3>1, <4>1
    <3>5. \A b \in 1 .. m : b # c => Upto(k)[b] = Upto(k - 1)[b]
      <4>1. SUFFICES ASSUME NEW b \in 1 .. m, b # c PROVE Upto(k)[b] = Upto(k - 1)[b]
        OBVIOUS
      <4>2. /\ Upto(k)[b] = IF b \in B /\ p[b] <= k THEN f[b] ELSE 0
            /\ Upto(k - 1)[b] = IF b \in B /\ p[b] <= k - 1 THEN f[b] ELSE 0
        BY <1>2, <2>1
      <4>3. b \in B => (p[b] <= k <=> p[b] <= k - 1)
        BY <2>2, <3>2, <4>1
      <4> QED BY <4>2, <4>3
    <3>6. /\ Upto(k) \in Seq(Int) /\ Upto(k - 1) \in Seq(Int)
          /\ Len(Upto(k)) = m /\ Len(Upto(k - 1)) = m
      BY <1>2, <2>1
    <3>7. Upto(k)[c] = Upto(k - 1)[c] + f[c]
      BY <3>3, <3>4
    <3>8. PICK x \in Int : x = f[c]
      BY <3>3
    <3>9. PICK u \in Seq(Int), w \in Seq(Int) : u = Upto(k - 1) /\ w = Upto(k)
      BY <3>6
    <3>10. /\ Len(w) = Len(u) /\ c \in 1 .. Len(u) /\ w[c] = u[c] + x
           /\ \A b \in 1 .. Len(u) : b # c => w[b] = u[b]
      BY <3>1, <3>5, <3>6, <3>7, <3>8, <3>9
    <3>11. Total(w) = Total(u) + x
      BY <3>10, TotalUpdate
    <3> QED BY <3>3, <3>8, <3>9, <3>11
  <2>4. CASE k \notin I
    <3>1. \A b \in B : p[b] # k
      BY <2>4
    <3>2. \A b \in B : p[b] <= k <=> p[b] <= k - 1
      BY <2>2, <3>1
    <3>3. Upto(k) = Upto(k - 1)
      BY <3>2 DEF Upto
    <3>4. left[k] = 0 /\ Total(Upto(k - 1)) \in Int
      BY <1>2, <1>5, <2>1, <2>4, TotalType
    <3> QED BY <3>3, <3>4
  <2> QED BY <2>3, <2>4
<1>7. \A k \in 0 .. n : Total(Upto(k)) \in Int
  BY <1>2, TotalType
<1>8. IsRunning(s, left, n)
  <2>1. s \in [0 .. n -> Int] /\ s[0] = 0
    BY <1>3, <1>7, TotalOfZeros
  <2>2. \A k \in 1 .. n : s[k] = s[k - 1] + left[k]
    BY <1>6
  <2> HIDE DEF s
  <2> QED BY <2>1, <2>2 DEF IsRunning
<1>9. Total(left) = s[n]
  <2>1. IsRunning(s, left, Len(left)) /\ left \in Seq(Int)
    BY ONLY <1>1, <1>8
  <2> HIDE DEF s
  <2> QED BY ONLY <1>1, <2>1, TotalIsRunning
<1>10. s[n] = Total(right)
  <2>1. n \in 0 .. n
    OBVIOUS
  <2> QED BY ONLY <1>4, <2>1
<1>11. Total(left) \in Int
  BY <1>1, TotalType
<1> HIDE DEF s
<1> QED BY <1>9, <1>10, <1>11

\* Chains of reversals end, so that which entries stand is well defined.
StandsFrom(g, m, n) ==
    /\ g \in [m .. n -> BOOLEAN]
    /\ \A i \in m .. n : g[i] = (entries[i].reversedBy = 0 \/ ~g[entries[i].reversedBy])

LEMMA StandsIs ==
    ASSUME JournalInv
    PROVE  \A i \in DOMAIN entries :
             /\ Stands[i] \in BOOLEAN
             /\ Stands[i] <=> (entries[i].reversedBy = 0 \/ ~Stands[entries[i].reversedBy])
<1>1. PICK n \in Nat : n = Len(entries) /\ DOMAIN entries = 1 .. n
  BY DEF JournalInv, TypeOK
<1>2. \A i \in 1 .. n : entries[i].reversedBy # 0 => entries[i].reversedBy \in (i + 1) .. n
  BY <1>1 DEF JournalInv, ReversalsPaired
<1> DEFINE Good(k) == \E g : StandsFrom(g, n + 1 - k, n)
           T == {k \in 0 .. n : ~ Good(k)}
<1>3. T = {}
  <2>1. SUFFICES ASSUME T # {} PROVE FALSE
    OBVIOUS
  <2>2. PICK k \in T : \A j \in T : k <= j
    <3>1. T \subseteq Nat
      OBVIOUS
    <3> HIDE DEF T
    <3> QED BY <2>1, <3>1, LeastNatural
  <2>3. k # 0
    <3>1. n + 1 - 0 = n + 1 /\ n + 1 .. n = {}
      OBVIOUS
    <3>2. StandsFrom([i \in n + 1 .. n |-> TRUE], n + 1, n)
      BY <3>1 DEF StandsFrom
    <3>3. Good(0)
      BY <3>1, <3>2
    <3> QED BY <2>2, <3>3
  <2>4. k \in 1 .. n /\ k - 1 \in 0 .. n /\ k - 1 \notin T
    BY <2>2, <2>3
  <2>5. PICK g : StandsFrom(g, n + 1 - (k - 1), n)
    BY <2>4
  <2>6. PICK m \in 1 .. n : m = n + 1 - k /\ m + 1 = n + 1 - (k - 1)
    BY <2>4
  <2> DEFINE h == [i \in m .. n |-> IF i = m THEN entries[m].reversedBy = 0
                                                    \/ ~g[entries[m].reversedBy]
                                    ELSE g[i]]
  <2>7. /\ g \in [m + 1 .. n -> BOOLEAN]
        /\ \A i \in m + 1 .. n :
              g[i] = (entries[i].reversedBy = 0 \/ ~g[entries[i].reversedBy])
    BY <2>5, <2>6 DEF StandsFrom
  <2>8. \A i \in m .. n : i = m \/ i \in m + 1 .. n
    OBVIOUS
  <2>9. h \in [m .. n -> BOOLEAN]
    BY <2>7, <2>8
  <2>10. ASSUME NEW i \in m .. n
         PROVE  h[i] = (entries[i].reversedBy = 0 \/ ~h[entries[i].reversedBy])
    <3>1. i \in 1 .. n
      OBVIOUS
    <3>2. entries[i].reversedBy # 0 => /\ entries[i].reversedBy \in m + 1 .. n
                                       /\ entries[i].reversedBy \in m .. n
                                       /\ entries[i].reversedBy # m
      BY <1>2, <3>1
    <3>3. entries[i].reversedBy # 0 => h[entries[i].reversedBy] = g[entries[i].reversedBy]
      BY <3>2
    <3>4. h[i] = IF i = m THEN entries[m].reversedBy = 0 \/ ~g[entries[m].reversedBy]
                 ELSE g[i]
      OBVIOUS
    <3> HIDE DEF h
    <3>5. CASE i = m
      BY <3>3, <3>4, <3>5
    <3>6. CASE i # m
      BY <2>7, <2>8, <3>3, <3>4, <3>6
    <3> QED BY <3>5, <3>6
  <2> HIDE DEF h
  <2>11. StandsFrom(h, n + 1 - k, n)
    BY <2>6, <2>9, <2>10 DEF StandsFrom
  <2>12. Good(k)
    BY <2>11
  <2> QED BY <2>2, <2>12
<1>4. Good(n)
  <2>1. n \in 0 .. n
    OBVIOUS
  <2> HIDE DEF Good
  <2> QED BY <1>3, <2>1
<1>5. PICK g : StandsFrom(g, 1, n)
  <2>1. n + 1 - n = 1
    OBVIOUS
  <2> QED BY <1>4, <2>1
<1> DEFINE Rec(f) == f = [i \in DOMAIN entries |->
                            entries[i].reversedBy = 0 \/ ~f[entries[i].reversedBy]]
           st == CHOOSE f : Rec(f)
<1>6. Rec(g)
  <2>1. g = [i \in 1 .. n |-> g[i]]
    BY <1>5 DEF StandsFrom
  <2>2. \A i \in 1 .. n : g[i] = (entries[i].reversedBy = 0 \/ ~g[entries[i].reversedBy])
    BY <1>5 DEF StandsFrom
  <2> QED BY <1>1, <2>1, <2>2
<1>7. Rec(st)
  BY <1>6
<1>8. Stands = st
  BY DEF Stands
<1> HIDE DEF st
<1>9. \A i \in DOMAIN entries :
        st[i] = (entries[i].reversedBy = 0 \/ ~st[entries[i].reversedBy])
  BY <1>7
<1> QED BY <1>8, <1>9

\* The balance of an account is what the standing entries put on it.
LEMMA BalanceIsStanding ==
    ASSUME JournalInv, NEW a
    PROVE  /\ \A i \in DOMAIN entries : Effect(entries[i].lines, a) \in Int
           /\ Balance(a) \in Int
           /\ Balance(a) =
                Total([i \in DOMAIN entries |->
                         IF ~IsReversal(i) /\ Stands[i]
                         THEN Effect(entries[i].lines, a) ELSE 0])
<1>1. PICK n \in Nat : n = Len(entries) /\ DOMAIN entries = 1 .. n
  BY DEF JournalInv, TypeOK
<1> DEFINE E == [i \in 1 .. n |-> Effect(entries[i].lines, a)]
           V == [i \in 1 .. n |-> IF Stands[i] THEN E[i] ELSE 0]
           by == [i \in 1 .. n |-> entries[i].reversedBy]
           doc == [i \in 1 .. n |-> entries[i].doc]
           I == {i \in 1 .. n : by[i] # 0}
           B == {i \in 1 .. n : IsReversal(i)}
           X == [i \in 1 .. n |-> IF i \in I THEN V[by[i]] ELSE 0]
           Y == [i \in 1 .. n |-> IF i \in B THEN V[i] ELSE 0]
           Z == [i \in 1 .. n |-> IF ~IsReversal(i) /\ Stands[i] THEN E[i] ELSE 0]
<1>2. \A i \in 1 .. n : entries[i].lines \in Seq(LineInputs)
  BY <1>1, EntryFields DEF JournalInv
<1>3. \A i \in 1 .. n : E[i] \in Int /\ E[i] = NetDebit(entries[i].lines, {a})
  BY <1>2, LineSums DEF Effect
<1>4. \A i \in 1 .. n : Stands[i] \in BOOLEAN
  BY <1>1, StandsIs
<1>5. ASSUME NEW i \in 1 .. n, by[i] # 0
      PROVE  /\ by[i] \in 1 .. n /\ by[i] \in B /\ doc[by[i]] = i
             /\ E[by[i]] = -E[i] /\ (Stands[i] <=> ~Stands[by[i]])
  <2>1. /\ by[i] \in (i + 1) .. n /\ entries[by[i]].source = "reversal"
        /\ entries[by[i]].doc = i /\ entries[by[i]].lines = Swap(entries[i].lines)
    BY <1>1, <1>5 DEF JournalInv, ReversalsPaired
  <2>2. by[i] \in 1 .. n /\ doc[by[i]] = i /\ IsReversal(by[i])
    BY <2>1 DEF IsReversal
  <2>3. E[by[i]] = -E[i]
    BY <1>2, <1>3, <2>1, <2>2, SwapNegates
  <2>4. Stands[i] <=> ~Stands[by[i]]
    BY <1>1, <1>5, StandsIs
  <2> QED BY <2>2, <2>3, <2>4
<1>6. \A i \in 1 .. n : by[i] = 0 => Stands[i]
  BY <1>1, StandsIs
<1>7. ASSUME NEW i \in B
      PROVE  doc[i] \in I /\ by[doc[i]] = i
  <2>1. IsReversal(i) /\ i \in 1 .. n
    OBVIOUS
  <2>2. entries[i].doc \in 1 .. (i - 1) /\ entries[entries[i].doc].reversedBy = i
    BY <1>1, <2>1 DEF JournalInv, ReversalsPaired
  <2> QED BY <2>1, <2>2
<1>8. I \subseteq 1 .. n /\ B \subseteq 1 .. n /\ \A i \in I : i \in 1 .. n /\ by[i] # 0
  OBVIOUS
<1>9. \A i \in 1 .. n : V[i] \in Int /\ V[i] = IF Stands[i] THEN E[i] ELSE 0
  BY <1>3
<1>10. \A i \in 1 .. n : X[i] = IF by[i] # 0 THEN V[by[i]] ELSE 0
  OBVIOUS
<1>11. \A i \in 1 .. n : /\ Y[i] = (IF IsReversal(i) THEN V[i] ELSE 0)
                         /\ Z[i] = IF ~IsReversal(i) /\ Stands[i] THEN E[i] ELSE 0
  OBVIOUS
<1>12. Balance(a) = Total(E)
  BY <1>1 DEF Balance
<1>13. Total(Z) = Total([i \in DOMAIN entries |->
                           IF ~IsReversal(i) /\ Stands[i]
                           THEN Effect(entries[i].lines, a) ELSE 0])
  <2>1. Z = [i \in DOMAIN entries |-> IF ~IsReversal(i) /\ Stands[i]
                                      THEN Effect(entries[i].lines, a) ELSE 0]
    BY <1>1
  <2> QED BY <2>1
<1>14. /\ DOMAIN E = 1 .. n /\ DOMAIN V = 1 .. n /\ DOMAIN X = 1 .. n
       /\ DOMAIN Y = 1 .. n /\ DOMAIN Z = 1 .. n
       /\ E = [i \in 1 .. n |-> E[i]] /\ V = [i \in 1 .. n |-> V[i]]
       /\ X = [i \in 1 .. n |-> X[i]] /\ Y = [i \in 1 .. n |-> Y[i]]
       /\ Z = [i \in 1 .. n |-> Z[i]]
  OBVIOUS
<1>15. Total(X) = Total(Y)
  <2> DEFINE v == [i \in I |-> V[by[i]]]
  <2>1. Inverses(by, doc, I, B)
    <3>1. \A i \in I : by[i] \in B /\ doc[by[i]] = i
      BY <1>5, <1>8
    <3>2. \A b \in B : doc[b] \in I /\ by[doc[b]] = b
      BY <1>7
    <3> HIDE DEF I, B, by, doc
    <3> QED BY <3>1, <3>2 DEF Inverses
  <2>2. \A b \in B : V[b] \in Int
    BY <1>8, <1>9
  <2>3. \A i \in I : v[i] = V[by[i]]
    OBVIOUS
  <2>4. Counted(X, n, I, v)
    BY <2>3 DEF Counted
  <2>5. Counted(Y, n, B, V)
    BY DEF Counted
  <2>6. I \subseteq 1 .. n /\ B \subseteq 1 .. n
    OBVIOUS
  <2> HIDE DEF X, Y, I, B, V, by, doc, v
  <2>7. Rearranged(X, n, I, v, Y, n, B, V, by, doc)
    BY <2>1, <2>2, <2>3, <2>4, <2>5, <2>6 DEF Rearranged
  <2> QED BY <2>7, Reindexed
<1> HIDE DEF E, V, X, Y, Z, I, B, by, doc
<1>16. ASSUME NEW i \in 1 .. n
       PROVE  X[i] \in Int /\ Y[i] \in Int /\ Z[i] \in Int
              /\ V[i] = E[i] + X[i] /\ V[i] = Z[i] + Y[i]
  <2>1. Y[i] \in Int /\ Z[i] \in Int /\ V[i] = Z[i] + Y[i]
    BY <1>3, <1>4, <1>9, <1>11
  <2>2. CASE by[i] = 0
    BY <1>3, <1>6, <1>9, <1>10, <2>1, <2>2
  <2>3. CASE by[i] # 0
    <3>1. PICK k \in 1 .. n : k = by[i] /\ E[k] = -E[i] /\ (Stands[i] <=> ~Stands[k])
      BY <1>5, <2>3
    <3>2. X[i] = V[k]
      BY <1>10, <2>3, <3>1
    <3> QED BY <1>3, <1>9, <2>1, <3>1, <3>2
  <2> QED BY <2>2, <2>3
<1>17. /\ E \in Seq(Int) /\ V \in Seq(Int) /\ X \in Seq(Int)
       /\ Y \in Seq(Int) /\ Z \in Seq(Int)
       /\ Len(E) = n /\ Len(V) = n /\ Len(X) = n /\ Len(Y) = n /\ Len(Z) = n
  BY <1>3, <1>9, <1>14, <1>16, SequenceIs
<1>18. Total(V) = Total(E) + Total(X) /\ Total(V) = Total(Z) + Total(Y)
  <2>1. /\ \A i \in 1 .. Len(E) : V[i] = E[i] + X[i]
        /\ \A i \in 1 .. Len(Z) : V[i] = Z[i] + Y[i]
    BY <1>16, <1>17
  <2>2. Total(V) = Total(E) + Total(X)
    <3>1. Len(X) = Len(E) /\ Len(V) = Len(E)
      BY <1>17
    <3> QED BY <1>17, <2>1, <3>1, TotalAdd
  <2>3. Total(V) = Total(Z) + Total(Y)
    <3>1. Len(Y) = Len(Z) /\ Len(V) = Len(Z)
      BY <1>17
    <3> QED BY <1>17, <2>1, <3>1, TotalAdd
  <2> QED BY <2>2, <2>3
<1>19. /\ Total(V) \in Int /\ Total(E) \in Int /\ Total(X) \in Int
       /\ Total(Y) \in Int /\ Total(Z) \in Int
  BY <1>17, TotalType
<1>20. Total(E) = Total(Z)
  <2>1. PICK v \in Int, e \in Int, x \in Int, y \in Int, z \in Int :
          /\ v = Total(V) /\ e = Total(E) /\ x = Total(X) /\ y = Total(Y) /\ z = Total(Z)
    BY <1>19
  <2>2. v = e + x /\ v = z + y /\ x = y
    BY <1>15, <1>18, <2>1
  <2>3. e = z
    BY <2>2
  <2> QED BY <2>1, <2>3
<1>21. \A i \in DOMAIN entries : Effect(entries[i].lines, a) \in Int
  BY <1>1, <1>2, LineSums DEF Effect
<1> QED BY <1>12, <1>13, <1>19, <1>20, <1>21

LEMMA JournalCancels == JournalInv => ReversalsCancel
BY BalanceIsStanding DEF ReversalsCancel, BalancesFromStandingEntries, JournalInv

(***************************************************************************)
(* Sums over all accounts.                                                 *)
(*                                                                         *)
(* The fold of the community modules chooses an order of the accounts, so  *)
(* that its result is known once sums over all subsets of them are: the    *)
(* net debits of sets of accounts are such sums.                           *)
(***************************************************************************)
\* The sum of the values of a function, as AppendOnlyLedger takes it.
SumOf(fun) == Ledger!FoldFunction(LAMBDA x, y : x + y, 0, fun)

\* h is the sum of the values of fun over every set of its arguments.
SumsOf(h, fun) ==
    /\ h \in [SUBSET DOMAIN fun -> Int] /\ h[{}] = 0
    /\ \A s \in SUBSET DOMAIN fun : \A x \in s : h[s] = fun[x] + h[s \ {x}]

\* A fold agrees with them: a least set on which it does not, one that has the
\* fewest members, would be none.
LEMMA FoldIs ==
  ASSUME NEW fun, IsFiniteSet(DOMAIN fun), NEW h, SumsOf(h, fun)
  PROVE SumOf(fun) = h[DOMAIN fun]
<1> DEFINE S == DOMAIN fun
           Rec(g) == g = [s \in SUBSET S |->
                            IF s = {} THEN 0
                            ELSE LET x == CHOOSE x \in s : TRUE IN fun[x] + g[s \ {x}]]
           g == CHOOSE k : Rec(k)
<1>1. Rec(h)
  BY DEF SumsOf
<1>2. Rec(g)
  BY <1>1
<1>3. SumOf(fun) = g[S]
  BY DEF SumOf, Ledger!FoldFunction, Ledger!FoldFunctionOnSet, Ledger!MapThenFoldSet
<1> HIDE DEF g
<1>4. ASSUME NEW s \in SUBSET S, s # {}
      PROVE  \E x \in s : g[s] = fun[x] + g[s \ {x}] /\ h[s] = fun[x] + h[s \ {x}]
  <2>1. PICK x \in s : x = CHOOSE y \in s : TRUE
    BY <1>4
  <2>2. g[s] = fun[x] + g[s \ {x}]
    BY <1>2, <1>4, <2>1
  <2> QED BY <2>1, <2>2 DEF SumsOf
<1>5. g[{}] = 0 /\ h[{}] = 0
  BY <1>2 DEF SumsOf
<1> DEFINE T == {Cardinality(s) : s \in {s \in SUBSET S : g[s] # h[s]}}
<1>6. SUFFICES ASSUME T # {} PROVE FALSE
  <2>1. g[S] = h[S]
    BY <1>6
  <2> QED BY <1>3, <2>1
<1>7. \A s \in SUBSET S : IsFiniteSet(s) /\ Cardinality(s) \in Nat
  BY FS_Subset, FS_CardinalityType
<1>8. PICK m \in T : \A k \in T : m <= k
  <2>1. T \subseteq Nat
    BY <1>7
  <2> HIDE DEF T
  <2> QED BY <1>6, <2>1, LeastNatural
<1>9. PICK s \in SUBSET S : g[s] # h[s] /\ m = Cardinality(s)
  OBVIOUS
<1>10. s # {}
  BY <1>5, <1>9
<1>11. PICK x \in s : g[s] = fun[x] + g[s \ {x}] /\ h[s] = fun[x] + h[s \ {x}]
  BY <1>4, <1>10
<1>12. Cardinality(s \ {x}) = Cardinality(s) - 1 /\ s \ {x} \in SUBSET S
  BY <1>7, FS_RemoveElement
<1>13. g[s \ {x}] # h[s \ {x}]
  BY <1>9, <1>11
<1>14. Cardinality(s \ {x}) \in T
  BY <1>12, <1>13
<1> HIDE DEF T
<1>15. m <= Cardinality(s) - 1 /\ Cardinality(s) \in Nat
  BY <1>7, <1>8, <1>12, <1>14
<1> QED BY <1>9, <1>15

\* What a list of lines does to a set of accounts is the sum of what it does to
\* each of them.
LEMMA NetDebitSplits ==
    ASSUME NEW lines \in Seq(LineInputs), NEW S, NEW x \in S
    PROVE  NetDebit(lines, S) = NetDebit(lines, {x}) + NetDebit(lines, S \ {x})
<1> DEFINE Net(A) == [k \in DOMAIN lines |->
                        IF lines[k].account \in A THEN lines[k].debit - lines[k].credit
                        ELSE 0]
<1>1. \A A : Net(A) \in Seq(Int) /\ DOMAIN Net(A) = DOMAIN lines
  BY LineSums
<1>2. \A k \in DOMAIN lines : lines[k].debit \in Int /\ lines[k].credit \in Int
  BY LineFields
<1>3. ASSUME NEW k \in DOMAIN lines
      PROVE  Net(S)[k] = Net({x})[k] + Net(S \ {x})[k]
  BY <1>2
<1>4. \A A : NetDebit(lines, A) = Total(Net(A))
  BY DEF NetDebit
<1> HIDE DEF Net
<1>5. /\ Len(Net({x})) = Len(Net(S)) /\ Len(Net(S \ {x})) = Len(Net(S))
      /\ DOMAIN lines = 1 .. Len(Net(S))
  BY <1>1
<1>6. Total(Net(S)) = Total(Net({x})) + Total(Net(S \ {x}))
  <2>1. \A k \in 1 .. Len(Net({x})) : Net(S)[k] = Net({x})[k] + Net(S \ {x})[k]
    BY <1>3, <1>5
  <2> QED BY <1>1, <1>5, <2>1, TotalAdd
<1> QED BY <1>4, <1>6

\* Lines do nothing to no accounts.
LEMMA NetDebitNone ==
    ASSUME NEW lines \in Seq(LineInputs)
    PROVE  NetDebit(lines, {}) = 0
<1> DEFINE f == [k \in DOMAIN lines |->
                   IF lines[k].account \in {} THEN lines[k].debit - lines[k].credit ELSE 0]
<1>1. f \in Seq(Int)
  BY LineSums
<1>2. \A k \in DOMAIN f : f[k] = 0
  OBVIOUS
<1>3. NetDebit(lines, {}) = Total(f)
  BY DEF NetDebit
<1> HIDE DEF f
<1>4. Len(f) = Len(f) /\ \A k \in 1 .. Len(f) : f[k] = -f[k]
  BY <1>1, <1>2
<1>5. Total(f) = -Total(f) /\ Total(f) \in Int
  BY <1>1, <1>4, TotalNegate, TotalType
<1> QED BY <1>3, <1>5

\* Lines that balance take from some accounts what they give to others.
LEMMA ValidSumsToZero ==
    ASSUME NEW lines \in Seq(LineInputs), Valid(lines)
    PROVE  NetDebit(lines, Accounts) = 0
<1> DEFINE d == [k \in DOMAIN lines |-> lines[k].debit]
           c == [k \in DOMAIN lines |-> lines[k].credit]
           n == [k \in DOMAIN lines |->
                   IF lines[k].account \in Accounts THEN lines[k].debit - lines[k].credit
                   ELSE 0]
<1>1. d \in Seq(Int) /\ c \in Seq(Int) /\ n \in Seq(Int)
  BY LineSums
<1>2. /\ \A k \in DOMAIN lines : lines[k].debit \in Int /\ lines[k].credit \in Int
      /\ \A k \in DOMAIN lines : lines[k].account \in Accounts
  BY LineFields DEF Valid
<1>3. \A k \in DOMAIN lines : d[k] = n[k] + c[k]
  BY <1>2
<1>4. DOMAIN d = DOMAIN lines /\ DOMAIN c = DOMAIN lines /\ DOMAIN n = DOMAIN lines
  OBVIOUS
<1>5. Total(d) = Total(c)
  BY DEF Valid, WellFormed, Debits, Credits
<1>6. NetDebit(lines, Accounts) = Total(n)
  BY DEF NetDebit
<1> HIDE DEF d, c, n
<1>7. Len(d) = Len(n) /\ Len(c) = Len(n) /\ \A k \in 1 .. Len(n) : d[k] = n[k] + c[k]
  BY <1>1, <1>3, <1>4
<1>8. Total(d) = Total(n) + Total(c)
  BY <1>1, <1>7, TotalAdd
<1>9. Total(d) \in Int /\ Total(n) \in Int /\ Total(c) \in Int
  BY <1>1, TotalType
<1> QED BY <1>5, <1>6, <1>8, <1>9

\* So the effect of valid lines over all accounts sums to zero.
LEMMA ValidIsZeroSum ==
    ASSUME NEW lines \in Seq(LineInputs), Valid(lines), IsFiniteSet(Accounts)
    PROVE  Ledger!ZeroSum([a \in Accounts |-> Effect(lines, a)])
<1> DEFINE effect == [a \in Accounts |-> Effect(lines, a)]
           h == [s \in SUBSET Accounts |-> NetDebit(lines, s)]
<1>1. \A s : NetDebit(lines, s) \in Int
  BY LineSums
<1>2. ASSUME NEW s \in SUBSET Accounts, NEW x \in s
      PROVE  h[s] = effect[x] + h[s \ {x}]
  BY NetDebitSplits DEF Effect
<1>3. h[{}] = 0
  BY NetDebitNone
<1>4. h \in [SUBSET Accounts -> Int] /\ DOMAIN effect = Accounts
  BY <1>1
<1>5. h[Accounts] = 0
  BY ValidSumsToZero
<1> HIDE DEF effect, h
<1>6. SumsOf(h, effect)
  BY <1>2, <1>3, <1>4 DEF SumsOf
<1>7. SumOf(effect) = 0
  BY <1>4, <1>5, <1>6, FoldIs
<1>8. Ledger!ZeroSum(effect)
  BY <1>7 DEF SumOf, Ledger!ZeroSum
<1> QED BY <1>8 DEF effect

(***************************************************************************)
(* The journal as an append-only ledger: its entries as AppendOnlyLedger   *)
(* sees them.                                                              *)
(***************************************************************************)
BookOf(s) ==
    [i \in DOMAIN s |->
       [effect |-> [a \in Accounts |-> Effect(s[i].lines, a)], undoneBy |-> s[i].reversedBy]]

\* The book of a sequence of entries, entry by entry.
LEMMA BookIs ==
    ASSUME NEW s \in Seq(Entries)
    PROVE  /\ Len(BookOf(s)) = Len(s) /\ DOMAIN BookOf(s) = 1 .. Len(s) /\ Len(s) \in Nat
           /\ \A i \in 1 .. Len(s) :
                 BookOf(s)[i] = [effect |-> [a \in Accounts |-> Effect(s[i].lines, a)],
                                 undoneBy |-> s[i].reversedBy]
<1>1. DOMAIN s = 1 .. Len(s) /\ Len(s) \in Nat
  OBVIOUS
<1>2. DOMAIN BookOf(s) = 1 .. Len(s)
  BY <1>1 DEF BookOf
<1>3. \A i \in 1 .. Len(s) :
         BookOf(s)[i] = [effect |-> [a \in Accounts |-> Effect(s[i].lines, a)],
                         undoneBy |-> s[i].reversedBy]
  BY <1>1 DEF BookOf
<1>4. Len(BookOf(s)) = Len(s)
  <2>1. BookOf(s) = [i \in 1 .. Len(s) |-> BookOf(s)[i]]
    BY <1>1 DEF BookOf
  <2> HIDE DEF BookOf
  <2> QED BY <1>1, <2>1
<1> QED BY <1>1, <1>2, <1>3, <1>4

\* The actions of AppendOnlyLedger, said of the book.
LEMMA PostIs ==
    Ledger!Post <=>
       /\ Len(BookOf(entries')) > Len(BookOf(entries))
       /\ Ledger!Appends(Len(BookOf(entries')))
       /\ \A i \in DOMAIN BookOf(entries) : BookOf(entries')[i] = BookOf(entries)[i]
BY Zenon DEF Ledger!Post, BookOf

LEMMA NextIs ==
    Ledger!Next <=> Ledger!Post \/ \E i \in DOMAIN BookOf(entries) : Ledger!Undo(i)
BY Zenon DEF Ledger!Next, BookOf

\* An entry of valid lines moves value between accounts and creates none.
LEMMA BooksBalance ==
    ASSUME NEW s \in Seq(Entries), NEW i \in 1 .. Len(s), Valid(s[i].lines)
    PROVE  Ledger!ZeroSum(BookOf(s)[i].effect)
<1>1. s[i] \in Entries
  OBVIOUS
<1>2. s[i].lines \in Seq(LineInputs)
  BY <1>1, LinesAreInputs DEF Entries
<1>3. BookOf(s)[i] = [effect |-> [a \in Accounts |-> Effect(s[i].lines, a)],
                      undoneBy |-> s[i].reversedBy]
  BY BookIs
<1>4. BookOf(s)[i].effect = [a \in Accounts |-> Effect(s[i].lines, a)]
  BY <1>3
<1>5. IsFiniteSet(Accounts)
  BY JournalAssumption
<1>6. Ledger!ZeroSum([a \in Accounts |-> Effect(s[i].lines, a)])
  BY <1>2, <1>5, ValidIsZeroSum
<1> QED BY Zenon, <1>4, <1>6

\* Posting adds one entry to the ledger.
LEMMA PostIsPost ==
    ASSUME JournalInv, JournalInv', NEW source, NEW doc, NEW lines,
           PostEntry(source, doc, lines)
    PROVE  Ledger!Post
<1> DEFINE n == Len(entries)
           old == BookOf(entries)
           new == BookOf(entries')
<1>1. entries \in Seq(Entries) /\ n \in Nat /\ DOMAIN entries = 1 .. n
  BY DEF JournalInv, TypeOK
<1>2. entries' \in Seq(Entries) /\ EntriesValid'
  BY DEF JournalInv, TypeOK
<1> DEFINE e == NewEntry(source, doc, lines)
<1>3. e.reversedBy = 0
  BY DEF NewEntry
<1>4. entries' = Append(entries, e)
  BY DEF PostEntry
<1> HIDE DEF e
<1>5. /\ Len(entries') = n + 1 /\ entries'[n + 1] = e
      /\ \A i \in 1 .. n : entries'[i] = entries[i]
  BY <1>1, <1>4
<1>6. /\ Len(old) = n /\ DOMAIN old = 1 .. n /\ Len(new) = n + 1 /\ DOMAIN new = 1 .. n + 1
      /\ new[n + 1].undoneBy = 0
      /\ \A i \in 1 .. n : new[i] = old[i]
  <2>1. /\ Len(old) = n /\ DOMAIN old = 1 .. n /\ Len(new) = n + 1 /\ DOMAIN new = 1 .. n + 1
    BY <1>1, <1>2, <1>5, BookIs
  <2>2. new[n + 1].undoneBy = 0
    <3>1. n + 1 \in 1 .. n + 1 /\ entries'[n + 1].reversedBy = 0
      BY <1>1, <1>3, <1>5
    <3>2. new[n + 1] = [effect |-> [a \in Accounts |-> Effect(entries'[n + 1].lines, a)],
                        undoneBy |-> entries'[n + 1].reversedBy]
      BY <1>2, <1>5, <3>1, BookIs
    <3> QED BY <3>1, <3>2
  <2>3. ASSUME NEW i \in 1 .. n PROVE new[i] = old[i]
    <3>1. i \in 1 .. n + 1 /\ entries'[i] = entries[i]
      BY <1>1, <1>5
    <3>2. /\ old[i] = [effect |-> [a \in Accounts |-> Effect(entries[i].lines, a)],
                       undoneBy |-> entries[i].reversedBy]
          /\ new[i] = [effect |-> [a \in Accounts |-> Effect(entries'[i].lines, a)],
                       undoneBy |-> entries'[i].reversedBy]
      BY <1>1, <1>2, <1>5, <3>1, BookIs
    <3> QED BY <3>1, <3>2
  <2> QED BY <2>1, <2>2, <2>3
<1>7. Ledger!ZeroSum(new[n + 1].effect)
  <2>1. n + 1 \in 1 .. Len(entries') /\ n + 1 \in DOMAIN entries'
    BY <1>1, <1>2, <1>5
  <2>2. Valid(entries'[n + 1].lines)
    BY <1>2, <2>1 DEF EntriesValid
  <2> QED BY <1>2, <2>1, <2>2, BooksBalance
<1> HIDE DEF old, new, n
<1>8. Ledger!Appends(Len(new))
  <2>1. \A k \in Len(old) + 1 .. Len(new) : k = n + 1
    BY <1>1, <1>6
  <2>2. /\ DOMAIN new = 1 .. Len(new)
        /\ \A k \in Len(old) + 1 .. Len(new) :
              new[k].undoneBy = 0 /\ Ledger!ZeroSum(new[k].effect)
    BY <1>6, <1>7, <2>1
  <2> QED BY Zenon, <2>2 DEF Ledger!Appends, BookOf, old, new
<1>9. /\ Len(new) > Len(old) /\ \A i \in DOMAIN old : new[i] = old[i]
  BY <1>1, <1>6
<1> QED BY Zenon, <1>8, <1>9, PostIs DEF old, new

\* A reversal undoes its original.
LEMMA ReverseIsUndo ==
    ASSUME JournalInv, JournalInv', NEW i, ReverseEntry(i)
    PROVE  i \in DOMAIN BookOf(entries) /\ Ledger!Undo(i)
<1> DEFINE n == Len(entries)
           old == BookOf(entries)
           new == BookOf(entries')
           swapped == Swap(entries[i].lines)
<1>1. /\ n \in Nat /\ DOMAIN entries = 1 .. n /\ i \in 1 .. n
      /\ entries[i].reversedBy = 0
      /\ Len(entries') = n + 1
      /\ entries'[n + 1] = [number |-> n + 1, source |-> "reversal", doc |-> i,
                            lines |-> swapped, reversedBy |-> 0]
      /\ entries'[i].reversedBy = n + 1
      /\ entries'[i].lines = entries[i].lines
      /\ \A k \in 1 .. n : k # i => entries'[k] = entries[k]
  BY ReversalWrites
<1>2. entries \in Seq(Entries) /\ entries' \in Seq(Entries) /\ EntriesValid'
  BY DEF JournalInv, TypeOK
<1>3. entries[i].lines \in Seq(LineInputs)
  BY <1>1, EntryFields DEF JournalInv
<1>4. entries'[n + 1].lines = swapped /\ entries'[n + 1].reversedBy = 0
  BY <1>1
<1>5. \A a : Effect(swapped, a) = -Effect(entries[i].lines, a)
  BY <1>3, SwapNegates DEF Effect
<1> DEFINE before(k) == [a \in Accounts |-> Effect(entries[k].lines, a)]
           after(k) == [a \in Accounts |-> Effect(entries'[k].lines, a)]
<1>6. /\ Len(old) = n /\ DOMAIN old = 1 .. n
      /\ \A k \in 1 .. n : old[k] = [effect |-> before(k), undoneBy |-> entries[k].reversedBy]
  BY <1>2, BookIs
<1>7. /\ Len(new) = n + 1 /\ DOMAIN new = 1 .. n + 1
      /\ \A k \in 1 .. n + 1 :
            new[k] = [effect |-> after(k), undoneBy |-> entries'[k].reversedBy]
  BY <1>1, <1>2, BookIs
<1>8. /\ \A a \in Accounts : after(n + 1)[a] = -before(i)[a]
      /\ after(i) = before(i)
      /\ \A k \in 1 .. n : k # i => after(k) = before(k)
  <2>1. \A a \in Accounts : after(n + 1)[a] = -before(i)[a]
    BY <1>4, <1>5
  <2>2. after(i) = before(i)
    BY <1>1
  <2>3. \A k \in 1 .. n : k # i => after(k) = before(k)
    BY <1>1
  <2> QED BY <2>1, <2>2, <2>3
<1>9. Ledger!ZeroSum(new[n + 1].effect)
  <2>1. n + 1 \in 1 .. Len(entries') /\ n + 1 \in DOMAIN entries'
    BY <1>1, <1>2
  <2>2. Valid(entries'[n + 1].lines)
    BY <1>2, <2>1 DEF EntriesValid
  <2> QED BY <1>2, <2>1, <2>2, BooksBalance
<1> HIDE DEF old, new, n, swapped, before, after
<1>10. n + 1 \in 1 .. n + 1 /\ i \in 1 .. n + 1 /\ \A k \in 1 .. n : k \in 1 .. n + 1
  BY <1>1
<1>11. Ledger!Appends(Len(old) + 1)
  <2>1. \A k \in Len(old) + 1 .. Len(old) + 1 : k = n + 1
    BY <1>1, <1>6
  <2>2. new[n + 1].undoneBy = 0
    BY <1>4, <1>7, <1>10
  <2>3. DOMAIN new = 1 .. Len(old) + 1
    BY <1>6, <1>7
  <2>4. \A k \in Len(old) + 1 .. Len(old) + 1 :
           new[k].undoneBy = 0 /\ Ledger!ZeroSum(new[k].effect)
    BY <1>9, <2>1, <2>2
  <2> QED BY Zenon, <2>3, <2>4 DEF Ledger!Appends, BookOf, old, new
<1>12. old[i] = [effect |-> before(i), undoneBy |-> 0]
  BY <1>1, <1>6
<1>13. new[i] = [old[i] EXCEPT !.undoneBy = n + 1]
  <2>1. new[i] = [effect |-> before(i), undoneBy |-> n + 1]
    BY <1>1, <1>7, <1>8, <1>10
  <2> QED BY <1>12, <2>1
<1>14. \A a \in Accounts : new[n + 1].effect[a] = -old[i].effect[a]
  BY <1>7, <1>8, <1>10, <1>12
<1>15. ASSUME NEW j \in DOMAIN old \ {i} PROVE new[j] = old[j]
  <2>1. j \in 1 .. n /\ j \in 1 .. n + 1 /\ j # i
    BY <1>6, <1>10, <1>15
  <2>2. after(j) = before(j) /\ entries'[j].reversedBy = entries[j].reversedBy
    BY <1>1, <1>8, <2>1
  <2> QED BY <1>6, <1>7, <2>1, <2>2
<1>16. Len(old) + 1 = n + 1 /\ i \in DOMAIN old /\ old[i].undoneBy = 0
  BY <1>1, <1>6, <1>12
<1>17. Ledger!Undo(i)
  <2>1. old[i].undoneBy = 0 /\ Ledger!Appends(Len(old) + 1)
    BY Zenon, <1>11, <1>16
  <2>2. \A a \in Accounts : new[Len(old) + 1].effect[a] = -old[i].effect[a]
    BY Zenon, <1>14, <1>16
  <2>3. new[i] = [old[i] EXCEPT !.undoneBy = Len(old) + 1]
    BY Zenon, <1>13, <1>16
  <2>4. \A j \in DOMAIN old \ {i} : new[j] = old[j]
    BY Zenon, <1>15
  <2> QED BY Zenon, <2>1, <2>2, <2>3, <2>4 DEF Ledger!Undo, BookOf, old, new
<1> QED BY <1>16, <1>17 DEF old

\* Every step of the journal is one of the ledger, or none.
LEMMA LedgerStep ==
    JournalInv /\ JournalInv' /\ [Next]_vars => [Ledger!Next]_(BookOf(entries))
<1> SUFFICES ASSUME JournalInv, JournalInv', [Next]_vars
             PROVE  Ledger!Next \/ UNCHANGED BookOf(entries)
  OBVIOUS
<1>1. ASSUME NEW source \in ManualSources, NEW lines \in ManualLines,
             PostManual(source, lines)
      PROVE  Ledger!Next
  <2>1. PostEntry(source, 0, lines)
    BY <1>1 DEF PostManual
  <2> QED BY <2>1, PostIsPost, NextIs
<1>2. ASSUME NEW i \in DOMAIN entries, ReverseManual(i) PROVE Ledger!Next
  <2>1. ReverseEntry(i)
    BY <1>2 DEF ReverseManual
  <2> QED BY <2>1, ReverseIsUndo, NextIs
<1>3. ASSUME UNCHANGED entries PROVE UNCHANGED BookOf(entries)
  BY <1>3
<1> QED BY <1>1, <1>2, <1>3 DEF Next, SoftDelete, vars

(***************************************************************************)
(* The journal under other tables, whose proofs cite this: a step adds or  *)
(* links entries, and changes the source, the document and the lines of    *)
(* none.                                                                   *)
(***************************************************************************)
Kept ==
    /\ DOMAIN entries \subseteq DOMAIN entries' /\ Len(entries') <= MaxEntries
    /\ \A i \in DOMAIN entries :
          /\ entries'[i].source = entries[i].source /\ entries'[i].doc = entries[i].doc
          /\ entries'[i].lines = entries[i].lines
          /\ entries[i].reversedBy # 0 => entries'[i].reversedBy # 0

\* Entries that operations write are added or linked.
LEMMA PostKeeps ==
    ASSUME TypeOK, NEW source, NEW doc, NEW lines, PostEntry(source, doc, lines)
    PROVE  /\ Kept /\ DOMAIN entries' = DOMAIN entries \cup {Len(entries) + 1}
           /\ Len(entries) + 1 \notin DOMAIN entries
           /\ entries'[Len(entries) + 1].source = source
           /\ entries'[Len(entries) + 1].doc = doc
           /\ entries'[Len(entries) + 1].lines = lines
           /\ entries'[Len(entries) + 1].reversedBy = 0
           /\ \A i \in DOMAIN entries : entries'[i] = entries[i]
<1> DEFINE e == NewEntry(source, doc, lines)
<1>1. entries' = Append(entries, e) /\ Len(entries) < MaxEntries /\ entries \in Seq(Entries)
  BY DEF PostEntry, TypeOK
<1>2. e.source = source /\ e.doc = doc /\ e.lines = lines /\ e.reversedBy = 0
  BY DEF NewEntry
<1> HIDE DEF e
<1>3. /\ Len(entries) \in Nat /\ DOMAIN entries = 1 .. Len(entries)
      /\ DOMAIN entries' = 1 .. Len(entries) + 1 /\ Len(entries') = Len(entries) + 1
      /\ entries'[Len(entries) + 1] = e /\ \A i \in 1 .. Len(entries) : entries'[i] = entries[i]
  BY <1>1
<1>4. Len(entries') <= MaxEntries
  BY <1>1, <1>3, JournalAssumption
<1>5. DOMAIN entries' = DOMAIN entries \cup {Len(entries) + 1}
      /\ Len(entries) + 1 \notin DOMAIN entries
  BY <1>3
<1> QED BY <1>2, <1>3, <1>4, <1>5 DEF Kept

LEMMA ReverseKeeps ==
    ASSUME JournalInv, NEW i, ReverseEntry(i)
    PROVE  /\ Kept /\ i \in DOMAIN entries /\ entries'[i].reversedBy # 0
           /\ \A j \in DOMAIN entries' \ DOMAIN entries :
                 /\ entries'[j].source = "reversal" /\ entries'[j].doc # 0
                 /\ entries'[j].reversedBy = 0
           /\ \A j \in DOMAIN entries : j # i => entries'[j] = entries[j]
<1> DEFINE n == Len(entries)
<1>1. /\ n \in Nat /\ DOMAIN entries = 1 .. n /\ i \in 1 .. n
      /\ entries[i].reversedBy = 0
      /\ Len(entries') = n + 1 /\ DOMAIN entries' = 1 .. (n + 1)
      /\ entries'[n + 1] = [number |-> n + 1, source |-> "reversal", doc |-> i,
                            lines |-> Swap(entries[i].lines), reversedBy |-> 0]
      /\ entries'[i].reversedBy = n + 1
      /\ \A k \in 1 .. n : /\ entries'[k].number = entries[k].number
                           /\ entries'[k].source = entries[k].source
                           /\ entries'[k].doc = entries[k].doc
                           /\ entries'[k].lines = entries[k].lines
      /\ \A k \in 1 .. n : k # i => entries'[k] = entries[k]
  BY ReversalWrites
<1>2. n < MaxEntries
  BY DEF ReverseEntry
<1> HIDE DEF n
<1>3. Len(entries') <= MaxEntries
  BY <1>1, <1>2, JournalAssumption
<1>4. entries'[i].reversedBy # 0
  BY <1>1
<1>5. \A j \in DOMAIN entries' \ DOMAIN entries : j = n + 1
  BY <1>1
<1>6. /\ entries'[n + 1].source = "reversal" /\ entries'[n + 1].doc = i
      /\ entries'[n + 1].reversedBy = 0 /\ i # 0
  BY <1>1
<1>7. DOMAIN entries \subseteq DOMAIN entries'
  BY <1>1
<1>8. \A k \in DOMAIN entries : entries[k].reversedBy # 0 => entries'[k].reversedBy # 0
  BY <1>1
<1>9. Kept
  BY <1>1, <1>3, <1>7, <1>8 DEF Kept
<1> QED BY <1>1, <1>4, <1>5, <1>6, <1>9

\* A step that leaves the journal alone keeps what is known of it.
LEMMA JournalKept ==
    ASSUME JournalInv, UNCHANGED entries, liveRefs' \subseteq Refs
    PROVE  JournalInv' /\ UNCHANGED BookOf(entries)
BY DEF JournalInv, TypeOK, NumbersConsecutive, EntriesValid, ReversalsPaired, IsReversal

(***************************************************************************)
(* The theorems.                                                           *)
(***************************************************************************)
\* The stored rows always have the columns the schema declares.
THEOREM TypeCorrect == Spec => []TypeOK
BY JournalInvariant, PTL DEF JournalInv

\* Whatever is posted and reversed, every entry in the tables balances, so
\* the trial balance does.
THEOREM Balanced == Spec => []EntriesBalanced
BY JournalInvariant, JournalImplies, PTL

\* No entry is reversed twice, a reversal is the exact opposite of its
\* original, and however reversals of reversals are piled up, every balance is
\* that of the entries that stand.
THEOREM Cancels == Spec => []ReversalsCancel
BY JournalInvariant, JournalCancels, PTL

\* Soft-deleting properties, units, contacts or leases never makes a posted
\* entry impossible to reverse.
THEOREM Reversible == Spec => []AlwaysReversible
BY JournalInvariant, JournalImplies, PTL

\* The journal implements AppendOnlyLedger, whatever the chart and however long
\* the ledger: it only grows, each entry moves value between accounts without
\* creating any, and an entry is undone by at most one later entry, which has
\* the opposite effect on every account.
THEOREM Refines == Spec => IsAppendOnlyLedger
<1>1. Init => Ledger!Init
  BY DEF Init, Ledger!Init
<1>2. JournalInv /\ JournalInv' /\ [Next]_vars
        => [Ledger!Next]_([i \in DOMAIN entries |->
                     [effect |-> [a \in Accounts |-> Effect(entries[i].lines, a)],
                      undoneBy |-> entries[i].reversedBy]])
  BY LedgerStep DEF BookOf
<1> QED BY <1>1, <1>2, JournalInvariant, PTL DEF Spec, IsAppendOnlyLedger, Ledger!Spec
===============================================================================
