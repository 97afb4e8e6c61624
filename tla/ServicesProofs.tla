--------------------------- MODULE ServicesProofs ----------------------------
(***************************************************************************)
(* Theorems about what serves the users of the books, for every value of   *)
(* the constants: the database client (NestedTransactions), users and their*)
(* sessions (Team), limits of requests (RateLimiter), attached files and   *)
(* their backups (Attachments), conversations and notifications, the units *)
(* of properties (RentalUnits) and their tags (Amenities), backups and     *)
(* their records (Backups), the migrations of the database (Migrations)    *)
(* and the restore of an operator's data (OperatorRestore).                *)
(***************************************************************************)
EXTENDS NestedTransactions, Team, RateLimiter, Attachments, Backups, Conversations,
        Amenities, Migrations, Notifications, OperatorRestore, RentalUnits,
        FiniteSetTheorems, TLAPS

(***************************************************************************)
(* The database client.                                                    *)
(***************************************************************************)
Savepoints == [name : Nat, content : SUBSET Values]
Frames == [savepoint : Nat, wrote : SUBSET Values]
Databases ==
    [open : BOOLEAN, stored : SUBSET Values, content : SUBSET Values, saves : Seq(Savepoints)]

\* What is stored and what the outermost n calls in progress wrote.
Content(stored, calls, n) == {v \in Values : v \in stored \/ \E i \in 1 .. n : v \in calls[i].wrote}

\* While a transaction is open, it has what the n calls wrote, and the savepoint
\* of each inner call what the calls around it had written.
OpenInStep(n) ==
    db.open = TRUE =>
        /\ n > 0
        /\ db.content = Content(db.stored, frames, n)
        /\ Len(db.saves) = n - 1
        /\ \A i \in 1 .. n - 1 :
              /\ db.saves[i].name = i
              /\ db.saves[i].content = Content(db.stored, frames, i)

\* Once SQLite has ended it, nothing is left of it, and an error is on its way
\* out of all calls.
ClosedInStep(n) ==
    db.open = FALSE =>
        /\ db.content = db.stored /\ db.saves = <<>>
        /\ n > 0 => unwinding = TRUE /\ ~CallersCatch

\* The counter counts the calls, n of them.
Counted(n) ==
    /\ n \in Nat
    /\ db \in Databases /\ frames \in Seq(Frames) /\ unwinding \in BOOLEAN
    /\ Len(frames) = n /\ transactionDepth = n
    /\ \A i \in 1 .. n : frames[i].savepoint = i - 1
    /\ unwinding = TRUE => n > 0

InStep(n) == Counted(n) /\ OpenInStep(n) /\ ClosedInStep(n)

NTInv == \E n \in Nat : InStep(n)

Wrote(calls) == [i \in DOMAIN calls |-> calls[i].wrote]

(***************************************************************************)
(* Facts about the operators.                                              *)
(***************************************************************************)
\* A sequence of which one element is replaced.
LEMMA SeqWith ==
    ASSUME NEW S, NEW s \in Seq(S), NEW k \in 1 .. Len(s), NEW e \in S
    PROVE  /\ [s EXCEPT ![k] = e] \in Seq(S) /\ Len([s EXCEPT ![k] = e]) = Len(s)
           /\ [s EXCEPT ![k] = e][k] = e
           /\ \A i \in 1 .. Len(s) : i # k => [s EXCEPT ![k] = e][i] = s[i]
OBVIOUS

\* Booleans as values, and the empty sequence.
LEMMA Truth == \A b \in BOOLEAN : (b <=> b = TRUE) /\ (~b <=> b = FALSE)
OBVIOUS

LEMMA Nothing == \A S : <<>> \in Seq(S)
OBVIOUS

\* Two sequences with the same elements.
LEMMA SameElements ==
    ASSUME NEW S, NEW s \in Seq(S), NEW t \in Seq(S), Len(s) = Len(t),
           \A i \in 1 .. Len(s) : s[i] = t[i]
    PROVE  s = t
OBVIOUS

LEMMA Empty == ASSUME NEW S, NEW s \in Seq(S) PROVE s = <<>> <=> Len(s) = 0
OBVIOUS

\* The fields of frames and databases, and what is left of them when some are set.
LEMMA FrameIs ==
    ASSUME NEW f \in Frames
    PROVE  f.savepoint \in Nat /\ f.wrote \in SUBSET Values
BY DEF Frames

LEMMA FrameWith ==
    ASSUME NEW f \in Frames, NEW w \in SUBSET Values
    PROVE  /\ [f EXCEPT !.wrote = w] \in Frames
           /\ [f EXCEPT !.wrote = w].savepoint = f.savepoint /\ [f EXCEPT !.wrote = w].wrote = w
BY DEF Frames

LEMMA DatabaseIs ==
    ASSUME NEW d \in Databases
    PROVE  /\ d.open \in BOOLEAN /\ d.stored \in SUBSET Values /\ d.content \in SUBSET Values
           /\ d.saves \in Seq(Savepoints)
BY DEF Databases

LEMMA Opened ==
    ASSUME NEW d \in Databases, NEW e, e = [d EXCEPT !.open = TRUE]
    PROVE  /\ e \in Databases /\ e.open = TRUE /\ e.stored = d.stored
           /\ e.content = d.content /\ e.saves = d.saves
BY DEF Databases

LEMMA Committed ==
    ASSUME NEW d \in Databases
    PROVE  /\ Commit(d) \in Databases /\ Commit(d).open = FALSE /\ Commit(d).stored = d.content
           /\ Commit(d).content = d.content /\ Commit(d).saves = <<>>
<1>1. PICK none \in Seq(Savepoints) : none = <<>>
  <2>1. <<>> \in Seq(Savepoints)
    OBVIOUS
  <2> QED BY <2>1
<1>2. PICK e : e = Commit(d)
  OBVIOUS
<1>3. e = [d EXCEPT !.open = FALSE, !.stored = d.content, !.saves = none]
  BY <1>1, <1>2 DEF Commit
<1>4. /\ e \in Databases /\ e.open = FALSE /\ e.stored = d.content
      /\ e.content = d.content /\ e.saves = none
  BY <1>3 DEF Databases
<1> QED BY <1>1, <1>2, <1>4

LEMMA RolledBack ==
    ASSUME NEW d \in Databases
    PROVE  /\ Rollback(d) \in Databases /\ Rollback(d).open = FALSE /\ Rollback(d).stored = d.stored
           /\ Rollback(d).content = d.stored /\ Rollback(d).saves = <<>>
<1>1. PICK none \in Seq(Savepoints) : none = <<>>
  <2>1. <<>> \in Seq(Savepoints)
    OBVIOUS
  <2> QED BY <2>1
<1>2. PICK e : e = Rollback(d)
  OBVIOUS
<1>3. e = [d EXCEPT !.open = FALSE, !.content = d.stored, !.saves = none]
  BY <1>1, <1>2 DEF Rollback
<1>4. /\ e \in Databases /\ e.open = FALSE /\ e.stored = d.stored
      /\ e.content = d.stored /\ e.saves = none
  BY <1>3 DEF Databases
<1> QED BY <1>1, <1>2, <1>4

LEMMA SavesSet ==
    ASSUME NEW d \in Databases, NEW saves \in Seq(Savepoints), NEW e, e = [d EXCEPT !.saves = saves]
    PROVE  /\ e \in Databases /\ e.open = d.open /\ e.stored = d.stored
           /\ e.content = d.content /\ e.saves = saves
BY DEF Databases

LEMMA WroteIs ==
    ASSUME NEW calls \in Seq(Frames)
    PROVE  /\ Wrote(calls) \in Seq(SUBSET Values) /\ Len(Wrote(calls)) = Len(calls)
           /\ DOMAIN Wrote(calls) = 1 .. Len(calls)
           /\ \A i \in 1 .. Len(calls) : Wrote(calls)[i] = calls[i].wrote
<1>1. \A i \in 1 .. Len(calls) : calls[i] \in Frames
  OBVIOUS
<1>2. \A i \in 1 .. Len(calls) : calls[i].wrote \in SUBSET Values
  BY <1>1, FrameIs
<1> QED BY <1>2 DEF Wrote

LEMMA WrittenSame ==
    ASSUME NEW stored, NEW c, NEW d, NEW n \in Nat, \A i \in 1 .. n : c[i].wrote = d[i].wrote
    PROVE  Content(stored, c, n) = Content(stored, d, n)
BY DEF Content

\* The call on top returns or is left; the one below gets what it passes on.
LEMMA PoppedIs ==
    ASSUME frames \in Seq(Frames), NEW n \in Nat \ {0}, n = Len(frames),
           NEW passed \in SUBSET Values
    PROVE  /\ Popped(passed) \in Seq(Frames) /\ Len(Popped(passed)) = n - 1
           /\ \A i \in 1 .. n - 1 :
                 /\ Popped(passed)[i].savepoint = frames[i].savepoint
                 /\ i # n - 1 => Popped(passed)[i].wrote = frames[i].wrote
           /\ n > 1 => Popped(passed)[n - 1].wrote = frames[n - 1].wrote \cup passed
<1>1. CASE n = 1
  BY <1>1 DEF Popped
<1>2. CASE n > 1
  <2>1. /\ Front(frames) \in Seq(Frames) /\ Len(Front(frames)) = n - 1
        /\ \A i \in 1 .. n - 1 : Front(frames)[i] = frames[i]
    BY <1>2 DEF Front
  <2> DEFINE below == Front(frames)[n - 1]
             merged == [below EXCEPT !.wrote = @ \cup passed]
  <2>2. Popped(passed) = [Front(frames) EXCEPT ![n - 1] = merged]
    <3>1. n # 1
      BY <1>2
    <3> QED BY <3>1 DEF Popped
  <2>3. below = frames[n - 1] /\ below \in Frames /\ n - 1 \in 1 .. Len(Front(frames))
    BY <1>2, <2>1
  <2>4. /\ merged \in Frames /\ merged.savepoint = below.savepoint
        /\ merged.wrote = below.wrote \cup passed
    <3>1. below.wrote \cup passed \in SUBSET Values
      BY <2>3, FrameIs
    <3> QED BY <2>3, <3>1, FrameWith
  <2>5. /\ Popped(passed) \in Seq(Frames) /\ Len(Popped(passed)) = n - 1
        /\ Popped(passed)[n - 1] = merged
        /\ \A i \in 1 .. n - 1 : i # n - 1 => Popped(passed)[i] = Front(frames)[i]
    BY <2>1, <2>2, <2>3, <2>4, SeqWith
  <2> QED BY <2>1, <2>3, <2>4, <2>5
<1>3. n = 1 \/ n > 1
  OBVIOUS
<1> QED BY <1>1, <1>2, <1>3

LEMMA NewestIs ==
    ASSUME NEW d, NEW m \in Nat \ {0}, d.saves \in Seq(Savepoints), Len(d.saves) = m,
           \A i \in 1 .. m : d.saves[i].name = i
    PROVE  HasSavepoint(d, m) /\ Newest(d, m) = m
BY DEF HasSavepoint, Newest

(***************************************************************************)
(* Init and the steps.                                                     *)
(***************************************************************************)
LEMMA CallsInitial == NTInit => NTInv /\ Calls!CallsInit
<1> SUFFICES ASSUME NTInit PROVE NTInv /\ Calls!CallsInit
  OBVIOUS
<1>1. /\ db.open = FALSE /\ db.stored = {} /\ db.content = {} /\ db.saves = <<>>
      /\ transactionDepth = 0 /\ frames = <<>> /\ unwinding = FALSE
  BY DEF NTInit
<1>2. db \in Databases
  <2>1. PICK none \in Seq(Savepoints) : none = <<>>
    BY Nothing
  <2>2. db = [open |-> FALSE, stored |-> {}, content |-> {}, saves |-> none]
    BY <2>1 DEF NTInit
  <2> QED BY <2>2 DEF Databases
<1>3. frames \in Seq(Frames) /\ Len(frames) = 0
  BY <1>1, Nothing
<1>4. Counted(0)
  <2>1. unwinding \in BOOLEAN /\ transactionDepth = 0 /\ ~(unwinding = TRUE)
    BY <1>1
  <2>2. \A i \in 1 .. 0 : frames[i].savepoint = i - 1
    OBVIOUS
  <2> QED BY <1>2, <1>3, <2>1, <2>2 DEF Counted
<1>5. OpenInStep(0)
  BY <1>1 DEF OpenInStep
<1>6. ClosedInStep(0)
  BY <1>1 DEF ClosedInStep
<1>7. NTInv
  BY <1>4, <1>5, <1>6 DEF NTInv, InStep
<1>8. Calls!CallsInit
  BY <1>1 DEF Calls!CallsInit
<1> QED BY <1>7, <1>8

\* What the steps find.
LEMMA CallsRun ==
    ASSUME NEW n \in Nat, InStep(n), ~unwinding
    PROVE  unwinding = FALSE /\ (n > 0 => db.open = TRUE) /\ (n = 0 => db.open = FALSE)
<1>1. unwinding = FALSE
  BY Truth DEF InStep, Counted
<1>2. db.open \in BOOLEAN
  BY DatabaseIs DEF InStep, Counted
<1>3. n = 0 => db.open = FALSE
  BY <1>2 DEF InStep, OpenInStep
<1>4. n > 0 => db.open = TRUE
  BY <1>1, <1>2 DEF InStep, ClosedInStep
<1> QED BY <1>1, <1>3, <1>4

LEMMA EnterStep ==
    ASSUME NEW n \in Nat, InStep(n), Enter
    PROVE  InStep(n + 1)' /\ Calls!Call
<1> DEFINE frame == [savepoint |-> n, wrote |-> {}]
<1>1. /\ db \in Databases /\ frames \in Seq(Frames) /\ Len(frames) = n /\ transactionDepth = n
      /\ transactionDepth' = n + 1 /\ \A i \in 1 .. n : frames[i].savepoint = i - 1
  BY DEF InStep, Counted, Enter
<1>2. /\ unwinding' = FALSE /\ (n > 0 => db.open = TRUE) /\ (n = 0 => db.open = FALSE)
  BY CallsRun DEF Enter
<1>3. frames' = Append(frames, frame) /\ frame \in Frames
  BY <1>1 DEF Enter, Frames
<1>4. /\ frames' \in Seq(Frames) /\ Len(frames') = n + 1 /\ frames'[n + 1] = frame
      /\ \A i \in 1 .. n : frames'[i] = frames[i]
  BY <1>1, <1>3
<1>5. \A i \in 1 .. n + 1 : frames'[i].savepoint = i - 1
  BY <1>1, <1>4
<1>6. \A s : \A i \in 1 .. n : Content(s, frames', i) = Content(s, frames, i)
  BY <1>4, WrittenSame
<1>7. \A s : Content(s, frames', n + 1) = Content(s, frames, n)
  BY <1>4 DEF Content
<1>8. ASSUME n = 0 
      PROVE  db' \in Databases /\ db'.stored = db.stored /\ OpenInStep(n + 1)' /\ ClosedInStep(n + 1)'
  <2>1. db' = [db EXCEPT !.open = TRUE]
    BY <1>1, <1>8 DEF Enter
  <2>2. /\ db' \in Databases /\ db'.open = TRUE /\ db'.stored = db.stored
        /\ db'.content = db.content /\ db'.saves = db.saves
    BY <1>1, <2>1, Opened
  <2>3. db.content = db.stored /\ db.saves = <<>>
    BY <1>2, <1>8 DEF InStep, ClosedInStep
  <2>4. db.stored = Content(db.stored, frames, 0)
    BY <1>1, DatabaseIs DEF Content
  <2>5. OpenInStep(n + 1)'
    BY <1>7, <1>8, <2>2, <2>3, <2>4 DEF OpenInStep
  <2>6. ClosedInStep(n + 1)'
    BY <2>2 DEF ClosedInStep
  <2> QED BY <2>2, <2>5, <2>6
<1>9. ASSUME n > 0
      PROVE  db' \in Databases /\ db'.stored = db.stored /\ OpenInStep(n + 1)' /\ ClosedInStep(n + 1)'
  <2> DEFINE save == [name |-> n, content |-> db.content]
  <2>1. db' = [db EXCEPT !.saves = Append(@, save)]
    BY <1>1, <1>9 DEF Enter, SetSavepoint
  <2>2. save \in Savepoints /\ db.saves \in Seq(Savepoints)
    BY <1>1, DatabaseIs DEF Savepoints
  <2>3. Append(db.saves, save) \in Seq(Savepoints)
    BY <2>2
  <2>4. /\ db' \in Databases /\ db'.open = TRUE /\ db'.stored = db.stored
        /\ db'.content = db.content /\ db'.saves = Append(db.saves, save)
    <3> DEFINE saves == Append(db.saves, save)
    <3>1. saves \in Seq(Savepoints) /\ db' = [db EXCEPT !.saves = saves]
      BY <2>1, <2>3
    <3> HIDE DEF saves
    <3>2. /\ db' \in Databases /\ db'.open = db.open /\ db'.stored = db.stored
          /\ db'.content = db.content /\ db'.saves = saves
      BY <1>1, <3>1, SavesSet
    <3> QED BY <1>2, <1>9, <3>2 DEF saves
  <2>5. /\ Len(db.saves) = n - 1 /\ db.content = Content(db.stored, frames, n)
        /\ \A i \in 1 .. n - 1 : /\ db.saves[i].name = i
                                 /\ db.saves[i].content = Content(db.stored, frames, i)
    BY <1>2, <1>9 DEF InStep, OpenInStep
  <2>6. /\ Len(db'.saves) = n
        /\ \A i \in 1 .. n : /\ db'.saves[i].name = i
                             /\ db'.saves[i].content = Content(db.stored, frames, i)
    <3>1. Len(db'.saves) = n
      BY <2>2, <2>4, <2>5
    <3>2. db'.saves[n] = save /\ \A i \in 1 .. n - 1 : db'.saves[i] = db.saves[i]
      BY <1>9, <2>2, <2>4, <2>5
    <3>3. db'.saves[n].name = n /\ db'.saves[n].content = db.content
      BY <3>2
    <3>4. ASSUME NEW i \in 1 .. n
          PROVE  db'.saves[i].name = i /\ db'.saves[i].content = Content(db.stored, frames, i)
      <4>1. i = n \/ i \in 1 .. n - 1
        OBVIOUS
      <4> QED BY <2>5, <3>2, <3>3, <4>1
    <3> QED BY <3>1, <3>4
  <2>7. OpenInStep(n + 1)'
    BY <1>6, <1>7, <2>4, <2>5, <2>6 DEF OpenInStep
  <2>8. ClosedInStep(n + 1)'
    BY <2>4 DEF ClosedInStep
  <2> QED BY <2>4, <2>7, <2>8
<1>10. Counted(n + 1)'
  <2>1. db' \in Databases
    BY <1>8, <1>9
  <2>2. unwinding' \in BOOLEAN /\ ~(unwinding' = TRUE)
    BY <1>2
  <2>3. n + 1 \in Nat
    OBVIOUS
  <2> QED BY <1>1, <1>4, <1>5, <2>1, <2>2, <2>3 DEF Counted
<1>11. Wrote(frames') = Append(Wrote(frames), {})
  <2>1. /\ Wrote(frames') \in Seq(SUBSET Values) /\ Len(Wrote(frames')) = n + 1
        /\ \A i \in 1 .. n + 1 : Wrote(frames')[i] = frames'[i].wrote
    BY <1>4, WroteIs
  <2>2. /\ Wrote(frames) \in Seq(SUBSET Values) /\ Len(Wrote(frames)) = n
        /\ \A i \in 1 .. n : Wrote(frames)[i] = frames[i].wrote
    BY <1>1, WroteIs
  <2> DEFINE longer == Append(Wrote(frames), {})
  <2>3. /\ longer \in Seq(SUBSET Values) /\ Len(longer) = n + 1 /\ longer[n + 1] = {}
        /\ \A i \in 1 .. n : longer[i] = frames[i].wrote
    BY <2>2
  <2>4. \A i \in 1 .. n + 1 : Wrote(frames')[i] = longer[i]
    BY <1>4, <2>1, <2>3
  <2> HIDE DEF longer
  <2> QED BY <2>1, <2>3, <2>4, SameElements DEF longer
<1>12. InStep(n + 1)'
  BY <1>8, <1>9, <1>10 DEF InStep
<1>13. db'.stored = db.stored
  BY <1>8, <1>9
<1>14. Calls!Call
  BY <1>11, <1>13 DEF Calls!Call, Wrote
<1> QED BY <1>12, <1>14

LEMMA StatementStep ==
    ASSUME NEW n \in Nat, InStep(n), NEW v \in Values, Statement(v)
    PROVE  InStep(n)' /\ Calls!Write(v)
<1>1. /\ db \in Databases /\ frames \in Seq(Frames) /\ Len(frames) = n
      /\ transactionDepth' = n /\ \A i \in 1 .. n : frames[i].savepoint = i - 1
  BY DEF InStep, Counted, Statement
<1>2. n > 0
  BY <1>1, Empty DEF Statement
<1>3. db.open = TRUE /\ unwinding' = FALSE
  BY <1>2, CallsRun DEF Statement
<1> DEFINE more == [frames[n] EXCEPT !.wrote = @ \cup {v}]
<1>4. frames' = [frames EXCEPT ![n] = more] /\ frames[n] \in Frames
  BY <1>1, <1>2 DEF Statement
<1>5. /\ more \in Frames /\ more.savepoint = frames[n].savepoint
      /\ more.wrote = frames[n].wrote \cup {v}
  <2>1. frames[n].wrote \cup {v} \in SUBSET Values
    BY <1>4, FrameIs
  <2> QED BY <1>4, <2>1, FrameWith
<1>6. /\ frames' \in Seq(Frames) /\ Len(frames') = n /\ frames'[n] = more
      /\ \A i \in 1 .. n : i # n => frames'[i] = frames[i]
  <2> HIDE DEF more
  <2> QED BY <1>1, <1>2, <1>4, <1>5, SeqWith
<1>7. /\ frames'[n].savepoint = frames[n].savepoint
      /\ frames'[n].wrote = frames[n].wrote \cup {v}
  BY <1>5, <1>6
<1> HIDE DEF more
<1>8. /\ db' \in Databases /\ db'.open = TRUE /\ db'.stored = db.stored
      /\ db'.content = db.content \cup {v} /\ db'.saves = db.saves
  <2> DEFINE content == db.content \cup {v}
  <2>1. db' = [db EXCEPT !.content = content]
    BY <1>3 DEF Statement, Insert
  <2>2. content \in SUBSET Values
    BY <1>1, DatabaseIs
  <2> HIDE DEF content
  <2>3. /\ db' \in Databases /\ db'.open = db.open /\ db'.stored = db.stored
        /\ db'.content = content /\ db'.saves = db.saves
    BY <1>1, <2>1, <2>2 DEF Databases
  <2> QED BY <1>3, <2>3 DEF content
<1>9. \A s : \A i \in 1 .. n - 1 : Content(s, frames', i) = Content(s, frames, i)
  BY <1>6, WrittenSame
<1>10. \A s : Content(s, frames', n) = Content(s, frames, n) \cup {v}
  BY <1>2, <1>6, <1>7 DEF Content
<1>11. OpenInStep(n)'
  <2>1. /\ db.content = Content(db.stored, frames, n) /\ Len(db.saves) = n - 1
        /\ \A i \in 1 .. n - 1 : /\ db.saves[i].name = i
                                 /\ db.saves[i].content = Content(db.stored, frames, i)
    BY <1>3 DEF InStep, OpenInStep
  <2> QED BY <1>2, <1>8, <1>9, <1>10, <2>1 DEF OpenInStep
<1>12. ClosedInStep(n)'
  BY <1>8 DEF ClosedInStep
<1>13. Counted(n)'
  <2>1. unwinding' \in BOOLEAN /\ ~(unwinding' = TRUE)
    BY <1>3
  <2>2. \A i \in 1 .. n : frames'[i].savepoint = i - 1
    BY <1>1, <1>6, <1>7
  <2> QED BY <1>1, <1>6, <1>8, <2>1, <2>2 DEF Counted
<1>14. InStep(n)'
  BY <1>11, <1>12, <1>13 DEF InStep
<1>15. /\ Wrote(frames) # <<>> /\ Len(Wrote(frames)) = n
       /\ Wrote(frames') = [Wrote(frames) EXCEPT ![n] = @ \cup {v}]
  <2>1. /\ Wrote(frames') \in Seq(SUBSET Values) /\ Len(Wrote(frames')) = n
        /\ \A i \in 1 .. n : Wrote(frames')[i] = frames'[i].wrote
    BY <1>6, WroteIs
  <2>2. /\ Wrote(frames) \in Seq(SUBSET Values) /\ Len(Wrote(frames)) = n
        /\ \A i \in 1 .. n : Wrote(frames)[i] = frames[i].wrote
    BY <1>1, WroteIs
  <2> DEFINE newest == Wrote(frames)[n] \cup {v}
             with == [Wrote(frames) EXCEPT ![n] = newest]
  <2>3. newest \in SUBSET Values /\ n \in 1 .. n
    BY <1>2, <2>2
  <2>4. newest = frames'[n].wrote
    BY <1>2, <1>7, <2>2
  <2> HIDE DEF newest
  <2>5. /\ with \in Seq(SUBSET Values) /\ Len(with) = n /\ with[n] = newest
        /\ \A i \in 1 .. n : i # n => with[i] = frames[i].wrote
    BY <2>2, <2>3, SeqWith
  <2>6. \A i \in 1 .. n : Wrote(frames')[i] = with[i]
    BY <1>6, <2>1, <2>4, <2>5
  <2>7. Wrote(frames') = with
    <3> HIDE DEF with
    <3> QED BY <2>1, <2>5, <2>6, SameElements
  <2>8. Wrote(frames) # <<>>
    BY <1>2, <2>2, Empty
  <2> QED BY <2>2, <2>7, <2>8 DEF newest
<1>16. Calls!Write(v)
  BY <1>8, <1>15 DEF Calls!Write, Wrote
<1> QED BY <1>14, <1>16

\* An error starts on its way out; SQLite has ended the transaction or not.
LEMMA ErrorStep ==
    ASSUME NEW n \in Nat, InStep(n), Error \/ DiskError \/ CommitFails
    PROVE  InStep(n)' /\ frames' = frames /\ db'.stored = db.stored
<1>1. /\ db \in Databases /\ frames \in Seq(Frames) /\ Len(frames) = n
      /\ transactionDepth' = n /\ \A i \in 1 .. n : frames[i].savepoint = i - 1
      /\ frames' = frames
  BY DEF InStep, Counted, Error, DiskError, CommitFails
<1>2. n > 0
  BY <1>1, Empty DEF Error, DiskError, CommitFails
<1>3. unwinding' = TRUE /\ (db' = db \/ (db' = Rollback(db) /\ ~CallersCatch))
  BY DEF Error, DiskError, CommitFails
<1>4. db.open = TRUE
  BY <1>2, CallsRun DEF Error, DiskError, CommitFails
<1>5. ASSUME db' = db
      PROVE  db' \in Databases /\ db'.stored = db.stored /\ OpenInStep(n)' /\ ClosedInStep(n)'
  <2>1. OpenInStep(n)' /\ ClosedInStep(n)'
    BY <1>1, <1>3, <1>4, <1>5 DEF InStep, OpenInStep, ClosedInStep
  <2> QED BY <1>1, <1>5, <2>1
<1>6. ASSUME db' = Rollback(db), ~CallersCatch
      PROVE  db' \in Databases /\ db'.stored = db.stored /\ OpenInStep(n)' /\ ClosedInStep(n)'
  <2>1. /\ db' \in Databases /\ db'.open = FALSE /\ db'.stored = db.stored
        /\ db'.content = db.stored /\ db'.saves = <<>>
    BY <1>1, <1>6, RolledBack
  <2>2. OpenInStep(n)'
    BY <2>1 DEF OpenInStep
  <2>3. ClosedInStep(n)'
    BY <1>3, <1>6, <2>1 DEF ClosedInStep
  <2> QED BY <2>1, <2>2, <2>3
<1>7. Counted(n)'
  <2>1. unwinding' \in BOOLEAN
    BY <1>3
  <2>2. db' \in Databases
    BY <1>3, <1>5, <1>6
  <2> QED BY <1>1, <1>2, <2>1, <2>2 DEF Counted
<1> QED BY <1>1, <1>3, <1>5, <1>6, <1>7 DEF InStep

\* What the calls wrote, as AtomicCalls has it, without the newest.
LEMMA FrontIs ==
    ASSUME NEW S, NEW s \in Seq(S), NEW n \in Nat \ {0}, Len(s) = n
    PROVE  /\ Front(s) \in Seq(S) /\ Len(Front(s)) = n - 1
           /\ \A i \in 1 .. n - 1 : Front(s)[i] = s[i]
BY DEF Front

\* The counter, and the frames that stay when a call is left.
LEMMA Below ==
    ASSUME NEW n \in Nat \ {0}, Counted(n), NEW passed \in SUBSET Values,
           frames' = Popped(passed), Left, db' \in Databases, unwinding' \in BOOLEAN,
           unwinding' = TRUE => n > 1
    PROVE  /\ Counted(n - 1)'
           /\ \A s : \A i \in 1 .. n - 2 : Content(s, frames', i) = Content(s, frames, i)
           /\ n > 1 => \A s : Content(s, frames', n - 1)
                                 = Content(s, frames, n - 1) \cup passed
           /\ Wrote(frames') \in Seq(SUBSET Values) /\ Len(Wrote(frames')) = n - 1
           /\ \A i \in 1 .. n - 1 : i # n - 1 => Wrote(frames')[i] = frames[i].wrote
           /\ n > 1 => Wrote(frames')[n - 1] = frames[n - 1].wrote \cup passed
<1>1. /\ frames \in Seq(Frames) /\ Len(frames) = n /\ transactionDepth = n
      /\ \A i \in 1 .. n : frames[i].savepoint = i - 1
  BY DEF Counted
<1>2. transactionDepth' = n - 1
  BY <1>1 DEF Left
<1>3. /\ frames' \in Seq(Frames) /\ Len(frames') = n - 1
      /\ \A i \in 1 .. n - 1 :
            /\ frames'[i].savepoint = frames[i].savepoint
            /\ i # n - 1 => frames'[i].wrote = frames[i].wrote
      /\ n > 1 => frames'[n - 1].wrote = frames[n - 1].wrote \cup passed
  BY <1>1, PoppedIs
<1>4. \A s : \A i \in 1 .. n - 2 : Content(s, frames', i) = Content(s, frames, i)
  <2>1. \A i \in 1 .. n - 2 : frames'[i].wrote = frames[i].wrote
    BY <1>3
  <2> QED BY <2>1, WrittenSame
<1>5. Counted(n - 1)'
  <2>1. n - 1 \in Nat /\ (unwinding' = TRUE => n - 1 > 0)
    OBVIOUS
  <2>2. \A i \in 1 .. n - 1 : frames'[i].savepoint = i - 1
    BY <1>1, <1>3
  <2> QED BY <1>2, <1>3, <2>1, <2>2 DEF Counted
<1>6. ASSUME n > 1, NEW s
      PROVE  Content(s, frames', n - 1) = Content(s, frames, n - 1) \cup passed
  <2>1. /\ \A i \in 1 .. n - 1 : i # n - 1 => frames'[i].wrote = frames[i].wrote
        /\ frames'[n - 1].wrote = frames[n - 1].wrote \cup passed
    BY <1>3, <1>6
  <2>2. n - 1 \in 1 .. n - 1
    BY <1>6
  <2> QED BY <2>1, <2>2 DEF Content
<1>7. /\ Wrote(frames') \in Seq(SUBSET Values) /\ Len(Wrote(frames')) = n - 1
      /\ \A i \in 1 .. n - 1 : Wrote(frames')[i] = frames'[i].wrote
  BY <1>3, WroteIs
<1> QED BY <1>3, <1>4, <1>5, <1>6, <1>7

\* Undoing a savepoint or releasing it, with what is below it.
LEMMA Shorter ==
    ASSUME NEW n \in Nat, n > 1, NEW d \in Databases, Len(d.saves) = n - 1,
           \A i \in 1 .. n - 1 : d.saves[i].name = i
    PROVE  /\ Release(d, n - 1) \in Databases /\ Release(d, n - 1).open = d.open
           /\ Release(d, n - 1).stored = d.stored /\ Release(d, n - 1).content = d.content
           /\ Len(Release(d, n - 1).saves) = n - 2
           /\ \A i \in 1 .. n - 2 : Release(d, n - 1).saves[i] = d.saves[i]
<1> DEFINE saves == SubSeq(d.saves, 1, n - 2)
<1>1. d.saves \in Seq(Savepoints) /\ n - 1 \in Nat \ {0}
  BY DatabaseIs
<1>2. Newest(d, n - 1) = n - 1
  BY <1>1, NewestIs
<1>3. saves \in Seq(Savepoints) /\ Len(saves) = n - 2 /\ \A i \in 1 .. n - 2 : saves[i] = d.saves[i]
  BY <1>1
<1>4. Release(d, n - 1) = [d EXCEPT !.saves = saves]
  <2>1. n - 1 - 1 = n - 2
    OBVIOUS
  <2> QED BY <1>2, <2>1 DEF Release
<1> HIDE DEF saves
<1>5. PICK e : e = Release(d, n - 1)
  OBVIOUS
<1>6. e \in Databases /\ e.open = d.open /\ e.stored = d.stored /\ e.content = d.content /\ e.saves = saves
  BY <1>3, <1>4, <1>5, SavesSet
<1> QED BY <1>3, <1>5, <1>6

LEMMA LeaveStep ==
    ASSUME NEW n \in Nat, InStep(n), Leave
    PROVE  InStep(n - 1)' /\ n - 1 \in Nat /\ Calls!Return
<1> DEFINE wrote == frames[n].wrote
<1>1. /\ Counted(n) /\ db \in Databases /\ frames \in Seq(Frames) /\ Len(frames) = n
      /\ \A i \in 1 .. n : frames[i].savepoint = i - 1
  BY DEF InStep, Counted
<1>2. n > 0
  BY <1>1, Empty DEF Leave
<1>3. wrote \in SUBSET Values /\ frames[n].savepoint = n - 1
  <2>1. frames[n] \in Frames
    BY <1>1, <1>2
  <2> QED BY <1>1, <1>2, <2>1, FrameIs
<1>4. db.open = TRUE /\ unwinding' = FALSE
  BY <1>2, CallsRun DEF Leave
<1>5. /\ db' = IF IsTopLevel(frames[n]) THEN Commit(db) ELSE Release(db, n - 1)
      /\ frames' = Popped(wrote) /\ Left
  BY <1>1, <1>3 DEF Leave, Last
<1>6. IsTopLevel(frames[n]) <=> n = 1
  BY <1>3 DEF IsTopLevel
<1>7. /\ db.content = Content(db.stored, frames, n) /\ Len(db.saves) = n - 1
      /\ \A i \in 1 .. n - 1 : /\ db.saves[i].name = i
                               /\ db.saves[i].content = Content(db.stored, frames, i)
  BY <1>4 DEF InStep, OpenInStep
<1>8. /\ Wrote(frames) \in Seq(SUBSET Values) /\ Len(Wrote(frames)) = n
      /\ \A i \in 1 .. n : Wrote(frames)[i] = frames[i].wrote
      /\ Wrote(frames) # <<>>
  <2>1. /\ Wrote(frames) \in Seq(SUBSET Values) /\ Len(Wrote(frames)) = n
        /\ \A i \in 1 .. n : Wrote(frames)[i] = frames[i].wrote
    BY <1>1, WroteIs
  <2> QED BY <1>2, <2>1, Empty
<1> HIDE DEF wrote
<1>12. n \in Nat \ {0} /\ unwinding' \in BOOLEAN /\ ~(unwinding' = TRUE)
  <2>1. n \in Nat \ {0}
    BY <1>2
  <2> QED BY <1>4, <2>1
<1>9. ASSUME n = 1 PROVE InStep(n - 1)' /\ Calls!Return
  <2>1. db' = Commit(db)
    BY <1>5, <1>6, <1>9
  <2>2. /\ db' \in Databases /\ db'.open = FALSE /\ db'.stored = db.content
        /\ db'.content = db.content /\ db'.saves = <<>>
    BY <1>1, <2>1, Committed
  <2>3. Counted(n - 1)'
    BY <1>1, <1>3, <1>5, <1>12, <2>2, Below
  <2>4. OpenInStep(n - 1)'
    BY <2>2 DEF OpenInStep
  <2>5. ClosedInStep(n - 1)'
    BY <1>9, <2>2 DEF ClosedInStep
  <2>6. db'.stored = db.stored \cup Wrote(frames)[1]
    <3>1. db'.stored = Content(db.stored, frames, 1) /\ Wrote(frames)[1] = frames[1].wrote
      BY <1>7, <1>8, <1>9, <2>2
    <3>2. db.stored \in SUBSET Values /\ frames[1].wrote \in SUBSET Values
      BY <1>1, <1>3, <1>9, DatabaseIs DEF wrote
    <3> QED BY <3>1, <3>2 DEF Content
  <2>7. Wrote(frames') = <<>>
    <3>1. Len(frames') = 0 /\ frames' \in Seq(Frames)
      BY <1>9, <2>3 DEF Counted
    <3>2. Wrote(frames') \in Seq(SUBSET Values) /\ Len(Wrote(frames')) = 0
      BY <3>1, WroteIs
    <3> QED BY <3>2, Empty
  <2>8. Calls!Return
    BY <1>8, <1>9, <2>6, <2>7 DEF Calls!Return, Wrote
  <2> QED BY <2>3, <2>4, <2>5, <2>8 DEF InStep
<1>10. ASSUME n > 1 PROVE InStep(n - 1)' /\ Calls!Return
  <2>1. db' = Release(db, n - 1)
    BY <1>5, <1>6, <1>10
  <2>2. /\ db' \in Databases /\ db'.open = TRUE /\ db'.stored = db.stored
        /\ db'.content = db.content /\ Len(db'.saves) = n - 2
        /\ \A i \in 1 .. n - 2 : db'.saves[i] = db.saves[i]
    BY <1>1, <1>4, <1>7, <1>10, <2>1, Shorter
  <2>3. /\ Counted(n - 1)'
        /\ \A s : \A i \in 1 .. n - 2 : Content(s, frames', i) = Content(s, frames, i)
        /\ \A s : Content(s, frames', n - 1) = Content(s, frames, n - 1) \cup wrote
        /\ Wrote(frames') \in Seq(SUBSET Values) /\ Len(Wrote(frames')) = n - 1
        /\ \A i \in 1 .. n - 1 : i # n - 1 => Wrote(frames')[i] = frames[i].wrote
        /\ Wrote(frames')[n - 1] = frames[n - 1].wrote \cup wrote
    BY <1>1, <1>3, <1>5, <1>10, <1>12, <2>2, Below
  <2>4. \A s : Content(s, frames, n) = Content(s, frames, n - 1) \cup wrote
    BY <1>3, <1>10 DEF Content, wrote
  <2>5. db'.content = Content(db'.stored, frames', n - 1)
    <3>1. /\ Content(db.stored, frames', n - 1) = Content(db.stored, frames, n - 1) \cup wrote
          /\ Content(db.stored, frames, n) = Content(db.stored, frames, n - 1) \cup wrote
      BY <2>3, <2>4
    <3> QED BY <1>7, <2>2, <3>1
  <2>6. \A i \in 1 .. n - 2 : /\ db'.saves[i].name = i
                              /\ db'.saves[i].content = Content(db'.stored, frames', i)
    BY <1>7, <2>2, <2>3
  <2>7. OpenInStep(n - 1)'
    BY <1>10, <2>2, <2>5, <2>6 DEF OpenInStep
  <2>8. ClosedInStep(n - 1)'
    BY <2>2 DEF ClosedInStep
  <2>9. Wrote(frames') = [Front(Wrote(frames)) EXCEPT ![n - 1] = @ \cup Last(Wrote(frames))]
    <3>1. /\ Front(Wrote(frames)) \in Seq(SUBSET Values) /\ Len(Front(Wrote(frames))) = n - 1
          /\ \A i \in 1 .. n - 1 : Front(Wrote(frames))[i] = frames[i].wrote
      BY <1>2, <1>8, FrontIs
    <3>2. Last(Wrote(frames)) = wrote
      BY <1>2, <1>8 DEF Last, wrote
    <3> DEFINE newest == Front(Wrote(frames))[n - 1] \cup Last(Wrote(frames))
               with == [Front(Wrote(frames)) EXCEPT ![n - 1] = newest]
    <3>3. newest = frames[n - 1].wrote \cup wrote /\ n - 1 \in 1 .. n - 1
      BY <1>10, <3>1, <3>2
    <3>4. newest \in SUBSET Values
      BY <1>3, <1>8, <1>10, <3>2, <3>1
    <3> HIDE DEF newest
    <3>5. /\ with \in Seq(SUBSET Values) /\ Len(with) = n - 1 /\ with[n - 1] = newest
          /\ \A i \in 1 .. n - 1 : i # n - 1 => with[i] = frames[i].wrote
      BY <3>1, <3>3, <3>4, SeqWith
    <3>6. \A i \in 1 .. n - 1 : Wrote(frames')[i] = with[i]
      BY <2>3, <3>3, <3>5
    <3>7. Wrote(frames') = with
      <4> HIDE DEF with
      <4> QED BY <2>3, <3>5, <3>6, SameElements
    <3> QED BY <3>7 DEF newest
  <2>10. Calls!Return
    <3>1. Len(Wrote(frames)) # 1 /\ Len(Wrote(frames)) - 1 = n - 1
      BY <1>8, <1>10
    <3>2. Wrote(frames') = [Front(Wrote(frames)) EXCEPT
                              ![Len(Wrote(frames)) - 1] = @ \cup Last(Wrote(frames))]
      BY <2>9, <3>1
    <3>3. Wrote(frames) # <<>> /\ db'.stored = db.stored
      BY <1>8, <2>2
    <3> QED
      BY <3>1, <3>2, <3>3 DEF Calls!Return, Calls!Front, Calls!Last, Front, Last, Wrote
  <2> QED BY <2>3, <2>7, <2>8, <2>10 DEF InStep
<1>11. n - 1 \in Nat /\ (n = 1 \/ n > 1)
  BY <1>2
<1> QED BY <1>9, <1>10, <1>11

LEMMA UnwindStep ==
    ASSUME NEW n \in Nat, InStep(n), Unwind
    PROVE  InStep(n - 1)' /\ n - 1 \in Nat /\ Calls!Throw
<1>1. /\ Counted(n) /\ db \in Databases /\ frames \in Seq(Frames) /\ Len(frames) = n
      /\ \A i \in 1 .. n : frames[i].savepoint = i - 1
      /\ unwinding \in BOOLEAN /\ db.open \in BOOLEAN
  BY DatabaseIs DEF InStep, Counted
<1>2. n > 0 /\ n \in Nat \ {0}
  BY <1>1, Empty DEF Unwind
<1>3. /\ unwinding' \in BOOLEAN /\ (unwinding' = TRUE => n > 1)
      /\ (unwinding' = FALSE => n = 1 \/ CallersCatch)
  BY <1>1, <1>2 DEF Unwind
<1>4. db' = Undone(frames[n]) /\ frames' = Popped({}) /\ Left
  BY <1>1 DEF Unwind, Last
<1>5. frames[n].savepoint = n - 1
  BY <1>1, <1>2
<1>6. IsTopLevel(frames[n]) <=> n = 1
  BY <1>5 DEF IsTopLevel
\* What is left once the database is known to be one.
<1>7. ASSUME db' \in Databases
      PROVE  /\ Counted(n - 1)' /\ Calls!Front(Wrote(frames)) = Wrote(frames')
             /\ \A s : \A i \in 1 .. n - 1 : Content(s, frames', i) = Content(s, frames, i)
  <2>1. /\ Counted(n - 1)'
        /\ \A s : \A i \in 1 .. n - 2 : Content(s, frames', i) = Content(s, frames, i)
        /\ n > 1 => \A s : Content(s, frames', n - 1) = Content(s, frames, n - 1) \cup {}
        /\ Wrote(frames') \in Seq(SUBSET Values) /\ Len(Wrote(frames')) = n - 1
        /\ \A i \in 1 .. n - 1 : i # n - 1 => Wrote(frames')[i] = frames[i].wrote
        /\ n > 1 => Wrote(frames')[n - 1] = frames[n - 1].wrote \cup {}
    <3>1. {} \in SUBSET Values
      OBVIOUS
    <3> QED BY <1>1, <1>2, <1>3, <1>4, <1>7, <3>1, Below
  <2>2. \A s : \A i \in 1 .. n - 1 : Content(s, frames', i) = Content(s, frames, i)
    <3>1. ASSUME NEW s, n > 1 PROVE Content(s, frames', n - 1) = Content(s, frames, n - 1)
      BY <2>1, <3>1
    <3>2. \A i \in 1 .. n - 1 : i \in 1 .. n - 2 \/ (n > 1 /\ i = n - 1)
      OBVIOUS
    <3> QED BY <2>1, <3>1, <3>2
  <2>3. /\ Wrote(frames) \in Seq(SUBSET Values) /\ Len(Wrote(frames)) = n
        /\ \A i \in 1 .. n : Wrote(frames)[i] = frames[i].wrote
    BY <1>1, WroteIs
  <2>4. /\ Front(Wrote(frames)) \in Seq(SUBSET Values) /\ Len(Front(Wrote(frames))) = n - 1
        /\ \A i \in 1 .. n - 1 : Front(Wrote(frames))[i] = frames[i].wrote
    BY <1>2, <2>3, FrontIs
  <2>5. \A i \in 1 .. n - 1 : Wrote(frames')[i] = Front(Wrote(frames))[i]
    <3>1. n > 1 => Wrote(frames')[n - 1] = frames[n - 1].wrote
      BY <2>1
    <3>2. \A i \in 1 .. n - 1 : i # n - 1 \/ (n > 1 /\ i = n - 1)
      OBVIOUS
    <3> QED BY <2>1, <2>4, <3>1, <3>2
  <2>6. Wrote(frames') = Front(Wrote(frames))
    BY <2>1, <2>4, <2>5, SameElements
  <2> QED BY <2>1, <2>2, <2>6 DEF Calls!Front, Front
<1>8. ASSUME n = 1
      PROVE  db' \in Databases /\ db'.stored = db.stored
             /\ OpenInStep(n - 1)' /\ ClosedInStep(n - 1)'
  <2>1. db' = Rollback(db)
    BY <1>4, <1>6, <1>8 DEF Undone
  <2>2. /\ db' \in Databases /\ db'.open = FALSE /\ db'.stored = db.stored
        /\ db'.content = db.stored /\ db'.saves = <<>>
    BY <1>1, <2>1, RolledBack
  <2>3. OpenInStep(n - 1)'
    BY <2>2 DEF OpenInStep
  <2>4. ClosedInStep(n - 1)'
    BY <1>8, <2>2 DEF ClosedInStep
  <2> QED BY <2>2, <2>3, <2>4
<1>9. ASSUME n > 1, db.open = TRUE
      PROVE  db' \in Databases /\ db'.stored = db.stored
             /\ OpenInStep(n - 1)' /\ ClosedInStep(n - 1)'
  <2>1. /\ Len(db.saves) = n - 1 /\ db.saves \in Seq(Savepoints)
        /\ \A i \in 1 .. n - 1 : /\ db.saves[i].name = i
                                 /\ db.saves[i].content = Content(db.stored, frames, i)
    BY <1>1, <1>9, DatabaseIs DEF InStep, OpenInStep
  <2>2. PICK m \in Nat \ {0} : m = n - 1
    BY <1>9
  <2>3. HasSavepoint(db, m) /\ Newest(db, m) = m
    BY <2>1, <2>2, NewestIs
  <2>4. SubSeq(db.saves, 1, m) = db.saves
    BY <2>1, <2>2
  <2>5. db.saves[m].content \in SUBSET Values
    <3>1. db.saves[m] \in Savepoints
      BY <2>1, <2>2
    <3> QED BY <3>1 DEF Savepoints
  <2>6. PICK back : back = RollbackTo(db, m)
    OBVIOUS
  <2>7. /\ back \in Databases /\ back.open = db.open /\ back.stored = db.stored
        /\ back.content = db.saves[m].content /\ back.saves = db.saves
    <3>1. back = [db EXCEPT !.content = db.saves[m].content, !.saves = db.saves]
      BY <2>3, <2>4, <2>6 DEF RollbackTo
    <3> QED BY <1>1, <2>1, <2>5, <3>1 DEF Databases
  <2>8. db' = Release(back, n - 1)
    <3>1. n # 1
      BY <1>9
    <3> QED BY <1>4, <1>5, <1>6, <2>2, <2>3, <2>6, <3>1 DEF Undone
  <2>9. /\ Len(back.saves) = n - 1 /\ \A i \in 1 .. n - 1 : back.saves[i].name = i
    BY <2>1, <2>7
  <2>10. /\ db' \in Databases /\ db'.open = TRUE /\ db'.stored = db.stored
         /\ db'.content = db.saves[n - 1].content /\ Len(db'.saves) = n - 2
         /\ \A i \in 1 .. n - 2 : db'.saves[i] = db.saves[i]
    <3>1. /\ db' \in Databases /\ db'.open = back.open /\ db'.stored = back.stored
          /\ db'.content = back.content /\ Len(db'.saves) = n - 2
          /\ \A i \in 1 .. n - 2 : db'.saves[i] = back.saves[i]
      BY <1>9, <2>7, <2>8, <2>9, Shorter
    <3> QED BY <1>9, <2>2, <2>7, <3>1
  <2>11. \A s : \A i \in 1 .. n - 1 : Content(s, frames', i) = Content(s, frames, i)
    BY <1>7, <2>10
  <2>12. db'.content = Content(db'.stored, frames', n - 1)
    BY <1>9, <2>1, <2>10, <2>11
  <2>13. \A i \in 1 .. n - 2 : /\ db'.saves[i].name = i
                               /\ db'.saves[i].content = Content(db'.stored, frames', i)
    BY <2>1, <2>10, <2>11
  <2>14. OpenInStep(n - 1)'
    BY <1>9, <2>10, <2>12, <2>13 DEF OpenInStep
  <2>15. ClosedInStep(n - 1)'
    BY <2>10 DEF ClosedInStep
  <2> QED BY <2>10, <2>14, <2>15
<1>10. ASSUME n > 1, db.open = FALSE
       PROVE  db' \in Databases /\ db'.stored = db.stored
              /\ OpenInStep(n - 1)' /\ ClosedInStep(n - 1)'
  <2>1. db.saves = <<>> /\ ~CallersCatch /\ db.content = db.stored
    BY <1>2, <1>10 DEF InStep, ClosedInStep
  <2>2. ~HasSavepoint(db, n - 1)
    BY <2>1 DEF HasSavepoint
  <2>3. db' = db
    <3>1. n # 1
      BY <1>10
    <3> QED BY <1>4, <1>5, <1>6, <2>2, <3>1 DEF Undone
  <2>4. unwinding' = TRUE
    BY <1>3, <1>10, <2>1
  <2>5. OpenInStep(n - 1)'
    BY <1>10, <2>3 DEF OpenInStep
  <2>6. ClosedInStep(n - 1)'
    BY <2>1, <2>3, <2>4 DEF ClosedInStep
  <2> QED BY <1>1, <2>3, <2>5, <2>6
<1>11. db' \in Databases /\ db'.stored = db.stored /\ OpenInStep(n - 1)' /\ ClosedInStep(n - 1)'
  <2>1. (n = 1 \/ n > 1) /\ (db.open = TRUE \/ db.open = FALSE)
    BY <1>1, <1>2
  <2> QED BY <1>8, <1>9, <1>10, <2>1
<1>12. InStep(n - 1)' /\ n - 1 \in Nat
  BY <1>2, <1>7, <1>11 DEF InStep
<1>13. Wrote(frames) # <<>>
  <2>1. Wrote(frames) \in Seq(SUBSET Values) /\ Len(Wrote(frames)) = n
    BY <1>1, WroteIs
  <2> QED BY <1>2, <2>1, Empty
<1>14. Calls!Throw
  BY <1>7, <1>11, <1>13 DEF Calls!Throw, Wrote
<1> QED BY <1>12, <1>14

LEMMA CloseStep ==
    ASSUME NEW n \in Nat, InStep(n), Close
    PROVE  InStep(n)' /\ frames' = frames /\ db'.stored = db.stored
<1>1. /\ frames' = frames /\ db' = db /\ unwinding' = unwinding
      /\ frames \in Seq(Frames) /\ Len(frames) = n /\ frames = <<>> /\ transactionDepth' = 0
  BY DEF Close, InStep, Counted
<1>2. n = 0
  BY <1>1, Empty
<1>3. Counted(n)'
  BY <1>1, <1>2 DEF InStep, Counted
<1>4. OpenInStep(n)' /\ ClosedInStep(n)'
  BY <1>1 DEF InStep, OpenInStep, ClosedInStep
<1> QED BY <1>1, <1>3, <1>4 DEF InStep

LEMMA CrashStep == ASSUME NEW n \in Nat, InStep(n), Crash PROVE InStep(0)' /\ Calls!Die
<1>1. /\ db \in Databases /\ db' = Rollback(db) /\ frames' = <<>> /\ unwinding' = FALSE
      /\ transactionDepth' = 0
  BY DEF InStep, Counted, Crash
<1>2. /\ db' \in Databases /\ db'.open = FALSE /\ db'.stored = db.stored
      /\ db'.content = db.stored /\ db'.saves = <<>>
  BY <1>1, RolledBack
<1>3. frames' \in Seq(Frames) /\ Len(frames') = 0
  BY <1>1, Nothing
<1>4. Counted(0)'
  <2>1. unwinding' \in BOOLEAN /\ ~(unwinding' = TRUE)
    BY <1>1
  <2>2. \A i \in 1 .. 0 : frames'[i].savepoint = i - 1
    OBVIOUS
  <2> QED BY <1>1, <1>2, <1>3, <2>1, <2>2 DEF Counted
<1>5. OpenInStep(0)'
  BY <1>2 DEF OpenInStep
<1>6. ClosedInStep(0)'
  BY <1>2 DEF ClosedInStep
<1>7. Calls!Die
  BY <1>1, <1>2 DEF Calls!Die
<1> QED BY <1>4, <1>5, <1>6, <1>7 DEF InStep

LEMMA StutterStep ==
    ASSUME NEW n \in Nat, InStep(n), UNCHANGED ntVars
    PROVE  InStep(n)' /\ frames' = frames /\ db'.stored = db.stored
<1>1. /\ frames' = frames /\ db' = db /\ unwinding' = unwinding
      /\ transactionDepth' = transactionDepth
  BY DEF ntVars
<1>2. Counted(n)' /\ OpenInStep(n)' /\ ClosedInStep(n)'
  BY <1>1 DEF InStep, Counted, OpenInStep, ClosedInStep
<1> QED BY <1>1, <1>2 DEF InStep

\* Every step keeps the invariant and is a step, or none, of AtomicCalls.
LEMMA NTStep == NTInv /\ [NTNext]_ntVars => NTInv' /\ [Calls!CallsNext]_(Calls!acVars)
<1> SUFFICES ASSUME NTInv, [NTNext]_ntVars
             PROVE  NTInv' /\ [Calls!CallsNext]_(Calls!acVars)
  OBVIOUS
<1>0. PICK n \in Nat : InStep(n)
  BY DEF NTInv
<1>a. ASSUME NEW m \in Nat, InStep(m)' PROVE NTInv'
  BY <1>a DEF NTInv
<1>1. CASE Enter
  <2>1. InStep(n + 1)' /\ n + 1 \in Nat /\ Calls!Call
    BY <1>0, <1>1, EnterStep
  <2> QED BY <1>a, <2>1 DEF Calls!CallsNext
<1>2. ASSUME NEW v \in Values, Statement(v)
      PROVE  NTInv' /\ [Calls!CallsNext]_(Calls!acVars)
  <2>1. InStep(n)' /\ Calls!Write(v)
    BY <1>0, <1>2, StatementStep
  <2> QED BY <1>0, <1>a, <2>1 DEF Calls!CallsNext
<1>3. CASE Error \/ DiskError \/ CommitFails
  BY <1>0, <1>3, <1>a, ErrorStep DEF Calls!acVars
<1>4. CASE Leave
  <2>1. InStep(n - 1)' /\ n - 1 \in Nat /\ Calls!Return
    BY <1>0, <1>4, LeaveStep
  <2> QED BY <1>a, <2>1 DEF Calls!CallsNext
<1>5. CASE Unwind
  <2>1. InStep(n - 1)' /\ n - 1 \in Nat /\ Calls!Throw
    BY <1>0, <1>5, UnwindStep
  <2> QED BY <1>a, <2>1 DEF Calls!CallsNext
<1>6. CASE Close
  BY <1>0, <1>6, <1>a, CloseStep DEF Calls!acVars
<1>7. CASE Crash
  <2>1. InStep(0)' /\ 0 \in Nat /\ Calls!Die
    BY <1>0, <1>7, CrashStep
  <2> QED BY <1>a, <2>1 DEF Calls!CallsNext
<1>8. CASE UNCHANGED ntVars
  BY <1>0, <1>8, <1>a, StutterStep DEF Calls!acVars
<1> QED BY <1>1, <1>2, <1>3, <1>4, <1>5, <1>6, <1>7, <1>8 DEF NTNext

LEMMA NTInvariant == NTSpec => []NTInv
BY CallsInitial, NTStep, PTL DEF NTSpec

(***************************************************************************)
(* The theorems.                                                           *)
(***************************************************************************)
\* The counter counts the calls in progress, whatever they end with, and the
\* savepoints are those of the inner calls unless SQLite has ended them all.
THEOREM CountsCalls == NTSpec => [](NTTypeOK /\ SavepointsInStep)
<1>1. NTInv => NTTypeOK /\ SavepointsInStep
  <2> SUFFICES ASSUME NTInv PROVE NTTypeOK /\ SavepointsInStep
    OBVIOUS
  <2>1. PICK n \in Nat : InStep(n)
    BY DEF NTInv
  <2>2. /\ db \in Databases /\ frames \in Seq(Frames) /\ Len(frames) = n
        /\ transactionDepth = n /\ \A i \in 1 .. n : frames[i].savepoint = i - 1
        /\ db.open \in BOOLEAN /\ unwinding \in BOOLEAN
    BY <2>1, DatabaseIs DEF InStep, Counted
  <2>3. transactionDepth = Len(frames) /\ \A i \in DOMAIN frames : frames[i].savepoint = i - 1
    BY <2>2
  <2>4. frames = <<>> => ~db.open /\ db.content = db.stored /\ db.saves = <<>> /\ ~unwinding
    <3> SUFFICES ASSUME frames = <<>>
                 PROVE  ~db.open /\ db.content = db.stored /\ db.saves = <<>> /\ ~unwinding
      OBVIOUS
    <3>1. n = 0
      BY <2>2, Empty
    <3>2. ~(db.open = TRUE) /\ ~(unwinding = TRUE)
      BY <2>1, <3>1 DEF InStep, Counted, OpenInStep
    <3>3. db.open = FALSE /\ unwinding = FALSE
      BY <2>2, <3>2
    <3> QED BY <2>1, <3>3 DEF InStep, ClosedInStep
  <2>5. db.open /\ ~unwinding => Len(db.saves) = Len(frames) - 1
    <3>1. db.open = TRUE => Len(db.saves) = n - 1
      BY <2>1 DEF InStep, OpenInStep
    <3>2. db.open => db.open = TRUE
      BY <2>2
    <3> QED BY <2>2, <3>1, <3>2
  <2> QED BY <2>3, <2>4, <2>5 DEF NTTypeOK, SavepointsInStep
<1> QED BY <1>1, NTInvariant, PTL

\* withTransaction implements AtomicCalls, however deep calls are nested: what
\* a call wrote is stored with the outermost one as a whole, or not at all, and
\* its counter keeps step with the calls.
THEOREM Atomic == NTSpec => CallsAreAtomic
BY CallsInitial, NTStep, NTInvariant, CountsCalls, PTL
   DEF NTSpec, CallsAreAtomic, Calls!CallsSpec

(***************************************************************************)
(* The server.                                                             *)
(***************************************************************************)
Roles == DOMAIN Rank
UserRows ==
    [operator : Nat, email : Emails, password : Passwords, role : Roles, system : BOOLEAN,
     version : Nat, live : BOOLEAN]
OperatorRows ==
    [subdomain : (Slugs \cup {"primary"}) \X Nat, founded : BOOLEAN, live : BOOLEAN]

\* What a token, or a login that waits, may hold of a user: a password of an
\* earlier version, or the present one.
Knows(u, claim) ==
    /\ u \in 1 .. Len(users) /\ claim.version \in Nat
    /\ claim.version <= users[u].version
    /\ claim.version = users[u].version => claim.password = users[u].password

\* What a request that waits has checked, and still holds when it goes on.
Prepared(r) ==
    /\ r.kind \in {"login", "setup", "provision", "create", "password", "appoint"}
    /\ r.kind = "login" => Knows(r.user, r.row)
    /\ r.kind \in {"setup", "provision", "appoint"} => r.email \in Emails /\ r.password \in Passwords
    /\ r.kind = "provision" => r.slug \in Slugs
    /\ r.kind = "create" => r.user \in UserRows /\ r.user.operator \in 1 .. Len(operators)
    /\ r.kind = "password" => r.user \in 1 .. Len(users) /\ r.password \in Passwords
    /\ r.kind = "appoint" => Len(operators) > 0

UsersHaveOperators == \A u \in 1 .. Len(users) : users[u].operator \in 1 .. Len(operators)
ToldApart ==
    \A u, v \in 1 .. Len(users) :
       users[u].live /\ users[v].live /\ users[u].operator = users[v].operator
          /\ users[u].email = users[v].email => u = v
FoundedFirst ==
    /\ \A o \in 1 .. Len(operators) :
          operators[o].founded => operators[o].subdomain = <<"primary", 0>>
    /\ \A o, p \in 1 .. Len(operators) : operators[o].founded /\ operators[p].founded => o = p

TeamInv ==
    /\ TeamAssumption
    /\ users \in Seq(UserRows) /\ operators \in Seq(OperatorRows)
    /\ UsersHaveOperators /\ ToldApart /\ FoundedFirst
    /\ \A r \in waiting : Prepared(r)
    /\ \A t \in tokens : Knows(t.user, t)

(***************************************************************************)
(* Facts about the operators.                                              *)
(***************************************************************************)
LEMMA RolesAre == Roles = {"system_owner", "system_manager", "owner", "manager", "viewer"}
BY DEF Roles, Rank

LEMMA RowIs ==
    ASSUME NEW row \in UserRows
    PROVE  /\ row.operator \in Nat /\ row.email \in Emails /\ row.password \in Passwords
           /\ row.role \in Roles /\ row.version \in Nat /\ row.live \in BOOLEAN
           /\ row.system \in BOOLEAN
BY DEF UserRows

LEMMA NewUserIs ==
    ASSUME NEW o \in Nat, NEW email \in Emails, NEW password \in Passwords, NEW role \in Roles,
           NEW system \in BOOLEAN, NEW user, user = UserOf(o, email, password, role, system)
    PROVE  /\ user \in UserRows /\ user.operator = o /\ user.email = email
           /\ user.password = password /\ user.version = 1
BY DEF UserOf, UserRows

LEMMA NewOperatorIs ==
    ASSUME NEW subdomain \in (Slugs \cup {"primary"}) \X Nat, NEW founded \in BOOLEAN, NEW op,
           op = OperatorRow(subdomain, founded)
    PROVE  op \in OperatorRows /\ op.subdomain = subdomain /\ op.founded = founded
BY DEF OperatorRow, OperatorRows

\* What steps keep of users and operators: they stay in their place, a user
\* has another password only in another version, and none comes back.
AccountsGrown ==
    /\ users' \in Seq(UserRows) /\ operators' \in Seq(OperatorRows)
    /\ Len(users) <= Len(users') /\ Len(operators) <= Len(operators')
    /\ \A u \in 1 .. Len(users) :
          /\ users'[u].operator = users[u].operator /\ users'[u].email = users[u].email
          /\ users'[u].live => users[u].live
          /\ users[u].version <= users'[u].version
          /\ users[u].version = users'[u].version => users'[u].password = users[u].password
    /\ \A o \in 1 .. Len(operators) :
          /\ operators'[o].subdomain = operators[o].subdomain
          /\ operators'[o].founded <=> operators[o].founded

LEMMA StillKnows ==
    ASSUME users \in Seq(UserRows), AccountsGrown, NEW u, NEW claim, Knows(u, claim)
    PROVE  Knows(u, claim)'
<1>1. u \in 1 .. Len(users) /\ Len(users) <= Len(users') /\ Len(users) \in Nat /\ Len(users') \in Nat
  BY DEF Knows, AccountsGrown
<1>2. u \in 1 .. Len(users')
  BY <1>1
<1>3. users[u].version \in Nat /\ users'[u].version \in Nat
  <2>1. users[u] \in UserRows /\ users'[u] \in UserRows
    BY <1>1, <1>2 DEF AccountsGrown
  <2> QED BY <2>1, RowIs
<1> QED BY <1>1, <1>2, <1>3 DEF Knows, AccountsGrown

LEMMA StillPrepared ==
    ASSUME users \in Seq(UserRows), operators \in Seq(OperatorRows), AccountsGrown, NEW r, Prepared(r)
    PROVE  Prepared(r)'
<1>1. /\ Len(users) <= Len(users') /\ Len(users) \in Nat /\ Len(users') \in Nat
      /\ Len(operators) <= Len(operators') /\ Len(operators) \in Nat /\ Len(operators') \in Nat
  BY DEF AccountsGrown
<1>2. r.kind = "login" => Knows(r.user, r.row)'
  BY StillKnows DEF Prepared
<1> QED BY <1>1, <1>2 DEF Prepared

\* A step keeps the invariant when nothing it adds is against it.
LEMMA Kept ==
    ASSUME TeamInv, AccountsGrown,
           Len(users') <= Len(users) + 1,
           Len(users') = Len(users) + 1 =>
              /\ users'[Len(users')].operator \in 1 .. Len(operators')
              /\ \A v \in 1 .. Len(users) :
                    ~(users[v].live /\ users[v].operator = users'[Len(users')].operator
                         /\ users[v].email = users'[Len(users')].email),
           Len(operators') <= Len(operators) + 1,
           Len(operators') = Len(operators) + 1 /\ operators'[Len(operators')].founded =>
              /\ operators'[Len(operators')].subdomain = <<"primary", 0>>
              /\ SubdomainFree(<<"primary", 0>>),
           \A r \in waiting' : r \in waiting \/ Prepared(r)',
           \A t \in tokens' : t \in tokens \/ Knows(t.user, t)'
    PROVE  TeamInv'
<1>1. /\ users \in Seq(UserRows) /\ operators \in Seq(OperatorRows) /\ TeamAssumption
      /\ UsersHaveOperators /\ ToldApart /\ FoundedFirst
  BY DEF TeamInv
<1>2. PICK n \in Nat : n = Len(users)
  <2>1. Len(users) \in Nat
    BY <1>1
  <2> QED BY <2>1
<1>3. PICK m \in Nat : m = Len(operators)
  BY <1>1
<1>4. PICK n1 \in Nat : n1 = Len(users') /\ n1 \in {n, n + 1}
  BY <1>1, <1>2 DEF AccountsGrown
<1>5. PICK m1 \in Nat : m1 = Len(operators') /\ m1 \in {m, m + 1}
  BY <1>1, <1>3 DEF AccountsGrown
<1>6. UsersHaveOperators'
  BY <1>1, <1>2, <1>3, <1>4, <1>5, SMTT(30) DEF UsersHaveOperators, AccountsGrown
<1>7. ToldApart'
  BY <1>1, <1>2, <1>4, SMTT(30) DEF ToldApart, AccountsGrown
<1>8. FoundedFirst'
  <2>1. /\ \A o \in 1 .. m : operators[o].founded => operators[o].subdomain = <<"primary", 0>>
        /\ \A o, p \in 1 .. m : operators[o].founded /\ operators[p].founded => o = p
        /\ \A o \in 1 .. m : /\ operators'[o].subdomain = operators[o].subdomain
                             /\ operators'[o].founded <=> operators[o].founded
    BY <1>1, <1>3 DEF FoundedFirst, AccountsGrown
  <2>2. m1 = m + 1 /\ operators'[m1].founded =>
           /\ operators'[m1].subdomain = <<"primary", 0>>
           /\ \A o \in 1 .. m : ~operators'[o].founded
    <3>1. SubdomainFree(<<"primary", 0>>) =>
             \A o \in 1 .. m : operators[o].subdomain # <<"primary", 0>>
      BY <1>1, <1>3 DEF SubdomainFree
    <3>2. m1 = m + 1 /\ operators'[m1].founded =>
             /\ operators'[m1].subdomain = <<"primary", 0>>
             /\ SubdomainFree(<<"primary", 0>>)
      BY <1>3, <1>5
    <3> QED BY <2>1, <3>1, <3>2
  <2>3. \A o \in 1 .. m1 : o \in 1 .. m \/ (m1 = m + 1 /\ o = m1)
    BY <1>5
  <2>4. \A o \in 1 .. m1 : operators'[o].founded => operators'[o].subdomain = <<"primary", 0>>
    BY <2>1, <2>2, <2>3
  <2>5. \A o, p \in 1 .. m1 : operators'[o].founded /\ operators'[p].founded => o = p
    BY <2>1, <2>2, <2>3
  <2> QED BY <1>5, <2>4, <2>5 DEF FoundedFirst
<1>9. \A r \in waiting' : Prepared(r)'
  BY <1>1, StillPrepared DEF TeamInv
<1>10. \A t \in tokens' : Knows(t.user, t)'
  BY <1>1, StillKnows DEF TeamInv
<1> QED BY <1>1, <1>6, <1>7, <1>8, <1>9, <1>10 DEF TeamInv, AccountsGrown

(***************************************************************************)
(* Init and the steps.                                                     *)
(***************************************************************************)
LEMMA TeamInitial == TeamAssumption /\ TeamInit => TeamInv
<1> SUFFICES ASSUME TeamAssumption, TeamInit PROVE TeamInv
  OBVIOUS
<1>1. /\ users \in Seq(UserRows) /\ operators \in Seq(OperatorRows)
      /\ Len(users) = 0 /\ Len(operators) = 0 /\ waiting = {} /\ tokens = {}
  BY DEF TeamInit
<1> QED BY <1>1 DEF TeamInv, UsersHaveOperators, ToldApart, FoundedFirst

LEMMA NothingGrown ==
    ASSUME TeamInv, UNCHANGED <<operators, users>>
    PROVE  AccountsGrown
<1>1. users \in Seq(UserRows) /\ operators \in Seq(OperatorRows)
  BY DEF TeamInv
<1>2. \A u \in 1 .. Len(users) : users[u].version \in Nat
  BY <1>1, RowIs
<1> QED BY <1>1, <1>2 DEF AccountsGrown

\* Steps that only make a request wait, or take something away.
LEMMA WaitStep ==
    ASSUME TeamInv, UNCHANGED <<operators, users>>,
           \A r \in waiting' : r \in waiting \/ Prepared(r),
           \A t \in tokens' : t \in tokens \/ Knows(t.user, t)
    PROVE  TeamInv'
<1>1. AccountsGrown /\ Len(users) \in Nat /\ Len(operators) \in Nat
  BY NothingGrown DEF TeamInv
<1>2. users \in Seq(UserRows) /\ operators \in Seq(OperatorRows)
  BY DEF TeamInv
<1>3. /\ \A r \in waiting' : r \in waiting \/ Prepared(r)'
      /\ \A t \in tokens' : t \in tokens \/ Knows(t.user, t)'
  BY <1>1, <1>2, StillPrepared, StillKnows
<1>4. Len(users') = Len(users) /\ Len(operators') = Len(operators)
  OBVIOUS
<1>5. /\ Len(users') <= Len(users) + 1 /\ ~(Len(users') = Len(users) + 1)
      /\ Len(operators') <= Len(operators) + 1 /\ ~(Len(operators') = Len(operators) + 1)
  BY <1>1, <1>4
<1> QED BY <1>1, <1>3, <1>5, Kept

\* A user is added, of an operator that is there or comes with it.
LEMMA Added ==
    ASSUME TeamInv, NEW user \in UserRows, users' = Append(users, user),
           user.operator \in 1 .. Len(operators'), EmailFree(user.operator, user.email),
           \/ operators' = operators
           \/ \E op \in OperatorRows :
                 /\ operators' = Append(operators, op)
                 /\ op.founded => /\ op.subdomain = <<"primary", 0>>
                                  /\ SubdomainFree(<<"primary", 0>>),
           waiting' \subseteq waiting,
           \A t \in tokens' : t \in tokens \/ (/\ t.user = Len(users) + 1 /\ t.version = user.version
                                               /\ t.password = user.password)
    PROVE  TeamInv'
<1>1. users \in Seq(UserRows) /\ operators \in Seq(OperatorRows)
  BY DEF TeamInv
<1>2. PICK n \in Nat : n = Len(users)
  <2>1. Len(users) \in Nat
    BY <1>1
  <2> QED BY <2>1
<1>3. PICK m \in Nat : m = Len(operators)
  BY <1>1
<1>4. /\ users' \in Seq(UserRows) /\ Len(users') = n + 1 /\ users'[n + 1] = user
      /\ \A u \in 1 .. n : users'[u] = users[u]
  BY <1>1, <1>2
<1>5. /\ operators' \in Seq(OperatorRows) /\ Len(operators') \in {m, m + 1}
      /\ \A o \in 1 .. m : operators'[o] = operators[o]
      /\ Len(operators') = m + 1 /\ operators'[m + 1].founded =>
            /\ operators'[m + 1].subdomain = <<"primary", 0>>
            /\ SubdomainFree(<<"primary", 0>>)
  <2>1. CASE operators' = operators
    BY <1>1, <1>3, <2>1
  <2>2. ASSUME NEW op \in OperatorRows, operators' = Append(operators, op),
               op.founded => op.subdomain = <<"primary", 0>> /\ SubdomainFree(<<"primary", 0>>)
        PROVE  /\ operators' \in Seq(OperatorRows) /\ Len(operators') = m + 1
               /\ \A o \in 1 .. m : operators'[o] = operators[o]
               /\ operators'[m + 1] = op
    BY <1>1, <1>3, <2>2
  <2> QED BY <1>3, <2>1, <2>2
<1>6. AccountsGrown
  <2>1. \A u \in 1 .. n : users[u].version \in Nat
    BY <1>1, <1>2, RowIs
  <2> QED BY <1>2, <1>3, <1>4, <1>5, <2>1 DEF AccountsGrown
<1>7. \A v \in 1 .. n : ~(users[v].live /\ users[v].operator = user.operator
                             /\ users[v].email = user.email)
  BY <1>1, <1>2 DEF EmailFree, LiveUsers
<1>8. \A t \in tokens' : t \in tokens \/ Knows(t.user, t)'
  <2>1. user.version \in Nat
    BY RowIs
  <2> QED BY <1>2, <1>4, <2>1 DEF Knows
<1>9. /\ Len(users') <= Len(users) + 1 /\ Len(operators') <= Len(operators) + 1
  BY <1>2, <1>3, <1>4, <1>5
<1>10. users'[Len(users')] = user /\ Len(users) = n
  BY <1>2, <1>4
<1>11. Len(operators') = Len(operators) + 1 /\ operators'[Len(operators')].founded =>
          /\ operators'[Len(operators')].subdomain = <<"primary", 0>>
          /\ SubdomainFree(<<"primary", 0>>)
  BY <1>3, <1>5
<1>12. \A r \in waiting' : r \in waiting \/ Prepared(r)'
  OBVIOUS
<1> QED BY <1>6, <1>7, <1>8, <1>9, <1>10, <1>11, <1>12, Kept

\* One user's row is written again, or several are no longer live.
LEMMA UserRewritten ==
    ASSUME TeamInv, users' \in Seq(UserRows), Len(users') = Len(users),
           \A u \in 1 .. Len(users) :
              /\ users'[u].operator = users[u].operator /\ users'[u].email = users[u].email
              /\ users'[u].live => users[u].live
              /\ users[u].version <= users'[u].version
              /\ users[u].version = users'[u].version => users'[u].password = users[u].password,
           operators' \in Seq(OperatorRows), Len(operators') = Len(operators),
           \A o \in 1 .. Len(operators) :
              /\ operators'[o].subdomain = operators[o].subdomain
              /\ operators'[o].founded <=> operators[o].founded,
           \A r \in waiting' : r \in waiting \/ Prepared(r), tokens' = tokens
    PROVE  TeamInv'
<1>1. users \in Seq(UserRows) /\ operators \in Seq(OperatorRows)
  BY DEF TeamInv
<1>2. Len(users) \in Nat /\ Len(operators) \in Nat
  BY <1>1
<1>3. AccountsGrown
  BY <1>2 DEF AccountsGrown
<1>4. \A r \in waiting' : r \in waiting \/ Prepared(r)'
  BY <1>1, <1>3, StillPrepared
<1>5. /\ Len(users') <= Len(users) + 1 /\ ~(Len(users') = Len(users) + 1)
      /\ Len(operators') <= Len(operators) + 1 /\ ~(Len(operators') = Len(operators) + 1)
  BY <1>2
<1> QED BY <1>3, <1>4, <1>5, Kept

\* What a caller, or any live user, is.
LEMMA LiveIs ==
    ASSUME TeamInv, NEW u \in LiveUsers
    PROVE  /\ u \in 1 .. Len(users) /\ users[u] \in UserRows /\ users[u].live
           /\ users[u].operator \in 1 .. Len(operators) /\ Knows(u, users[u])
<1>1. users \in Seq(UserRows)
  BY DEF TeamInv
<1>2. u \in 1 .. Len(users) /\ users[u] \in UserRows /\ users[u].live
  BY <1>1 DEF LiveUsers
<1>3. users[u].operator \in 1 .. Len(operators)
  BY <1>2 DEF TeamInv, UsersHaveOperators
<1> QED BY <1>2, <1>3, RowIs DEF Knows

\* The first halves of the handlers.
LEMMA WaitIs ==
    ASSUME TeamInv, NEW r, Wait(r), Prepared(r), UNCHANGED <<operators, users, tokens>>
    PROVE  TeamInv'
BY WaitStep DEF Wait

LEMMA UnauthenticatedStep == ASSUME TeamInv, Unauthenticated PROVE TeamInv'
<1>1. ASSUME NEW u \in LiveUsers, NEW password, Login(u, password) PROVE TeamInv'
  <2> DEFINE r == [kind |-> "login", user |-> u, row |-> users[u]]
  <2>1. Prepared(r)
    BY <1>1, LiveIs DEF Prepared
  <2> HIDE DEF r
  <2> QED BY <1>1, <2>1, WaitIs DEF Login, r
<1>2. ASSUME NEW email \in Emails, NEW password \in Passwords, Setup(email, password)
      PROVE  TeamInv'
  <2> DEFINE r == [kind |-> "setup", email |-> email, password |-> password]
  <2>1. Prepared(r)
    BY DEF Prepared
  <2> HIDE DEF r
  <2> QED BY <1>2, <2>1, WaitIs DEF Setup, r
<1>3. ASSUME NEW email \in Emails, NEW password \in Passwords, NEW slug \in Slugs, NEW explicit,
             Provision(slug, explicit, email, password)
      PROVE  TeamInv'
  <2> DEFINE r == [kind |-> "provision", slug |-> slug, explicit |-> explicit,
                   email |-> email, password |-> password]
  <2>1. Prepared(r)
    BY DEF Prepared
  <2> HIDE DEF r
  <2> QED BY <1>3, <2>1, WaitIs DEF Provision, r
<1> QED BY <1>1, <1>2, <1>3 DEF Unauthenticated

LEMMA CreateUserStep ==
    ASSUME TeamInv, NEW c \in LiveUsers, NEW email \in Emails, NEW password \in Passwords,
           NEW role \in TeamRoles, CreateUser(c, email, password, role)
    PROVE  TeamInv'
<1>1. PICK user : user = UserOf(users[c].operator, email, password, role, FALSE)
  OBVIOUS
<1>2. role \in Roles /\ users[c].operator \in 1 .. Len(operators) /\ users[c].operator \in Nat
  BY LiveIs, RowIs, RolesAre DEF TeamInv, TeamAssumption
<1>3. user \in UserRows /\ user.operator \in 1 .. Len(operators)
  <2>1. PICK system \in BOOLEAN : system = FALSE
    OBVIOUS
  <2>2. user = UserOf(users[c].operator, email, password, role, system)
    BY <1>1, <2>1
  <2>3. user \in UserRows /\ user.operator = users[c].operator
    BY <1>2, <2>2, NewUserIs
  <2> QED BY <1>2, <2>3
<1> DEFINE r == [kind |-> "create", user |-> user]
<1>4. Prepared(r)
  BY <1>3 DEF Prepared
<1> HIDE DEF r
<1> QED BY <1>1, <1>4, WaitIs DEF CreateUser, r

LEMMA AppointStep ==
    ASSUME TeamInv, NEW c \in LiveUsers, NEW email \in Emails, NEW password \in Passwords,
           Appoint(c, email, password)
    PROVE  TeamInv'
<1> DEFINE r == [kind |-> "appoint", email |-> email, password |-> password]
<1>1. Len(operators) > 0
  <2>1. users[c].operator \in 1 .. Len(operators) /\ Len(operators) \in Nat
    BY LiveIs DEF TeamInv
  <2> QED BY <2>1
<1>2. Prepared(r)
  BY <1>1 DEF Prepared
<1> HIDE DEF r
<1> QED BY <1>2, WaitIs DEF Appoint, r

LEMMA UpdateStep ==
    ASSUME TeamInv, NEW c \in LiveUsers, NEW u, NEW role \in TeamRoles \cup {Unchanged},
           NEW password \in Passwords \cup {Unchanged}, UpdateUser(c, u, role, password)
    PROVE  TeamInv'
<1>1. /\ users \in Seq(UserRows) /\ operators \in Seq(OperatorRows)
      /\ u \in 1 .. Len(users) /\ users[u] \in UserRows
  BY LiveIs DEF TeamInv, UpdateUser
<1>2. \A r \in waiting' : r \in waiting \/ Prepared(r)
  <2>1. CASE password = Unchanged
    BY <2>1 DEF UpdateUser
  <2>2. CASE password # Unchanged
    <3> DEFINE r == [kind |-> "password", user |-> u, password |-> password]
    <3>1. Prepared(r)
      BY <1>1, <2>2 DEF Prepared
    <3> HIDE DEF r
    <3> QED BY <2>2, <3>1 DEF UpdateUser, Wait, r
  <2> QED BY <2>1, <2>2
<1>3. CASE role = Unchanged
  BY <1>2, <1>3, WaitStep DEF UpdateUser
<1>4. CASE role # Unchanged
  <2> DEFINE row == [users[u] EXCEPT !.role = role]
  <2>1. users' = [users EXCEPT ![u] = row]
    BY <1>4 DEF UpdateUser
  <2>2. role \in Roles
    BY <1>4, RolesAre DEF TeamInv, TeamAssumption
  <2>3. /\ row \in UserRows /\ row.operator = users[u].operator /\ row.email = users[u].email
        /\ row.password = users[u].password /\ row.live = users[u].live
        /\ row.version = users[u].version
    BY <1>1, <2>2 DEF UserRows
  <2> HIDE DEF row
  <2>4. /\ users' \in Seq(UserRows) /\ Len(users') = Len(users) /\ users'[u] = row
        /\ \A v \in 1 .. Len(users) : v # u => users'[v] = users[v]
    BY <1>1, <2>1, <2>3
  <2>5. \A v \in 1 .. Len(users) : users[v].version \in Nat
    BY <1>1, RowIs
  <2>6. operators' = operators /\ tokens' = tokens
    BY DEF UpdateUser
  <2>7. ASSUME NEW v \in 1 .. Len(users)
        PROVE  /\ users'[v].operator = users[v].operator /\ users'[v].email = users[v].email
               /\ users'[v].live = users[v].live
               /\ users[v].version <= users'[v].version
               /\ users'[v].password = users[v].password
    BY <2>3, <2>4, <2>5
  <2> QED BY <1>1, <1>2, <2>4, <2>6, <2>7, UserRewritten
<1> QED BY <1>3, <1>4

\* Users who are no longer live, with their operator or not.
LEMMA Gone ==
    ASSUME TeamInv, NEW U, operators' \in Seq(OperatorRows), Len(operators') = Len(operators),
           \A o \in 1 .. Len(operators) :
              /\ operators'[o].subdomain = operators[o].subdomain
              /\ operators'[o].founded <=> operators[o].founded,
           users' = [v \in DOMAIN users |-> IF v \in U THEN [users[v] EXCEPT !.live = FALSE]
                                            ELSE users[v]],
           waiting' = waiting, tokens' = tokens
    PROVE  TeamInv'
<1>1. users \in Seq(UserRows)
  BY DEF TeamInv
<1>2. ASSUME NEW v \in 1 .. Len(users)
      PROVE  /\ users'[v] \in UserRows
             /\ users'[v].operator = users[v].operator /\ users'[v].email = users[v].email
             /\ users'[v].live => users[v].live
             /\ users[v].version = users'[v].version /\ users[v].version \in Nat
             /\ users'[v].password = users[v].password
  <2>1. users[v] \in UserRows /\ v \in DOMAIN users
    BY <1>1
  <2>2. CASE v \in U
    <3>1. users'[v] = [users[v] EXCEPT !.live = FALSE]
      BY <2>1, <2>2
    <3>2. users'[v] \in UserRows /\ users'[v].live = FALSE
          /\ users'[v].operator = users[v].operator /\ users'[v].email = users[v].email
          /\ users[v].version = users'[v].version /\ users'[v].password = users[v].password
      BY <2>1, <3>1 DEF UserRows
    <3> QED BY <2>1, <3>2, RowIs
  <2>3. CASE v \notin U
    BY <2>1, <2>3, RowIs
  <2> QED BY <2>2, <2>3
<1>3. users' \in Seq(UserRows) /\ Len(users') = Len(users)
  <2>1. DOMAIN users' = 1 .. Len(users) /\ Len(users) \in Nat
    BY <1>1
  <2>2. users' = [v \in 1 .. Len(users) |-> users'[v]]
    BY <1>1
  <2> QED BY <1>2, <2>1, <2>2
<1>4. ASSUME NEW v \in 1 .. Len(users) PROVE users[v].version <= users'[v].version
  <2>1. users[v].version = users'[v].version /\ users[v].version \in Nat
    BY <1>2
  <2> QED BY <2>1
<1> QED BY <1>2, <1>3, <1>4, UserRewritten

LEMMA DeletionStep ==
    ASSUME TeamInv, NEW u \in LiveUsers, users' = [users EXCEPT ![u].live = FALSE],
           UNCHANGED <<operators, waiting, tokens>>
    PROVE  TeamInv'
<1>1. users \in Seq(UserRows) /\ operators \in Seq(OperatorRows) /\ u \in 1 .. Len(users)
  BY LiveIs DEF TeamInv
<1>2. users' = [v \in DOMAIN users |-> IF v \in {u} THEN [users[v] EXCEPT !.live = FALSE]
                                       ELSE users[v]]
  BY <1>1
<1> QED BY <1>1, <1>2, Gone

LEMMA DeleteOperatorStep ==
    ASSUME TeamInv, NEW c, NEW o \in DOMAIN operators, DeleteOperator(c, o)
    PROVE  TeamInv'
<1> DEFINE row == [operators[o] EXCEPT !.live = FALSE]
<1>1. operators \in Seq(OperatorRows) /\ o \in 1 .. Len(operators) /\ operators[o] \in OperatorRows
  BY DEF TeamInv
<1>2. row \in OperatorRows /\ row.subdomain = operators[o].subdomain
      /\ row.founded = operators[o].founded
  BY <1>1 DEF OperatorRows
<1>3. operators' = [operators EXCEPT ![o] = row]
  BY DEF DeleteOperator
<1> HIDE DEF row
<1>4. /\ operators' \in Seq(OperatorRows) /\ Len(operators') = Len(operators)
      /\ operators'[o] = row /\ \A p \in 1 .. Len(operators) : p # o => operators'[p] = operators[p]
  BY <1>1, <1>2, <1>3
<1>5. ASSUME NEW p \in 1 .. Len(operators)
      PROVE  /\ operators'[p].subdomain = operators[p].subdomain
             /\ operators'[p].founded <=> operators[p].founded
  BY <1>2, <1>4
<1> DEFINE U == {v \in DOMAIN users : users[v].operator = o}
<1>6. users' = [v \in DOMAIN users |-> IF v \in U THEN [users[v] EXCEPT !.live = FALSE]
                                       ELSE users[v]]
  BY DEF DeleteOperator
<1> HIDE DEF U
<1>7. waiting' = waiting /\ tokens' = tokens
  BY DEF DeleteOperator
<1> QED BY <1>4, <1>5, <1>6, <1>7, Gone

\* The second halves of the handlers.
LEMMA LoginDoneStep ==
    ASSUME TeamInv, NEW r \in waiting, r.kind = "login", waiting' = waiting \ {r}, LoginDone(r)
    PROVE  TeamInv'
<1>1. Knows(r.user, r.row)
  BY DEF TeamInv, Prepared
<1> DEFINE t == Token(r.user, r.row)
<1>2. Knows(t.user, t)
  BY <1>1 DEF Knows, Token
<1> HIDE DEF t
<1>3. tokens' = tokens \cup {t}
  BY DEF LoginDone, t
<1> QED BY <1>2, <1>3, WaitStep DEF LoginDone

LEMMA NoConflict ==
    ASSUME TeamInv, NEW email
    PROVE  EmailFree(Len(operators) + 1, email)
<1>1. \A u \in LiveUsers : users[u].operator \in 1 .. Len(operators) /\ Len(operators) \in Nat
  BY LiveIs DEF TeamInv
<1> QED BY <1>1 DEF EmailFree

LEMMA SetupDoneStep ==
    ASSUME TeamInv, NEW r \in waiting, r.kind = "setup", waiting' = waiting \ {r}, SetupDone(r)
    PROVE  TeamInv'
<1>1. /\ r.email \in Emails /\ r.password \in Passwords
      /\ users \in Seq(UserRows) /\ operators \in Seq(OperatorRows)
  BY DEF TeamInv, Prepared
<1>2. PICK m \in Nat : m = Len(operators)
  BY <1>1
<1>3. PICK role \in Roles : role = IF SetupMode = "multi" THEN "system_owner" ELSE "owner"
  BY RolesAre
<1>4. PICK user : user = UserOf(m + 1, r.email, r.password, role, TRUE)
  OBVIOUS
<1>5. user \in UserRows /\ user.operator = m + 1 /\ user.version = 1 /\ user.password = r.password
  <2>1. PICK system \in BOOLEAN : system = TRUE
    OBVIOUS
  <2>2. m + 1 \in Nat /\ user = UserOf(m + 1, r.email, r.password, role, system)
    BY <1>4, <2>1
  <2> QED BY <1>1, <2>2, NewUserIs
<1>6. PICK op : op = OperatorRow(<<"primary", 0>>, TRUE)
  OBVIOUS
<1>7. op \in OperatorRows /\ op.subdomain = <<"primary", 0>>
  <2>1. TRUE \in BOOLEAN
    OBVIOUS
  <2>2. <<"primary", 0>> \in (Slugs \cup {"primary"}) \X Nat
    OBVIOUS
  <2> QED BY <1>6, <2>1, <2>2, NewOperatorIs
<1>8. CASE SubdomainFree(<<"primary", 0>>)
  <2>1. /\ operators' = Append(operators, op) /\ users' = Append(users, user)
        /\ tokens' = tokens \cup {Token(Len(users) + 1, user)}
    BY <1>2, <1>3, <1>4, <1>6, <1>8 DEF SetupDone
  <2>2. \A t \in tokens' : t \in tokens \/ (/\ t.user = Len(users) + 1 /\ t.version = user.version
                                            /\ t.password = user.password)
    BY <2>1 DEF Token
  <2>3. user.operator \in 1 .. Len(operators')
    BY <1>1, <1>2, <1>5, <1>7, <2>1
  <2>4. EmailFree(user.operator, user.email)
    BY <1>2, <1>5, NoConflict
  <2>5. waiting' \subseteq waiting
    OBVIOUS
  <2> QED BY <1>5, <1>7, <1>8, <2>1, <2>2, <2>3, <2>4, <2>5, Added
<1>9. CASE ~SubdomainFree(<<"primary", 0>>)
  BY <1>9, WaitStep DEF SetupDone
<1> QED BY <1>8, <1>9

LEMMA ProvisionDoneStep ==
    ASSUME TeamInv, NEW r \in waiting, r.kind = "provision", waiting' = waiting \ {r},
           ProvisionDone(r)
    PROVE  TeamInv'
<1>1. /\ r.email \in Emails /\ r.password \in Passwords /\ r.slug \in Slugs
      /\ users \in Seq(UserRows) /\ operators \in Seq(OperatorRows)
  BY DEF TeamInv, Prepared
<1>2. PICK m \in Nat : m = Len(operators)
  BY <1>1
<1>3. PICK user : user = UserOf(m + 1, r.email, r.password, "owner", FALSE)
  OBVIOUS
<1>4. user \in UserRows /\ user.operator = m + 1
  <2>1. PICK system \in BOOLEAN : system = FALSE
    OBVIOUS
  <2>2. PICK role \in Roles : role = "owner"
    BY RolesAre
  <2>3. user = UserOf(m + 1, r.email, r.password, role, system)
    BY <1>3, <2>1, <2>2
  <2>4. m + 1 \in Nat
    OBVIOUS
  <2> QED BY <1>1, <2>3, <2>4, NewUserIs
<1>5. CASE UNCHANGED <<operators, users>>
  BY <1>5, WaitStep DEF ProvisionDone
<1>6. CASE ~UNCHANGED <<operators, users>>
  <2>1. PICK subdomain \in {<<r.slug, m + 1>>, <<r.slug, 0>>} :
           /\ operators' = Append(operators, OperatorRow(subdomain, FALSE))
           /\ users' = Append(users, user)
    BY <1>2, <1>3, <1>6 DEF ProvisionDone
  <2>2. PICK op : op = OperatorRow(subdomain, FALSE)
    OBVIOUS
  <2>3. op \in OperatorRows /\ op.founded = FALSE
    <3>1. subdomain \in (Slugs \cup {"primary"}) \X Nat
      BY <1>1, <2>1
    <3>2. FALSE \in BOOLEAN
      OBVIOUS
    <3> QED BY <2>2, <3>1, <3>2, NewOperatorIs
  <2>4. ~op.founded
    BY <2>3
  <2>5. operators' = Append(operators, op)
    BY <2>1, <2>2
  <2>6. user.operator \in 1 .. Len(operators')
    BY <1>1, <1>2, <1>4, <2>3, <2>5
  <2>7. EmailFree(user.operator, user.email)
    BY <1>2, <1>4, NoConflict
  <2>8. waiting' \subseteq waiting /\ tokens' = tokens
    BY DEF ProvisionDone
  <2> QED BY <1>4, <2>1, <2>3, <2>4, <2>5, <2>6, <2>7, <2>8, Added
<1> QED BY <1>5, <1>6

\* The unique index stands guard when other requests added the address.
LEMMA InsertStep ==
    ASSUME TeamInv, NEW user \in UserRows, user.operator \in 1 .. Len(operators),
           InsertUser(user), UNCHANGED <<operators, tokens>>, waiting' \subseteq waiting
    PROVE  TeamInv'
<1>1. CASE EmailFree(user.operator, user.email)
  BY <1>1, Added DEF InsertUser
<1>2. CASE ~EmailFree(user.operator, user.email)
  BY <1>2, WaitStep DEF InsertUser
<1> QED BY <1>1, <1>2

LEMMA CreateDoneStep ==
    ASSUME TeamInv, NEW r \in waiting, r.kind = "create", waiting' = waiting \ {r}, CreateDone(r)
    PROVE  TeamInv'
<1>1. r.user \in UserRows /\ r.user.operator \in 1 .. Len(operators)
  BY DEF TeamInv, Prepared
<1> QED BY <1>1, InsertStep DEF CreateDone

LEMMA AppointDoneStep ==
    ASSUME TeamInv, NEW r \in waiting, r.kind = "appoint", waiting' = waiting \ {r}, AppointDone(r)
    PROVE  TeamInv'
<1>1. /\ r.email \in Emails /\ r.password \in Passwords
      /\ Len(operators) > 0 /\ operators \in Seq(OperatorRows)
  BY DEF TeamInv, Prepared
<1>2. PICK user : user = UserOf(Primary, r.email, r.password, "system_manager", TRUE)
  OBVIOUS
<1>3. user \in UserRows /\ user.operator = Primary
  <2>1. PICK system \in BOOLEAN : system = TRUE
    OBVIOUS
  <2>2. PICK role \in Roles : role = "system_manager"
    BY RolesAre
  <2>3. Primary \in Nat /\ user = UserOf(Primary, r.email, r.password, role, system)
    BY <1>2, <2>1, <2>2 DEF Primary
  <2> QED BY <1>1, <2>3, NewUserIs
<1>4. user.operator \in 1 .. Len(operators)
  BY <1>1, <1>3 DEF Primary
<1> QED BY <1>2, <1>3, <1>4, InsertStep DEF AppointDone

\* A new password makes a new version, which nothing that waits or was handed
\* out can claim.
LEMMA PasswordDoneStep ==
    ASSUME TeamInv, NEW r \in waiting, r.kind = "password", waiting' = waiting \ {r}, PasswordDone(r)
    PROVE  TeamInv'
<1>1. /\ users \in Seq(UserRows) /\ operators \in Seq(OperatorRows)
      /\ r.user \in 1 .. Len(users) /\ r.password \in Passwords
  BY DEF TeamInv, Prepared
<1>2. PICK u \in 1 .. Len(users) : u = r.user
  BY <1>1
<1> DEFINE row == [[users[u] EXCEPT !.password = r.password] EXCEPT !.version = @ + 1]
<1>3. users[u] \in UserRows /\ users[u].version \in Nat
  BY <1>1, RowIs
<1>4. /\ row \in UserRows /\ row.operator = users[u].operator /\ row.email = users[u].email
      /\ row.live = users[u].live /\ row.version = users[u].version + 1
  <2> DEFINE half == [users[u] EXCEPT !.password = r.password]
  <2>1. /\ half \in UserRows /\ half.operator = users[u].operator
        /\ half.email = users[u].email /\ half.live = users[u].live
        /\ half.version = users[u].version
    BY <1>1, <1>3 DEF UserRows
  <2> HIDE DEF half
  <2>2. row = [half EXCEPT !.version = @ + 1]
    BY DEF half
  <2>3. /\ row \in UserRows /\ row.operator = half.operator /\ row.email = half.email
        /\ row.live = half.live /\ row.version = half.version + 1
    BY <1>3, <2>1, <2>2 DEF UserRows
  <2> QED BY <2>1, <2>3
<1>5. users' = [users EXCEPT ![u] = row]
  BY <1>1, <1>2 DEF PasswordDone
<1> HIDE DEF row
<1>6. /\ users' \in Seq(UserRows) /\ Len(users') = Len(users) /\ users'[u] = row
      /\ \A v \in 1 .. Len(users) : v # u => users'[v] = users[v]
  BY <1>1, <1>4, <1>5
<1>7. \A v \in 1 .. Len(users) : users[v].version \in Nat
  BY <1>1, RowIs
<1>8. ASSUME NEW v \in 1 .. Len(users)
      PROVE  /\ users'[v].operator = users[v].operator /\ users'[v].email = users[v].email
             /\ users'[v].live = users[v].live
             /\ users[v].version <= users'[v].version
             /\ users[v].version = users'[v].version => users'[v].password = users[v].password
  BY <1>3, <1>4, <1>6, <1>7
<1>9. operators' = operators /\ tokens' = tokens /\ \A q \in waiting' : q \in waiting
  BY DEF PasswordDone
<1> QED BY <1>1, <1>6, <1>8, <1>9, UserRewritten

LEMMA HashedStep == ASSUME TeamInv, NEW r \in waiting, Hashed(r) PROVE TeamInv'
<1>1. /\ waiting' = waiting \ {r}
      /\ r.kind \in {"login", "setup", "provision", "create", "password", "appoint"}
  BY DEF Hashed, TeamInv, Prepared
<1>2. CASE r.kind = "login"
  BY <1>1, <1>2, LoginDoneStep DEF Hashed
<1>3. CASE r.kind = "setup"
  BY <1>1, <1>3, SetupDoneStep DEF Hashed
<1>4. CASE r.kind = "provision"
  BY <1>1, <1>4, ProvisionDoneStep DEF Hashed
<1>5. CASE r.kind = "create"
  BY <1>1, <1>5, CreateDoneStep DEF Hashed
<1>6. CASE r.kind = "password"
  BY <1>1, <1>6, PasswordDoneStep DEF Hashed
<1>7. CASE r.kind = "appoint"
  BY <1>1, <1>7, AppointDoneStep DEF Hashed
<1> QED BY <1>1, <1>2, <1>3, <1>4, <1>5, <1>6, <1>7

LEMMA ByUserStep == ASSUME TeamInv, NEW c \in LiveUsers, ByUser(c) PROVE TeamInv'
<1>1. ASSUME NEW email \in Emails, NEW password \in Passwords, NEW role \in TeamRoles,
             CreateUser(c, email, password, role)
      PROVE  TeamInv'
  BY <1>1, CreateUserStep
<1>2. ASSUME NEW email \in Emails, NEW password \in Passwords, Appoint(c, email, password)
      PROVE  TeamInv'
  BY <1>2, AppointStep
<1>3. ASSUME NEW u \in DOMAIN users, NEW role \in TeamRoles \cup {Unchanged},
             NEW password \in Passwords \cup {Unchanged}, UpdateUser(c, u, role, password)
      PROVE  TeamInv'
  BY <1>3, UpdateStep
<1>4. ASSUME NEW u \in DOMAIN users, DeleteUser(c, u) \/ DeleteManager(c, u)
      PROVE  TeamInv'
  BY <1>4, DeletionStep DEF DeleteUser, DeleteManager
<1>5. ASSUME NEW o \in DOMAIN operators, DeleteOperator(c, o) PROVE TeamInv'
  BY <1>5, DeleteOperatorStep
<1> QED BY <1>1, <1>2, <1>3, <1>4, <1>5 DEF ByUser

LEMMA TeamStep == TeamInv /\ [TeamNext]_teamVars => TeamInv'
<1> SUFFICES ASSUME TeamInv, [TeamNext]_teamVars PROVE TeamInv'
  OBVIOUS
<1>1. CASE Unauthenticated
  BY <1>1, UnauthenticatedStep
<1>2. ASSUME NEW c \in LiveUsers, ByUser(c) PROVE TeamInv'
  BY <1>2, ByUserStep
<1>3. ASSUME NEW r \in waiting, Hashed(r) PROVE TeamInv'
  BY <1>3, HashedStep
<1>4. ASSUME NEW t \in tokens, Expire(t) PROVE TeamInv'
  BY <1>4, WaitStep DEF Expire
<1>5. CASE UNCHANGED teamVars
  BY <1>5, WaitStep DEF teamVars
<1> QED BY <1>1, <1>2, <1>3, <1>4, <1>5 DEF TeamNext

LEMMA TeamInvariant == TeamAssumption /\ TeamSpec => []TeamInv
BY TeamInitial, TeamStep, PTL DEF TeamSpec

(***************************************************************************)
(* The theorems.                                                           *)
(***************************************************************************)
\* Users belong to an operator and are told apart by their address there,
\* although the address was looked up before the wait for the hash.
THEOREM TeamTyped == TeamAssumption /\ TeamSpec => []TeamTypeOK
<1>1. TeamInv => TeamTypeOK
  <2> SUFFICES ASSUME TeamInv PROVE TeamTypeOK
    OBVIOUS
  <2>1. /\ users \in Seq(UserRows) /\ operators \in Seq(OperatorRows)
        /\ \A t \in tokens : Knows(t.user, t)
    BY DEF TeamInv
  <2>2. \A u \in DOMAIN users : users[u].operator \in DOMAIN operators /\ users[u].role \in DOMAIN Rank
    BY <2>1, RowIs DEF TeamInv, UsersHaveOperators, Roles
  <2>3. \A u, v \in LiveUsers :
           users[u].operator = users[v].operator /\ users[u].email = users[v].email => u = v
    BY <2>1 DEF TeamInv, ToldApart, LiveUsers
  <2>4. \A t \in tokens : t.user \in DOMAIN users /\ t.version <= users[t.user].version
    BY <2>1 DEF Knows
  <2> QED BY <2>2, <2>3, <2>4 DEF TeamTypeOK
<1> QED BY <1>1, TeamInvariant, PTL

\* No token is accepted that was given for an earlier password, even if the
\* password was changed between the two halves of a login.
THEOREM Sessions == TeamAssumption /\ TeamSpec => []SessionsKnowPassword
<1>1. TeamInv => SessionsKnowPassword
  BY DEF TeamInv, Knows, Accepted, SessionsKnowPassword
<1> QED BY <1>1, TeamInvariant, PTL

\* One setup founds the platform, although users are counted before the wait
\* and not again.
THEOREM FoundedOnce == TeamAssumption /\ TeamSpec => []OneFounding
<1>1. TeamInv => OneFounding
  BY DEF TeamInv, FoundedFirst, OneFounding
<1> QED BY <1>1, TeamInvariant, PTL

(***************************************************************************)
(* The rate limiter.                                                       *)
(***************************************************************************)
Buckets(k) == [attempts : 1 .. MaxAttempts(k), left : 0 .. WindowMs(k)]

RLInv ==
    /\ RateAssumption
    /\ DOMAIN rateLimitMap \subseteq RequestKeys
    /\ \A k \in DOMAIN rateLimitMap : rateLimitMap[k] \in Buckets(k)
    /\ recentRateLimitEvents \in Seq(RequestKeys) /\ Len(recentRateLimitEvents) <= MaxHistory

\* What the buckets say of the windows.
PassedOf(k) == IF Open(k) THEN rateLimitMap[k].attempts ELSE 0
LeftOf(k) == IF Open(k) THEN rateLimitMap[k].left ELSE 0

(***************************************************************************)
(* Facts about the operators.                                              *)
(***************************************************************************)
LEMMA Positive ==
    ASSUME RateAssumption, NEW k
    PROVE  MaxAttempts(k) \in Nat \ {0} /\ WindowMs(k) \in Nat \ {0}
BY DEF RateAssumption, MaxAttempts, WindowMs

LEMMA KeyIs == ASSUME NEW r \in Requests PROVE KeyOf(r) \in RequestKeys
BY DEF RequestKeys

LEMMA BucketIs ==
    ASSUME RateAssumption, NEW k, NEW b \in Buckets(k)
    PROVE  /\ b.attempts \in Nat \ {0} /\ b.attempts <= MaxAttempts(k)
           /\ b.left \in Nat /\ b.left <= WindowMs(k)
BY Positive DEF Buckets

LEMMA BucketOf ==
    ASSUME RLInv, NEW k \in RequestKeys
    PROVE  /\ PassedOf(k) \in Nat /\ PassedOf(k) <= MaxAttempts(k)
           /\ LeftOf(k) \in Nat /\ LeftOf(k) <= WindowMs(k)
           /\ LeftOf(k) = 0 <=> ~Open(k)
           /\ Blocked(k) <=> Open(k) /\ PassedOf(k) >= MaxAttempts(k)
           /\ Open(k) => PassedOf(k) = rateLimitMap[k].attempts /\ LeftOf(k) = rateLimitMap[k].left
           /\ ~Open(k) => PassedOf(k) = 0
<1>1. MaxAttempts(k) \in Nat \ {0} /\ WindowMs(k) \in Nat \ {0}
  BY Positive DEF RLInv
<1>2. CASE Open(k)
  <2>1. rateLimitMap[k] \in Buckets(k)
    BY <1>2 DEF RLInv, Open
  <2>2. /\ rateLimitMap[k].attempts \in Nat \ {0} /\ rateLimitMap[k].attempts <= MaxAttempts(k)
        /\ rateLimitMap[k].left \in Nat /\ rateLimitMap[k].left <= WindowMs(k)
    BY <2>1, BucketIs DEF RLInv
  <2>3. rateLimitMap[k].left # 0
    BY <1>2, <2>2 DEF Open
  <2> QED BY <1>1, <1>2, <2>2, <2>3 DEF PassedOf, LeftOf, Blocked
<1>3. CASE ~Open(k)
  BY <1>1, <1>3 DEF PassedOf, LeftOf, Blocked
<1> QED BY <1>2, <1>3

\* Steps of FixedWindows, said of one key at a time.
LEMMA PassIs ==
    ASSUME NEW k \in RequestKeys,
           \A j \in RequestKeys : j # k => PassedOf(j)' = PassedOf(j) /\ LeftOf(j)' = LeftOf(j),
           IF LeftOf(k) = 0 THEN PassedOf(k)' = 1 /\ LeftOf(k)' = WindowMs(k)
           ELSE /\ PassedOf(k) < MaxAttempts(k)
                /\ PassedOf(k)' = PassedOf(k) + 1 /\ LeftOf(k)' = LeftOf(k)
    PROVE  Windows!Pass(k)
BY DEF Windows!Pass, PassedOf, LeftOf

LEMMA TickIs ==
    ASSUME \A k \in RequestKeys :
              /\ LeftOf(k)' = IF LeftOf(k) = 0 THEN 0 ELSE LeftOf(k) - 1
              /\ PassedOf(k)' = IF LeftOf(k)' = 0 THEN 0 ELSE PassedOf(k)
    PROVE  Windows!Tick
BY DEF Windows!Tick, PassedOf, LeftOf

LEMMA SameIs ==
    ASSUME \A k \in RequestKeys : PassedOf(k)' = PassedOf(k) /\ LeftOf(k)' = LeftOf(k)
    PROVE  UNCHANGED Windows!fwVars
BY DEF Windows!fwVars, PassedOf, LeftOf

(***************************************************************************)
(* Init and the steps.                                                     *)
(***************************************************************************)
LEMMA RLInitial == RateAssumption /\ RLInit => RLInv /\ Windows!FWInit
<1> SUFFICES ASSUME RateAssumption, RLInit PROVE RLInv /\ Windows!FWInit
  OBVIOUS
<1>1. DOMAIN rateLimitMap = {}
  BY DEF RLInit
<1>2. recentRateLimitEvents \in Seq(RequestKeys) /\ Len(recentRateLimitEvents) = 0
  BY DEF RLInit
<1>3. RLInv
  BY <1>1, <1>2 DEF RLInv, RateAssumption
<1>4. \A k \in RequestKeys : ~Open(k)
  BY <1>1 DEF Open
<1> QED BY <1>3, <1>4 DEF Windows!FWInit

LEMMA AdmitStep ==
    ASSUME RLInv, NEW r \in Requests, Admit(r)
    PROVE  RLInv' /\ Windows!Pass(KeyOf(r))
<1> DEFINE k == KeyOf(r)
<1>1. k \in RequestKeys /\ ~Blocked(k)
  BY KeyIs DEF Admit
<1> HIDE DEF k
<1>2. /\ MaxAttempts(k) \in Nat \ {0} /\ WindowMs(k) \in Nat \ {0}
      /\ DOMAIN rateLimitMap \subseteq RequestKeys
      /\ \A j \in DOMAIN rateLimitMap : rateLimitMap[j] \in Buckets(j)
  BY Positive DEF RLInv
<1>3. /\ DOMAIN rateLimitMap' = DOMAIN rateLimitMap \cup {k}
      /\ \A j \in DOMAIN rateLimitMap : j # k => rateLimitMap'[j] = rateLimitMap[j]
      /\ Open(k) => rateLimitMap'[k] = [rateLimitMap[k] EXCEPT !.attempts = @ + 1]
      /\ ~Open(k) => rateLimitMap'[k] = [attempts |-> 1, left |-> WindowMs(k)]
      /\ recentRateLimitEvents' = recentRateLimitEvents
  BY DEF Admit, k
<1>4. ASSUME Open(k)
      PROVE  /\ rateLimitMap'[k] \in Buckets(k)
             /\ rateLimitMap'[k].left = LeftOf(k) /\ LeftOf(k) > 0
             /\ rateLimitMap'[k].attempts = PassedOf(k) + 1 /\ PassedOf(k) < MaxAttempts(k)
  <2>1. /\ rateLimitMap[k] \in Buckets(k) /\ rateLimitMap[k].left \in Nat
        /\ rateLimitMap[k].left > 0 /\ rateLimitMap[k].attempts \in Nat
        /\ rateLimitMap[k].attempts < MaxAttempts(k)
    BY <1>1, <1>2, <1>4, BucketIs DEF Open, Blocked, RLInv
  <2>2. /\ rateLimitMap'[k] \in Buckets(k) /\ rateLimitMap'[k].left = rateLimitMap[k].left
        /\ rateLimitMap'[k].attempts = rateLimitMap[k].attempts + 1
    BY <1>2, <1>3, <1>4, <2>1 DEF Buckets
  <2> QED BY <1>4, <2>1, <2>2 DEF PassedOf, LeftOf
<1>5. ASSUME ~Open(k)
      PROVE  /\ rateLimitMap'[k] \in Buckets(k)
             /\ rateLimitMap'[k].left = WindowMs(k) /\ LeftOf(k) = 0
             /\ rateLimitMap'[k].attempts = 1
  <2>1. /\ rateLimitMap'[k] \in Buckets(k) /\ rateLimitMap'[k].left = WindowMs(k)
        /\ rateLimitMap'[k].attempts = 1
    BY <1>2, <1>3, <1>5 DEF Buckets
  <2> QED BY <1>5, <2>1 DEF LeftOf
<1>6. RLInv'
  <2>1. \A j \in DOMAIN rateLimitMap' : rateLimitMap'[j] \in Buckets(j)
    BY <1>2, <1>3, <1>4, <1>5
  <2>2. DOMAIN rateLimitMap' \subseteq RequestKeys
    BY <1>1, <1>2, <1>3
  <2> QED BY <1>3, <2>1, <2>2 DEF RLInv
<1>7. /\ Open(k)' /\ PassedOf(k)' = rateLimitMap'[k].attempts
      /\ LeftOf(k)' = rateLimitMap'[k].left
  <2>1. k \in DOMAIN rateLimitMap' /\ rateLimitMap'[k].left > 0
    BY <1>2, <1>3, <1>4, <1>5
  <2> QED BY <2>1 DEF Open, PassedOf, LeftOf
<1>8. ASSUME NEW j \in RequestKeys, j # k
      PROVE  PassedOf(j)' = PassedOf(j) /\ LeftOf(j)' = LeftOf(j)
  BY <1>3, <1>8 DEF Open, PassedOf, LeftOf
<1>9. IF LeftOf(k) = 0 THEN PassedOf(k)' = 1 /\ LeftOf(k)' = WindowMs(k)
      ELSE /\ PassedOf(k) < MaxAttempts(k)
           /\ PassedOf(k)' = PassedOf(k) + 1 /\ LeftOf(k)' = LeftOf(k)
  <2>1. LeftOf(k) \in Nat /\ (LeftOf(k) = 0 <=> ~Open(k))
    BY <1>1, BucketOf
  <2> QED BY <1>4, <1>5, <1>7, <2>1
<1>10. Windows!Pass(k)
  BY <1>1, <1>8, <1>9, PassIs
<1> QED BY <1>6, <1>10 DEF k

LEMMA RefuseStep ==
    ASSUME RLInv, NEW r \in Requests, Refuse(r)
    PROVE  RLInv' /\ UNCHANGED rateLimitMap
<1> DEFINE log == <<KeyOf(r)>> \o recentRateLimitEvents
<1>1. /\ recentRateLimitEvents \in Seq(RequestKeys) /\ KeyOf(r) \in RequestKeys
      /\ Len(recentRateLimitEvents) <= MaxHistory /\ MaxHistory \in Nat
  BY KeyIs DEF RLInv, RateAssumption
<1>2. log \in Seq(RequestKeys) /\ Len(log) = Len(recentRateLimitEvents) + 1
  BY <1>1
<1>3. /\ rateLimitMap' = rateLimitMap
      /\ recentRateLimitEvents' = IF Len(log) > MaxHistory THEN SubSeq(log, 1, Len(log) - 1) ELSE log
  BY DEF Refuse, Logged
<1> HIDE DEF log
<1>4. recentRateLimitEvents' \in Seq(RequestKeys) /\ Len(recentRateLimitEvents') <= MaxHistory
  <2>1. CASE Len(log) > MaxHistory
    <3>1. /\ SubSeq(log, 1, Len(log) - 1) \in Seq(RequestKeys)
          /\ Len(SubSeq(log, 1, Len(log) - 1)) = Len(log) - 1
      BY <1>1, <1>2
    <3> QED BY <1>1, <1>2, <1>3, <2>1, <3>1
  <2>2. CASE ~(Len(log) > MaxHistory)
    BY <1>1, <1>2, <1>3, <2>2
  <2> QED BY <2>1, <2>2
<1> QED BY <1>3, <1>4 DEF RLInv

LEMMA EvictStep ==
    ASSUME RLInv, EvictExpiredRateLimits
    PROVE  RLInv' /\ UNCHANGED Windows!fwVars
<1>1. /\ DOMAIN rateLimitMap' = {k \in DOMAIN rateLimitMap : Open(k)}
      /\ \A k \in DOMAIN rateLimitMap' : rateLimitMap'[k] = rateLimitMap[k]
      /\ recentRateLimitEvents' = recentRateLimitEvents
  BY DEF EvictExpiredRateLimits, Restrict
<1>2. RLInv'
  BY <1>1 DEF RLInv
<1>3. ASSUME NEW k \in RequestKeys
      PROVE  PassedOf(k)' = PassedOf(k) /\ LeftOf(k)' = LeftOf(k)
  BY <1>1 DEF PassedOf, LeftOf, Open
<1> QED BY <1>2, <1>3, SameIs

LEMMA TimeStep == ASSUME RLInv, TimePasses PROVE RLInv' /\ Windows!Tick
<1>1. /\ DOMAIN rateLimitMap \subseteq RequestKeys
      /\ \A k \in DOMAIN rateLimitMap : rateLimitMap[k] \in Buckets(k)
  BY DEF RLInv
<1>2. /\ DOMAIN rateLimitMap' = DOMAIN rateLimitMap
      /\ \A k \in DOMAIN rateLimitMap :
            rateLimitMap'[k] = [rateLimitMap[k] EXCEPT !.left = IF @ = 0 THEN 0 ELSE @ - 1]
      /\ recentRateLimitEvents' = recentRateLimitEvents
  BY DEF TimePasses
<1>3. ASSUME NEW k \in DOMAIN rateLimitMap
      PROVE  /\ rateLimitMap'[k] \in Buckets(k) /\ rateLimitMap[k].left \in Nat
             /\ rateLimitMap'[k].attempts = rateLimitMap[k].attempts
             /\ rateLimitMap'[k].left = IF rateLimitMap[k].left = 0 THEN 0
                                        ELSE rateLimitMap[k].left - 1
  <2>1. MaxAttempts(k) \in Nat \ {0} /\ WindowMs(k) \in Nat \ {0}
    BY Positive DEF RLInv
  <2> QED BY <1>1, <1>2, <2>1 DEF Buckets
<1>4. RLInv'
  BY <1>2, <1>3 DEF RLInv
<1>5. ASSUME NEW k \in RequestKeys
      PROVE  /\ LeftOf(k)' = IF LeftOf(k) = 0 THEN 0 ELSE LeftOf(k) - 1
             /\ PassedOf(k)' = IF LeftOf(k)' = 0 THEN 0 ELSE PassedOf(k)
  <2>1. CASE k \in DOMAIN rateLimitMap
    BY <1>2, <1>3, <2>1 DEF PassedOf, LeftOf, Open
  <2>2. CASE k \notin DOMAIN rateLimitMap
    BY <1>2, <2>2 DEF PassedOf, LeftOf, Open
  <2> QED BY <2>1, <2>2
<1> QED BY <1>4, <1>5, TickIs

\* Every step keeps the invariant and is a step, or none, of FixedWindows.
LEMMA RLStep == RLInv /\ [RLNext]_rlVars => RLInv' /\ [Windows!FWNext]_(Windows!fwVars)
<1> SUFFICES ASSUME RLInv, [RLNext]_rlVars
             PROVE  RLInv' /\ [Windows!FWNext]_(Windows!fwVars)
  OBVIOUS
<1>1. ASSUME NEW r \in Requests, Admit(r) PROVE RLInv' /\ Windows!FWNext
  BY <1>1, AdmitStep, KeyIs DEF Windows!FWNext
<1>2. ASSUME UNCHANGED rateLimitMap PROVE UNCHANGED Windows!fwVars
  BY <1>2, SameIs DEF PassedOf, LeftOf, Open
<1>3. ASSUME NEW r \in Requests, Refuse(r) PROVE RLInv' /\ UNCHANGED Windows!fwVars
  BY <1>2, <1>3, RefuseStep
<1>4. CASE EvictExpiredRateLimits
  BY <1>4, EvictStep
<1>5. CASE TimePasses
  BY <1>5, TimeStep DEF Windows!FWNext
<1>6. CASE UNCHANGED rlVars
  <2>1. rateLimitMap' = rateLimitMap /\ recentRateLimitEvents' = recentRateLimitEvents
    BY <1>6 DEF rlVars
  <2>2. RLInv'
    BY <2>1 DEF RLInv
  <2> QED BY <1>2, <2>1, <2>2
<1> QED BY <1>1, <1>3, <1>4, <1>5, <1>6 DEF RLNext

LEMMA RLInvariant == RateAssumption /\ RLSpec => []RLInv
BY RLInitial, RLStep, PTL DEF RLSpec

(***************************************************************************)
(* The theorems.                                                           *)
(***************************************************************************)
\* No bucket counts above the limit of its key or outlasts its window, and the
\* log of refusals is no longer than it may be.
THEOREM CountsStayWithin == RateAssumption /\ RLSpec => []RLTypeOK
<1>1. RLInv => RLTypeOK
  <2> SUFFICES ASSUME RLInv PROVE RLTypeOK
    OBVIOUS
  <2>1. \A k \in DOMAIN rateLimitMap :
           rateLimitMap[k].attempts \in 1 .. MaxAttempts(k) /\ rateLimitMap[k].left \in 0 .. WindowMs(k)
    BY DEF RLInv, Buckets
  <2> QED BY <2>1 DEF RLInv, RLTypeOK
<1> QED BY <1>1, RLInvariant, PTL

\* The limiter implements FixedWindows: no key gets more requests through than
\* its limit while its window lasts, none loses any of them to another key, and
\* when the timer takes old buckets away makes no difference to anyone.
THEOREM Windowed == RateAssumption /\ RLSpec => LimitsWindows
BY RLInitial, RLStep, RLInvariant, PTL DEF RLSpec, LimitsWindows, Windows!FWSpec

(***************************************************************************)
(* Attached files.                                                         *)
(***************************************************************************)
Rows == [size : Nat, live : BOOLEAN]

\* An upload has one size for ever, in files, records and archives: S tells it.
RowsAre(S, d) ==
    /\ d = [rows |-> d.rows, quota |-> d.quota]
    /\ d.rows \in [DOMAIN d.rows -> Rows] /\ DOMAIN d.rows \subseteq 1 .. uploads
    /\ \A i \in DOMAIN d.rows : d.rows[i].size = S[i]
FilesAre(S, f) == DOMAIN f \subseteq 1 .. uploads /\ \A i \in DOMAIN f : f[i] = S[i]

Sized(S) ==
    /\ uploads \in Nat /\ S \in [Nat -> Nat]
    /\ RowsAre(S, database) /\ RowsAre(S, main) /\ FilesAre(S, disk)
    /\ \A b \in backups : RowsAre(S, b.database) /\ FilesAre(S, b.files)

\* Only the file of an attachment that is being deleted may be gone, and one
\* that is being written.
HaveFiles ==
    \A i \in LiveRows(database) :
       \/ i \in DOMAIN disk \/ i \in excused
       \/ task.kind = "delete" /\ task.id = i
       \/ task.kind = "restore" /\ i \in task.writing

\* Where uploads, deletions and restores are; the two restores take their
\* steps in another order.
Changing(S) ==
    /\ task.kind \in {"idle", "upload", "delete", "restore"}
    /\ task.kind = "idle" => task = Idle
    /\ task.kind = "upload" =>
          /\ ~torn /\ task.id \in 1 .. uploads /\ task.id \in DOMAIN disk /\ task.size = S[task.id]
    /\ task.kind = "delete" => ~torn /\ task.id \in DOMAIN database.rows

RestoreRecord(t) ==
    [kind |-> "restore", by |-> t.by, backup |-> t.backup, step |-> t.step,
     left |-> t.left, writing |-> t.writing]

AsideRecord(a) == [found |-> a.found, copy |-> a.copy, unclean |-> a.unclean]

\* The files of the archive are there but for those that are still to come, and
\* what was put aside is what StillWhole asks for when the database is overwritten.
Steps ==
    task.kind = "restore" =>
       /\ task = RestoreRecord(task)
       /\ task.backup \in backups /\ task.by \in {"script", "request"}
       /\ task.step \in {"copy", "install", "installing", "files", "done"}
       /\ DOMAIN task.backup.files \subseteq DOMAIN disk \cup task.left
       /\ task.left \subseteq DOMAIN task.backup.files /\ task.writing \subseteq task.left
       /\ task.by = "request" => task.step # "copy"
       /\ task.by = "request" /\ task.step # "done" =>
             database.rows = <<>> /\ aside.found.rows = <<>>
       /\ task.by = "request" /\ task.step # "files" => task.left = {}
       /\ task.by = "script" /\ task.step = "files" => database = task.backup.database
       /\ task.step = "done" => task.left = {} /\ database = task.backup.database
       /\ task.step = "copy" /\ ~torn =>
             aside = AsideRecord(aside) /\ (aside.unclean \/ database = aside.found)
       /\ task.step \in {"install", "installing"} => StillWhole

AtInv ==
    /\ AttachmentsAssumption
    /\ \E S : Sized(S) /\ Changing(S)
    /\ HaveFiles /\ Steps /\ NothingLost

(***************************************************************************)
(* Facts about the operators.                                              *)
(***************************************************************************)
LEMMA WithIs ==
    ASSUME NEW f, NEW i, NEW v, NEW g, g = With(f, i, v)
    PROVE  /\ DOMAIN g = DOMAIN f \cup {i} /\ g[i] = v
           /\ \A j \in DOMAIN f : j # i => g[j] = f[j]
BY DEF With

LEMMA RestrictIs ==
    ASSUME NEW f, NEW D
    PROVE  DOMAIN Restrict(f, D) = D /\ \A j \in D : Restrict(f, D)[j] = f[j]
BY DEF Restrict

\* What holds of a database or of files goes on to hold when there are more
\* uploads and no other sizes.
LEMMA MoreUploads ==
    ASSUME NEW S, NEW T, uploads \in Nat, uploads' \in Nat, uploads <= uploads',
           \A i \in 1 .. uploads : T[i] = S[i]
    PROVE  /\ \A d : RowsAre(S, d) => RowsAre(T, d)'
           /\ \A f : FilesAre(S, f) => FilesAre(T, f)'
<1>1. ASSUME NEW d, RowsAre(S, d) PROVE RowsAre(T, d)'
  BY <1>1 DEF RowsAre
<1>2. ASSUME NEW f, FilesAre(S, f) PROVE FilesAre(T, f)'
  BY <1>2 DEF FilesAre
<1> QED BY <1>1, <1>2

\* A record is added, or marked.
LEMMA RowSet ==
    ASSUME NEW S, RowsAre(S, database), uploads' = uploads, NEW i \in 1 .. uploads, NEW row \in Rows,
           row.size = S[i], database' = [database EXCEPT !.rows = With(@, i, row)]
    PROVE  /\ RowsAre(S, database)' /\ DOMAIN database'.rows = DOMAIN database.rows \cup {i}
           /\ database'.rows[i] = row
           /\ \A j \in DOMAIN database.rows : j # i => database'.rows[j] = database.rows[j]
<1> DEFINE table == With(database.rows, i, row)
<1>1. /\ DOMAIN table = DOMAIN database.rows \cup {i} /\ table[i] = row
      /\ \A j \in DOMAIN database.rows : j # i => table[j] = database.rows[j]
      /\ table = [j \in DOMAIN table |-> table[j]]
  BY WithIs DEF With
<1>2. database' = [database EXCEPT !.rows = table]
  OBVIOUS
<1> HIDE DEF table
<1>3. database' = [rows |-> table, quota |-> database.quota]
  BY <1>2 DEF RowsAre
<1>4. database'.rows = table
         /\ database' = [rows |-> database'.rows, quota |-> database'.quota]
  <2>1. database'.rows = table /\ database'.quota = database.quota
    BY <1>3
  <2> QED BY <1>3, <2>1
<1>5. \A j \in DOMAIN table : table[j] \in Rows
  BY <1>1 DEF RowsAre
<1>6. table \in [DOMAIN table -> Rows]
  BY <1>1, <1>5
<1> QED BY <1>1, <1>4, <1>6 DEF RowsAre

(***************************************************************************)
(* Init and the steps.                                                     *)
(***************************************************************************)
LEMMA AtInitial == AttachmentsAssumption /\ AtInit => AtInv
<1> SUFFICES ASSUME AttachmentsAssumption, AtInit PROVE AtInv
  OBVIOUS
<1>1. PICK q \in Quotas : database = [rows |-> <<>>, quota |-> q]
  BY DEF AtInit
<1>2. /\ main = database /\ torn = FALSE /\ disk = <<>> /\ uploads = 0 /\ backups = {}
      /\ task = Idle
  BY DEF AtInit
<1>3. database.rows = <<>> /\ database.quota = q /\ DOMAIN database.rows = {}
  BY <1>1
<1>4. PICK S : S = [i \in Nat |-> 0]
  OBVIOUS
<1>5. RowsAre(S, database)
  <2>1. database = [rows |-> database.rows, quota |-> database.quota]
    BY <1>1, <1>3
  <2>2. database.rows = [i \in {} |-> 0]
    BY <1>3
  <2>3. database.rows \in [DOMAIN database.rows -> Rows]
    BY <1>3, <2>2
  <2> QED BY <1>3, <2>1, <2>3 DEF RowsAre
<1>6. Sized(S)
  BY <1>2, <1>4, <1>5 DEF Sized, FilesAre
<1>7. task.kind = "idle"
  BY <1>2 DEF Idle
<1>8. Changing(S)
  BY <1>2, <1>7 DEF Changing
<1>9. HaveFiles
  BY <1>3 DEF HaveFiles, LiveRows
<1>10. Steps /\ NothingLost
  BY <1>2, <1>7 DEF Steps, NothingLost
<1> QED BY <1>6, <1>8, <1>9, <1>10 DEF AtInv

\* Without a task, and when a task ends.
LEMMA IdleIs == Idle.kind = "idle"
BY DEF Idle

LEMMA UploadStep ==
    ASSUME AtInv, NEW size \in Sizes, NEW sanitized \in Sizes, UploadAttachment(size, sanitized)
    PROVE  AtInv'
<1>1. PICK S : Sized(S) /\ Changing(S)
  BY DEF AtInv
<1>0. PICK n : n = uploads + 1
  OBVIOUS
<1> DEFINE t == [kind |-> "upload", id |-> n, size |-> sanitized]
<1>2. PICK T : T = [S EXCEPT ![n] = sanitized]
  OBVIOUS
<1>3. /\ uploads \in Nat /\ n = uploads + 1 /\ S \in [Nat -> Nat] /\ sanitized \in Nat
      /\ ~torn /\ task = Idle /\ uploads' = n /\ disk' = With(disk, n, sanitized) /\ task' = t
      /\ database' = database /\ torn' = torn /\ main' = main /\ aside' = aside /\ backups' = backups
      /\ excused' = excused
  BY <1>0, <1>1 DEF AtInv, Sized, AttachmentsAssumption, UploadAttachment, Free, fileVars
<1>4. T \in [Nat -> Nat] /\ T[n] = sanitized /\ \A i \in 1 .. uploads : T[i] = S[i]
  BY <1>2, <1>3
<1>5. /\ \A d : RowsAre(S, d) => RowsAre(T, d)'
      /\ \A f : FilesAre(S, f) => FilesAre(T, f)'
  <2>1. uploads' \in Nat /\ uploads <= uploads'
    BY <1>3
  <2> QED BY <1>3, <1>4, <2>1, MoreUploads
<1>6. DOMAIN disk \subseteq 1 .. uploads /\ \A i \in DOMAIN disk : disk[i] = S[i]
  BY <1>1 DEF Sized, FilesAre
<1>7. /\ DOMAIN disk' = DOMAIN disk \cup {n} /\ disk'[n] = sanitized
      /\ \A i \in DOMAIN disk : i # n => disk'[i] = disk[i]
  <2>1. disk' = With(disk, n, sanitized)
    BY <1>3
  <2> QED BY <2>1 DEF With
<1>8. FilesAre(T, disk)'
  BY <1>3, <1>4, <1>6, <1>7 DEF FilesAre
<1>9. Sized(T)'
  BY <1>1, <1>3, <1>4, <1>5, <1>8 DEF Sized
<1>10. task'.kind = "upload" /\ task'.id = n /\ task'.size = sanitized
  BY <1>3
<1>11. Changing(T)'
  BY <1>3, <1>4, <1>7, <1>10 DEF Changing
<1>12. HaveFiles'
  BY <1>3, <1>7, <1>10, IdleIs DEF AtInv, HaveFiles, LiveRows
<1>13. Steps' /\ NothingLost'
  BY <1>3, <1>10 DEF AtInv, Steps, NothingLost
<1> QED BY <1>9, <1>11, <1>12, <1>13 DEF AtInv

\* The rest of an upload or a deletion.
LEMMA UploadCreates == ASSUME AtInv, Create PROVE AtInv'
<1>1. PICK S : Sized(S) /\ Changing(S)
  BY DEF AtInv
<1>2. /\ task.kind = "upload" /\ task.id \in 1 .. uploads /\ task.id \in DOMAIN disk
      /\ task.size = S[task.id] /\ ~torn /\ S \in [Nat -> Nat] /\ uploads \in Nat
  BY <1>1 DEF Create, Changing, Sized
<1>3. PICK row : row = [size |-> task.size, live |-> TRUE]
  OBVIOUS
<1>4. row \in Rows /\ row.size = S[task.id]
  BY <1>2, <1>3 DEF Rows
<1>5. /\ database' = [database EXCEPT !.rows = With(@, task.id, row)] /\ task' = Idle
      /\ torn' = torn /\ main' = main /\ aside' = aside /\ disk' = disk /\ uploads' = uploads
      /\ backups' = backups /\ excused' = excused
  BY <1>3 DEF Create, fileVars
<1>6. /\ RowsAre(S, database)'
      /\ DOMAIN database'.rows = DOMAIN database.rows \cup {task.id}
      /\ \A j \in DOMAIN database.rows : j # task.id => database'.rows[j] = database.rows[j]
  <2>1. RowsAre(S, database)
    BY <1>1 DEF Sized
  <2>2. PICK i \in 1 .. uploads : i = task.id
    BY <1>2
  <2>3. row.size = S[i] /\ database' = [database EXCEPT !.rows = With(@, i, row)]
    BY <1>4, <1>5, <2>2
  <2>4. /\ RowsAre(S, database)' /\ DOMAIN database'.rows = DOMAIN database.rows \cup {i}
        /\ \A j \in DOMAIN database.rows : j # i => database'.rows[j] = database.rows[j]
    BY <1>4, <1>5, <2>1, <2>3, RowSet
  <2> QED BY <2>2, <2>4
<1>7. Sized(S)'
  BY <1>1, <1>5, <1>6 DEF Sized, RowsAre, FilesAre
<1>8. task'.kind = "idle"
  BY <1>5, IdleIs
<1>9. Changing(S)'
  BY <1>5, <1>8 DEF Changing
<1>10. HaveFiles'
  BY <1>2, <1>5, <1>6, <1>8 DEF AtInv, HaveFiles, LiveRows
<1>11. Steps' /\ NothingLost'
  BY <1>2, <1>5, <1>8 DEF Steps, NothingLost
<1> QED BY <1>7, <1>9, <1>10, <1>11 DEF AtInv

LEMMA RecordDeleted ==
    ASSUME AtInv, NEW i, NEW unlinked, DeleteAttachment(i, unlinked)
    PROVE  AtInv'
<1>1. PICK S : Sized(S) /\ Changing(S)
  BY DEF AtInv
<1>2. /\ ~torn /\ task = Idle /\ i \in LiveRows(database) /\ i \in DOMAIN database.rows
      /\ task' = [kind |-> "delete", id |-> i]
      /\ database' = database /\ torn' = torn /\ main' = main /\ aside' = aside /\ uploads' = uploads
      /\ backups' = backups /\ excused' = excused
  BY DEF DeleteAttachment, Free, LiveRows, fileVars
<1>3. /\ DOMAIN disk' \subseteq DOMAIN disk /\ DOMAIN disk \subseteq DOMAIN disk' \cup {i}
      /\ \A j \in DOMAIN disk' : disk'[j] = disk[j]
  <2>1. disk' = Restrict(disk, DOMAIN disk \ {i}) \/ disk' = disk
    BY DEF DeleteAttachment, Without
  <2> QED BY <2>1, RestrictIs
<1>4. task'.kind = "delete" /\ task'.id = i
  BY <1>2
<1>5. Sized(S)'
  BY <1>1, <1>2, <1>3 DEF Sized, RowsAre, FilesAre
<1>6. Changing(S)'
  BY <1>2, <1>4 DEF Changing
<1>7. HaveFiles'
  BY <1>2, <1>3, <1>4, IdleIs DEF AtInv, HaveFiles, LiveRows
<1>8. Steps' /\ NothingLost'
  BY <1>2, <1>4 DEF Steps, NothingLost
<1> QED BY <1>5, <1>6, <1>7, <1>8 DEF AtInv

LEMMA SoftDeleteStep == ASSUME AtInv, SoftDelete PROVE AtInv'
<1>1. PICK S : Sized(S) /\ Changing(S)
  BY DEF AtInv
<1>2. PICK i : i = task.id
  OBVIOUS
<1>3. /\ task.kind = "delete" /\ i \in DOMAIN database.rows /\ ~torn /\ RowsAre(S, database)
  BY <1>1, <1>2 DEF SoftDelete, Changing, Sized
<1>4. /\ task' = Idle /\ torn' = torn /\ main' = main /\ aside' = aside /\ disk' = disk /\ uploads' = uploads
      /\ backups' = backups /\ excused' = excused
  BY DEF SoftDelete, fileVars
<1> DEFINE row == [database.rows[i] EXCEPT !.live = FALSE]
           table == [database.rows EXCEPT ![i] = row]
<1>5. row \in Rows /\ row.size = database.rows[i].size /\ row.live = FALSE
  <2>1. database.rows[i] \in Rows
    BY <1>3 DEF RowsAre
  <2> QED BY <2>1 DEF Rows
<1>6. database' = [database EXCEPT !.rows = table]
  BY <1>2 DEF SoftDelete
<1> HIDE DEF row
<1>7. /\ table \in [DOMAIN database.rows -> Rows]
      /\ DOMAIN table = DOMAIN database.rows /\ table[i] = row
      /\ \A j \in DOMAIN database.rows : j # i => table[j] = database.rows[j]
  BY <1>3, <1>5 DEF RowsAre
<1> HIDE DEF table
<1>8. database'.rows = table
         /\ database' = [rows |-> database'.rows, quota |-> database'.quota]
  <2>1. database' = [rows |-> table, quota |-> database.quota]
    BY <1>3, <1>6 DEF RowsAre
  <2>2. database'.rows = table /\ database'.quota = database.quota
    BY <2>1
  <2> QED BY <2>1, <2>2
<1>9. RowsAre(S, database)'
  BY <1>3, <1>4, <1>5, <1>7, <1>8 DEF RowsAre
<1>10. Sized(S)'
  BY <1>1, <1>4, <1>9 DEF Sized, RowsAre, FilesAre
<1>11. task'.kind = "idle"
  BY <1>4, IdleIs
<1>12. Changing(S)'
  BY <1>4, <1>11 DEF Changing
<1>13. HaveFiles'
  <2>1. ASSUME NEW j \in LiveRows(database)' PROVE j \in LiveRows(database) /\ j # i
    BY <1>5, <1>7, <1>8, <2>1 DEF LiveRows
  <2> QED BY <1>2, <1>3, <1>4, <2>1 DEF AtInv, HaveFiles
<1>14. Steps' /\ NothingLost'
  BY <1>3, <1>4, <1>11 DEF Steps, NothingLost
<1> QED BY <1>10, <1>12, <1>13, <1>14 DEF AtInv

LEMMA SetQuotaStep == ASSUME AtInv, NEW q, SetQuota(q) PROVE AtInv'
<1>1. PICK S : Sized(S) /\ Changing(S)
  BY DEF AtInv
<1>2. /\ task = Idle /\ ~torn /\ database' = [database EXCEPT !.quota = q] /\ task' = task
      /\ torn' = torn /\ main' = main /\ aside' = aside /\ disk' = disk /\ uploads' = uploads
      /\ backups' = backups /\ excused' = excused
  BY DEF SetQuota, Free, fileVars
<1>3. database'.rows = database.rows
         /\ database' = [rows |-> database'.rows, quota |-> database'.quota]
  <2>1. database' = [rows |-> database.rows, quota |-> q]
    BY <1>1, <1>2 DEF Sized, RowsAre
  <2>2. database'.rows = database.rows /\ database'.quota = q
    BY <2>1
  <2> QED BY <2>1, <2>2
<1>4. Sized(S)'
  <2>1. RowsAre(S, database)'
    BY <1>1, <1>2, <1>3 DEF Sized, RowsAre
  <2> QED BY <1>1, <1>2, <2>1 DEF Sized, RowsAre, FilesAre
<1>5. Changing(S)'
  BY <1>2, IdleIs DEF Changing
<1>6. HaveFiles'
  BY <1>2, <1>3 DEF AtInv, HaveFiles, LiveRows
<1>7. Steps' /\ NothingLost'
  BY <1>2, IdleIs DEF Steps, NothingLost
<1> QED BY <1>4, <1>5, <1>6, <1>7 DEF AtInv

LEMMA BackupStep == ASSUME AtInv, CreateFullDatabaseBackup PROVE AtInv'
<1>1. PICK S : Sized(S) /\ Changing(S)
  BY DEF AtInv
<1>2. PICK b : b = [database |-> database, files |-> disk]
  OBVIOUS
<1>3. /\ task = Idle /\ ~torn /\ backups' = backups \cup {b} /\ task' = task
      /\ database' = database /\ torn' = torn /\ main' = main /\ aside' = aside /\ disk' = disk
      /\ uploads' = uploads
      /\ excused' = excused
  BY <1>2 DEF CreateFullDatabaseBackup, Free
<1>4. b.database = database /\ b.files = disk
  BY <1>2
<1>5. Sized(S)'
  BY <1>1, <1>3, <1>4 DEF Sized, RowsAre, FilesAre
<1>6. Changing(S)'
  BY <1>3, IdleIs DEF Changing
<1>7. HaveFiles'
  BY <1>3 DEF AtInv, HaveFiles, LiveRows
<1>8. Steps' /\ NothingLost'
  BY <1>3, IdleIs DEF Steps, NothingLost
<1> QED BY <1>5, <1>6, <1>7, <1>8 DEF AtInv

LEMMA CheckpointStep == ASSUME AtInv, Checkpoint PROVE AtInv'
<1>1. PICK S : Sized(S) /\ Changing(S)
  BY DEF AtInv
<1>2. /\ main' = database /\ task' = task /\ task = Idle /\ database' = database
      /\ torn' = torn /\ aside' = aside /\ disk' = disk /\ uploads' = uploads
      /\ backups' = backups /\ excused' = excused
  BY DEF Checkpoint, Free, fileVars
<1>3. Sized(S)'
  BY <1>1, <1>2 DEF Sized, RowsAre, FilesAre
<1>4. Changing(S)'
  BY <1>1, <1>2 DEF Changing
<1>5. HaveFiles'
  BY <1>2 DEF AtInv, HaveFiles, LiveRows
<1>6. Steps' /\ NothingLost'
  BY <1>2, IdleIs DEF AtInv, Steps, NothingLost, StillWhole
<1> QED BY <1>3, <1>4, <1>5, <1>6 DEF AtInv

\* Steps of restores that leave the records and the files alone: what remains
\* to be shown of them.
LEMMA RestoringStep ==
    ASSUME AtInv, database' = database, main' = main \/ main' = database, uploads' = uploads,
           backups' = backups, excused' = excused, disk' = disk,
           task.kind = "idle" \/ (task.kind = "restore" /\ task'.writing = task.writing),
           task'.kind = "restore", Steps', NothingLost'
    PROVE  AtInv'
<1>1. PICK S : Sized(S) /\ Changing(S)
  BY DEF AtInv
<1>2. Sized(S)'
  BY <1>1 DEF Sized, RowsAre, FilesAre
<1>3. Changing(S)'
  BY DEF Changing
<1>4. HaveFiles'
  BY DEF AtInv, HaveFiles, LiveRows
<1> QED BY <1>2, <1>3, <1>4 DEF AtInv

LEMMA TaskIs ==
    ASSUME NEW who, NEW b, NEW first, NEW t, t = RestoreTask(who, b, first)
    PROVE  /\ t.kind = "restore" /\ t.by = who /\ t.backup = b /\ t.step = first
           /\ t.left = DOMAIN b.files /\ t.writing = {} /\ t = RestoreRecord(t)
BY DEF RestoreTask, RestoreRecord

LEMMA RestoreByScriptStep ==
    ASSUME AtInv, NEW b \in backups, NEW midway, RestoreByScript(b, midway) PROVE AtInv'
<1>1. PICK S : Sized(S) /\ Changing(S)
  BY DEF AtInv
<1>2. /\ task = Idle /\ task' = RestoreTask("script", b, "copy")
      /\ main' = main /\ disk' = disk /\ uploads' = uploads /\ backups' = backups
  BY DEF RestoreByScript
<1>3. /\ task'.kind = "restore" /\ task'.by = "script" /\ task'.backup = b
      /\ task'.step = "copy" /\ task'.left = DOMAIN b.files /\ task'.writing = {}
      /\ task' = RestoreRecord(task')
  BY <1>2, TaskIs
<1>4. CASE torn
  <2>1. database' = database /\ torn' = torn /\ aside' = aside /\ excused' = excused
    BY <1>4 DEF RestoreByScript
  <2>2. Steps'
    BY <1>2, <1>3, <1>4, <2>1 DEF Steps, RestoreRecord
  <2>3. NothingLost'
    BY <2>1 DEF AtInv, NothingLost, StillWhole
  <2> QED BY <1>2, <1>3, <2>1, <2>2, <2>3, IdleIs, RestoringStep
<1>5. CASE ~torn
  <2>1. PICK a : a = [found |-> database, copy |-> NoCopy, unclean |-> database # main]
    OBVIOUS
  <2>2. /\ aside' = a /\ database' = main /\ torn' = midway /\ (midway => database # main)
        /\ excused' = excused \cup (LiveRows(main) \ DOMAIN disk)
    BY <1>5, <2>1 DEF RestoreByScript
  <2>3. aside' = AsideRecord(aside') /\ (aside'.unclean \/ database' = aside'.found)
    BY <2>1, <2>2 DEF AsideRecord
  <2>4. midway => aside'.unclean
    BY <2>1, <2>2
  <2>5. Steps'
    BY <1>2, <1>3, <2>2, <2>3 DEF Steps, RestoreRecord
  <2>6. NothingLost'
    BY <2>2, <2>4 DEF NothingLost, StillWhole
  <2>7. Sized(S)'
    BY <1>1, <1>2, <2>2 DEF Sized, RowsAre, FilesAre
  <2>8. Changing(S)'
    BY <1>3 DEF Changing
  <2>9. HaveFiles'
    BY <1>2, <2>2 DEF HaveFiles, LiveRows
  <2> QED BY <2>5, <2>6, <2>7, <2>8, <2>9 DEF AtInv
<1> QED BY <1>4, <1>5

LEMMA RestoreFullDatabaseStep ==
    ASSUME AtInv, NEW b \in backups, RestoreFullDatabase(b) PROVE AtInv'
<1>1. PICK a : a = [found |-> database, copy |-> NoCopy, unclean |-> FALSE]
  OBVIOUS
<1>2. /\ task = Idle /\ ~torn /\ database.rows = <<>> /\ task' = RestoreTask("request", b, "files")
      /\ database' = database /\ main' = database /\ aside' = a /\ torn' = torn /\ disk' = disk
      /\ uploads' = uploads /\ backups' = backups /\ excused' = excused
  BY <1>1 DEF RestoreFullDatabase, Free
<1>3. /\ task'.kind = "restore" /\ task'.by = "request" /\ task'.backup = b
      /\ task'.step = "files" /\ task'.left = DOMAIN b.files /\ task'.writing = {}
      /\ task' = RestoreRecord(task')
  BY <1>2, TaskIs
<1>4. aside'.found.rows = <<>>
  BY <1>1, <1>2
<1>5. Steps'
  BY <1>2, <1>3, <1>4 DEF Steps, RestoreRecord
<1>6. NothingLost'
  BY <1>2 DEF NothingLost
<1> QED BY <1>2, <1>3, <1>5, <1>6, IdleIs, RestoringStep

\* What is known within a restore, and of its next step.
LEMMA GoingIs ==
    ASSUME AtInv, NEW step, task.kind = "restore", Going(step)
    PROVE  /\ task'.kind = "restore" /\ task'.by = task.by /\ task'.backup = task.backup
           /\ task'.step = step /\ task'.left = task.left /\ task'.writing = task.writing
           /\ task' = RestoreRecord(task')
<1>1. task = RestoreRecord(task)
  BY DEF AtInv, Steps
<1>2. PICK b, k, l, w : b = task.by /\ k = task.backup /\ l = task.left /\ w = task.writing
  OBVIOUS
<1>3. task' = [kind |-> "restore", by |-> b, backup |-> k, step |-> step, left |-> l, writing |-> w]
  BY <1>1, <1>2 DEF Going, RestoreRecord
<1>4. /\ task'.kind = "restore" /\ task'.by = b /\ task'.backup = k /\ task'.step = step
      /\ task'.left = l /\ task'.writing = w
  BY <1>3
<1> QED BY <1>2, <1>3, <1>4 DEF RestoreRecord

LEMMA CopyAsideStep == ASSUME AtInv, CopyAside PROVE AtInv'
<1>1. /\ task.kind = "restore" /\ task.step = "copy" /\ Going("install")
      /\ aside' = IF torn THEN aside ELSE [aside EXCEPT !.copy = database]
      /\ database' = database /\ main' = main /\ torn' = torn /\ disk' = disk
      /\ uploads' = uploads /\ backups' = backups /\ excused' = excused
  BY DEF CopyAside, Restoring
<1>2. /\ task'.kind = "restore" /\ task'.by = task.by /\ task'.backup = task.backup
      /\ task'.step = "install" /\ task'.left = task.left /\ task'.writing = task.writing
      /\ task' = RestoreRecord(task')
  BY <1>1, GoingIs
<1>3. StillWhole'
  <2>1. CASE torn
    BY <2>1, <1>1 DEF AtInv, NothingLost, StillWhole
  <2>2. CASE ~torn
    <3>1. aside = AsideRecord(aside) /\ (aside.unclean \/ database = aside.found)
      BY <2>2, <1>1 DEF AtInv, Steps
    <3>2. /\ aside'.found = aside.found /\ aside'.unclean = aside.unclean
          /\ aside'.copy = database
      BY <2>2, <1>1, <3>1 DEF AsideRecord
    <3> QED BY <3>1, <3>2 DEF StillWhole
  <2> QED BY <2>1, <2>2
<1>4. Steps'
  BY <1>1, <1>2, <1>3 DEF AtInv, Steps
<1>5. NothingLost'
  BY <1>3 DEF NothingLost
<1> QED BY <1>1, <1>2, <1>4, <1>5, RestoringStep

LEMMA OverwriteStep == ASSUME AtInv, Overwrite PROVE AtInv'
<1>1. /\ task.kind = "restore" /\ task.step = "install" /\ Going("installing")
      /\ database' = database /\ main' = main /\ aside' = aside /\ disk' = disk
      /\ uploads' = uploads /\ backups' = backups /\ excused' = excused
  BY DEF Overwrite, Restoring
<1>2. /\ task'.kind = "restore" /\ task'.by = task.by /\ task'.backup = task.backup
      /\ task'.step = "installing" /\ task'.left = task.left /\ task'.writing = task.writing
      /\ task' = RestoreRecord(task')
  BY <1>1, GoingIs
<1>3. StillWhole'
  BY <1>1 DEF AtInv, Steps, StillWhole
<1>4. Steps'
  BY <1>1, <1>2, <1>3 DEF AtInv, Steps
<1>5. NothingLost'
  BY <1>3 DEF NothingLost
<1> QED BY <1>1, <1>2, <1>4, <1>5, RestoringStep

LEMMA InstalledStep == ASSUME AtInv, Installed PROVE AtInv'
<1>1. PICK S : Sized(S) /\ Changing(S)
  BY DEF AtInv
<1>2. PICK step : step = IF task.by = "script" THEN "files" ELSE "done"
  OBVIOUS
<1>3. /\ task.kind = "restore" /\ task.step = "installing" /\ Going(step)
      /\ torn' = FALSE /\ database' = task.backup.database /\ main' = task.backup.database
      /\ excused' = excused \cup (LiveRows(task.backup.database) \ DOMAIN disk)
      /\ disk' = disk /\ uploads' = uploads /\ backups' = backups
  BY <1>2 DEF Installed, Restoring
<1>4. /\ task'.kind = "restore" /\ task'.by = task.by /\ task'.backup = task.backup
      /\ task'.step = step /\ task'.left = task.left /\ task'.writing = task.writing
      /\ task' = RestoreRecord(task')
  BY <1>3, GoingIs
<1>5. /\ task.backup \in backups /\ task.by \in {"script", "request"}
      /\ (task.by = "request" => task.left = {})
      /\ DOMAIN task.backup.files \subseteq DOMAIN disk \cup task.left
      /\ task.left \subseteq DOMAIN task.backup.files /\ task.writing \subseteq task.left
  BY <1>3 DEF AtInv, Steps
<1>6. Sized(S)'
  BY <1>1, <1>3, <1>5 DEF Sized, RowsAre, FilesAre
<1>7. Changing(S)'
  BY <1>4 DEF Changing
<1>8. HaveFiles'
  BY <1>3 DEF HaveFiles, LiveRows
<1>9. Steps'
  <2>1. CASE task.by = "script"
    BY <2>1, <1>2, <1>3, <1>4, <1>5 DEF Steps
  <2>2. CASE task.by = "request"
    BY <2>2, <1>2, <1>3, <1>4, <1>5 DEF Steps
  <2> QED BY <2>1, <2>2, <1>5
<1>10. NothingLost'
  BY <1>3 DEF NothingLost
<1> QED BY <1>6, <1>7, <1>8, <1>9, <1>10 DEF AtInv

LEMMA OpenFileStep == ASSUME AtInv, NEW i, OpenFile(i) PROVE AtInv'
<1>1. PICK S : Sized(S) /\ Changing(S)
  BY DEF AtInv
<1>2. /\ task.kind = "restore" /\ task.step = "files" /\ task.writing = {} /\ i \in task.left
      /\ task' = [task EXCEPT !.writing = {i}] /\ disk' = Restrict(disk, DOMAIN disk \ {i})
      /\ database' = database /\ main' = main /\ torn' = torn /\ aside' = aside
      /\ uploads' = uploads /\ backups' = backups /\ excused' = excused
  BY DEF OpenFile, Restoring, Without, fileVars
<1>3. DOMAIN disk' = DOMAIN disk \ {i} /\ \A j \in DOMAIN disk' : disk'[j] = disk[j]
  BY <1>2, RestrictIs
<1>4. /\ task'.kind = "restore" /\ task'.by = task.by /\ task'.backup = task.backup
      /\ task'.step = task.step /\ task'.left = task.left /\ task'.writing = {i}
      /\ task' = RestoreRecord(task')
  BY <1>2 DEF AtInv, Steps, RestoreRecord
<1>5. Sized(S)'
  BY <1>1, <1>2, <1>3 DEF Sized, RowsAre, FilesAre
<1>6. Changing(S)'
  BY <1>4 DEF Changing
<1>7. HaveFiles'
  BY <1>2, <1>3, <1>4 DEF AtInv, HaveFiles, LiveRows
<1>8. Steps'
  BY <1>2, <1>3, <1>4 DEF AtInv, Steps
<1>9. NothingLost'
  BY <1>2 DEF AtInv, NothingLost, StillWhole
<1> QED BY <1>5, <1>6, <1>7, <1>8, <1>9 DEF AtInv

LEMMA WriteFileStep == ASSUME AtInv, NEW i, WriteFile(i) PROVE AtInv'
<1>1. PICK S : Sized(S) /\ Changing(S)
  BY DEF AtInv
<1>2. /\ task.kind = "restore" /\ task.step = "files" /\ task.writing = {i}
      /\ task' = [task EXCEPT !.left = @ \ {i}, !.writing = {}]
      /\ disk' = With(disk, i, task.backup.files[i])
      /\ database' = database /\ main' = main /\ torn' = torn /\ aside' = aside
      /\ uploads' = uploads /\ backups' = backups /\ excused' = excused
  BY DEF WriteFile, Restoring, fileVars
<1>3. /\ DOMAIN disk' = DOMAIN disk \cup {i} /\ disk'[i] = task.backup.files[i]
      /\ \A j \in DOMAIN disk : j # i => disk'[j] = disk[j]
  <2>1. PICK v : v = task.backup.files[i]
    OBVIOUS
  <2>2. disk' = With(disk, i, v)
    BY <1>2, <2>1
  <2>3. /\ DOMAIN disk' = DOMAIN disk \cup {i} /\ disk'[i] = v
        /\ \A j \in DOMAIN disk : j # i => disk'[j] = disk[j]
    BY <2>2 DEF With
  <2> QED BY <2>1, <2>3
<1>4. /\ task'.kind = "restore" /\ task'.by = task.by /\ task'.backup = task.backup
      /\ task'.step = task.step /\ task'.left = task.left \ {i} /\ task'.writing = {}
      /\ task' = RestoreRecord(task')
  <2>1. PICK b, k, s, l : b = task.by /\ k = task.backup /\ s = task.step /\ l = task.left
    OBVIOUS
  <2>2. task = RestoreRecord(task)
    BY <1>2 DEF AtInv, Steps
  <2>3. task' = [kind |-> "restore", by |-> b, backup |-> k, step |-> s, left |-> l \ {i},
                 writing |-> {}]
    BY <1>2, <2>1, <2>2 DEF RestoreRecord
  <2>4. /\ task'.kind = "restore" /\ task'.by = b /\ task'.backup = k /\ task'.step = s
        /\ task'.left = l \ {i} /\ task'.writing = {}
    BY <2>3
  <2> QED BY <2>1, <2>3, <2>4 DEF RestoreRecord
<1>5. task.backup \in backups /\ i \in DOMAIN task.backup.files
  BY <1>2 DEF AtInv, Steps
<1>6. FilesAre(S, task.backup.files) /\ FilesAre(S, disk)
  BY <1>1, <1>5 DEF Sized
<1>7. FilesAre(S, disk)'
  BY <1>2, <1>3, <1>5, <1>6 DEF FilesAre
<1>8. Sized(S)'
  BY <1>1, <1>2, <1>7 DEF Sized, RowsAre, FilesAre
<1>9. Changing(S)'
  BY <1>4 DEF Changing
<1>10. HaveFiles'
  BY <1>2, <1>3, <1>4 DEF AtInv, HaveFiles, LiveRows
<1>11. Steps'
  BY <1>2, <1>3, <1>4 DEF AtInv, Steps
<1>12. NothingLost'
  BY <1>2 DEF AtInv, NothingLost, StillWhole
<1> QED BY <1>8, <1>9, <1>10, <1>11, <1>12 DEF AtInv

LEMMA FilesWrittenStep == ASSUME AtInv, FilesWritten PROVE AtInv'
<1>1. PICK step : step = IF task.by = "script" THEN "done" ELSE "install"
  OBVIOUS
<1>2. /\ task.kind = "restore" /\ task.step = "files" /\ Going(step) /\ task.left = {}
      /\ database' = database /\ main' = main /\ torn' = torn /\ aside' = aside /\ disk' = disk
      /\ uploads' = uploads /\ backups' = backups /\ excused' = excused
  BY <1>1 DEF FilesWritten, Restoring, fileVars
<1>3. /\ task'.kind = "restore" /\ task'.by = task.by /\ task'.backup = task.backup
      /\ task'.step = step /\ task'.left = task.left /\ task'.writing = task.writing
      /\ task' = RestoreRecord(task')
  BY <1>2, GoingIs
<1>4. task.by = "request" => StillWhole'
  BY <1>2 DEF AtInv, Steps, StillWhole
<1>5. Steps'
  <2>1. CASE task.by = "script"
    BY <2>1, <1>1, <1>2, <1>3 DEF AtInv, Steps
  <2>2. CASE task.by = "request"
    BY <2>2, <1>1, <1>2, <1>3, <1>4 DEF AtInv, Steps
  <2>3. task.by \in {"script", "request"}
    BY <1>2 DEF AtInv, Steps
  <2> QED BY <2>1, <2>2, <2>3
<1>6. NothingLost'
  BY <1>2 DEF AtInv, NothingLost, StillWhole
<1> QED BY <1>2, <1>3, <1>5, <1>6, RestoringStep

\* The end of a restore, and what cuts off a task.
LEMMA RestoreDoneStep == ASSUME AtInv, RestoreDone PROVE AtInv'
<1>1. PICK S : Sized(S) /\ Changing(S)
  BY DEF AtInv
<1>2. /\ task.kind = "restore" /\ task.step = "done" /\ task' = Idle
      /\ excused' = excused \ DOMAIN disk
      /\ database' = database /\ main' = main /\ torn' = torn /\ aside' = aside /\ disk' = disk
      /\ uploads' = uploads /\ backups' = backups
  BY DEF RestoreDone, Restoring, fileVars
<1>3. task'.kind = "idle" /\ task.writing = {}
  BY <1>2, IdleIs DEF AtInv, Steps
<1>4. Sized(S)'
  BY <1>1, <1>2 DEF Sized, RowsAre, FilesAre
<1>5. Changing(S)'
  BY <1>2, <1>3 DEF Changing
<1>6. HaveFiles'
  BY <1>2, <1>3 DEF AtInv, HaveFiles, LiveRows
<1>7. Steps' /\ NothingLost'
  BY <1>2, <1>3 DEF AtInv, Steps, NothingLost, StillWhole
<1> QED BY <1>4, <1>5, <1>6, <1>7 DEF AtInv

LEMMA CutOffStep == ASSUME AtInv, CutOff PROVE AtInv'
<1>1. PICK S : Sized(S) /\ Changing(S)
  BY DEF AtInv
<1>2. /\ task' = Idle /\ excused \subseteq excused'
      /\ (task.kind = "delete" => task.id \in excused')
      /\ (task.kind = "restore" => task.writing \subseteq excused')
      /\ database' = database /\ main' = main /\ torn' = torn /\ (torn => aside' = aside)
      /\ disk' = disk /\ uploads' = uploads /\ backups' = backups
  BY DEF CutOff
<1>3. task'.kind = "idle"
  BY <1>2, IdleIs
<1>4. Sized(S)'
  BY <1>1, <1>2 DEF Sized, RowsAre, FilesAre
<1>5. Changing(S)'
  BY <1>2, <1>3 DEF Changing
<1>6. HaveFiles'
  BY <1>2, <1>3 DEF AtInv, HaveFiles, LiveRows
<1>7. Steps' /\ NothingLost'
  BY <1>2, <1>3 DEF AtInv, Steps, NothingLost, StillWhole
<1> QED BY <1>4, <1>5, <1>6, <1>7 DEF AtInv

LEMMA AtStep == AtInv /\ [AtNext]_atVars => AtInv'
<1> SUFFICES ASSUME AtInv, [AtNext]_atVars PROVE AtInv'
  OBVIOUS
<1>1. ASSUME NEW size \in Sizes, NEW sanitized \in Sizes, UploadAttachment(size, sanitized)
      PROVE  AtInv'
  BY <1>1, UploadStep
<1>2. CASE Create
  BY <1>2, UploadCreates
<1>3. ASSUME NEW i, NEW unlinked, DeleteAttachment(i, unlinked) PROVE AtInv'
  BY <1>3, RecordDeleted
<1>4. CASE SoftDelete
  BY <1>4, SoftDeleteStep
<1>5. ASSUME NEW q, SetQuota(q) PROVE AtInv'
  BY <1>5, SetQuotaStep
<1>6. CASE CreateFullDatabaseBackup \/ Checkpoint
  BY <1>6, BackupStep, CheckpointStep
<1>7. ASSUME NEW b \in backups, NEW midway, RestoreByScript(b, midway) \/ RestoreFullDatabase(b)
      PROVE  AtInv'
  BY <1>7, RestoreByScriptStep, RestoreFullDatabaseStep
<1>8. CASE CopyAside \/ Overwrite \/ Installed
  BY <1>8, CopyAsideStep, OverwriteStep, InstalledStep
<1>9. ASSUME NEW i, OpenFile(i) \/ WriteFile(i) PROVE AtInv'
  BY <1>9, OpenFileStep, WriteFileStep
<1>10. CASE FilesWritten \/ RestoreDone \/ CutOff
  BY <1>10, FilesWrittenStep, RestoreDoneStep, CutOffStep
<1>11. CASE UNCHANGED atVars
  <2>1. PICK S : Sized(S) /\ Changing(S)
    BY DEF AtInv
  <2>2. Sized(S)' /\ Changing(S)'
    BY <1>11, <2>1 DEF atVars, fileVars, Sized, RowsAre, FilesAre, Changing
  <2>3. HaveFiles' /\ Steps' /\ NothingLost'
    BY <1>11 DEF atVars, fileVars, AtInv, HaveFiles, LiveRows, Steps, RestoreRecord, NothingLost, StillWhole
  <2> QED BY <2>2, <2>3 DEF AtInv
<1> QED BY <1>1, <1>2, <1>3, <1>4, <1>5, <1>6, <1>7, <1>8, <1>9, <1>10, <1>11 DEF AtNext

LEMMA AtInvariant == AttachmentsAssumption /\ AtSpec => []AtInv
BY AtInitial, AtStep, PTL DEF AtSpec

(***************************************************************************)
(* The theorems.                                                           *)
(***************************************************************************)
\* Between tasks the file of a listed attachment is there, in the size of its
\* record, whatever was uploaded, deleted and restored before: only what was
\* cut off may have left a record without file, and a restore that ends
\* takes back the excuse of the files it brought.
THEOREM Downloadable == AttachmentsAssumption /\ AtSpec => []RecordsHaveFiles
<1>1. AtInv => RecordsHaveFiles
  <2> SUFFICES ASSUME AtInv, task = Idle, NEW i \in LiveRows(database) \ excused
               PROVE  i \in DOMAIN disk /\ disk[i] = database.rows[i].size
    BY DEF RecordsHaveFiles
  <2>1. PICK S : Sized(S)
    BY DEF AtInv
  <2>2. i \in DOMAIN disk
    BY IdleIs DEF AtInv, HaveFiles
  <2>3. i \in DOMAIN database.rows
    BY DEF LiveRows
  <2> QED BY <2>1, <2>2, <2>3 DEF Sized, RowsAre, FilesAre
<1> QED BY <1>1, AtInvariant, PTL

\* The database that a restore overwrites stays whole in its copy, or had
\* nothing in it, however the restore is cut off and repeated; unless a process
\* that died had left commits in the WAL, which the script removes before it
\* copies.
THEOREM Recoverable == AttachmentsAssumption /\ AtSpec => []NothingLost
<1>1. AtInv => NothingLost
  BY DEF AtInv
<1> QED BY <1>1, AtInvariant, PTL

\* A restore that ends has the records and the files of the backup, by either
\* of the two restores and in whichever order they write.
THEOREM Restored == AttachmentsAssumption /\ AtSpec => RestoredWhole
<1>1. AtInv /\ [AtNext]_atVars =>
         [RestoreDone => /\ database = task.backup.database
                         /\ \A i \in DOMAIN task.backup.files :
                               i \in DOMAIN disk /\ disk[i] = task.backup.files[i]]_atVars
  <2> SUFFICES ASSUME AtInv, RestoreDone
               PROVE  /\ database = task.backup.database
                      /\ \A i \in DOMAIN task.backup.files :
                            i \in DOMAIN disk /\ disk[i] = task.backup.files[i]
    OBVIOUS
  <2>1. PICK S : Sized(S)
    BY DEF AtInv
  <2>2. /\ task.backup \in backups /\ DOMAIN task.backup.files \subseteq DOMAIN disk
        /\ database = task.backup.database
    BY DEF AtInv, Steps, RestoreDone, Restoring
  <2> QED BY <2>1, <2>2 DEF Sized, FilesAre
<1> QED BY <1>1, AtInvariant, PTL DEF AtSpec, RestoredWhole

(***************************************************************************)
(* Conversations.                                                          *)
(***************************************************************************)
ThreadRows ==
    [state : {"absent", "live", "deleted"}, private : BOOLEAN,
     creator : People \cup {NoOne}, participants : SUBSET People]
MessageRows == [id : Nat, thread : Threads, author : People, live : BOOLEAN]

\* Messages are numbered as they come, so that their number is a new id.
Numbered ==
    /\ IsFiniteSet(messages) /\ Cardinality(messages) <= MaxMessages
    /\ \A m \in messages : m.id \in 1 .. Cardinality(messages)
    /\ \A m, n \in messages : m.id = n.id => m = n

Authored ==
    \A m \in messages :
       /\ m \in MessageRows /\ thread[m.thread].state # "absent"
       /\ thread[m.thread].state = "deleted" => ~m.live
       /\ m.author \in thread[m.thread].participants
       /\ m.author \in Contacts /\ thread[m.thread].private
             => thread[m.thread].creator \in Contacts

Announced ==
    /\ announced \subseteq Threads \cup Ids
    /\ \A t \in Threads :
          /\ thread[t].state = "absent" => t \notin announced
          /\ thread[t].state # "absent" =>
                (t \in announced <=> ~(thread[t].private /\ thread[t].creator \in Contacts))

CVInv ==
    /\ ConversationsAssumption
    /\ thread \in [Threads -> ThreadRows] /\ configured \in BOOLEAN /\ open \in BOOLEAN
    /\ Numbered /\ Authored /\ Announced

(***************************************************************************)
(* Facts about the operators.                                              *)
(***************************************************************************)
LEMMA ThreadIs ==
    ASSUME NEW row \in ThreadRows
    PROVE  /\ row.state \in {"absent", "live", "deleted"} /\ row.private \in BOOLEAN
           /\ row.creator \in People \cup {NoOne} /\ row.participants \in SUBSET People
BY DEF ThreadRows

LEMMA MessageIs ==
    ASSUME NEW m \in MessageRows
    PROVE  /\ m.id \in Nat /\ m.thread \in Threads /\ m.author \in People /\ m.live \in BOOLEAN
BY DEF MessageRows

\* A message more has a number of its own.
LEMMA OneMore ==
    ASSUME CVInv, NEW t \in Threads, NEW who \in People, Cardinality(messages) < MaxMessages,
           messages' = messages \cup {Message(t, who)}
    PROVE  /\ Numbered' /\ Ids' = Ids \cup {Message(t, who).id}
           /\ Message(t, who) \in MessageRows /\ Message(t, who).thread = t
           /\ Message(t, who).author = who /\ Message(t, who).id \in Nat
<1>1. IsFiniteSet(messages) /\ \A m \in messages : m.id \in 1 .. Cardinality(messages)
  BY DEF CVInv, Numbered
<1>2. PICK n \in Nat : n = Cardinality(messages)
  BY <1>1, FS_CardinalityType
<1>3. PICK new : new = Message(t, who)
  OBVIOUS
<1>4. new = [id |-> n + 1, thread |-> t, author |-> who, live |-> TRUE]
  BY <1>2, <1>3 DEF Message
<1>5. new.id = n + 1 /\ new.thread = t /\ new.author = who /\ new \in MessageRows
  BY <1>2, <1>4 DEF MessageRows
<1>6. new \notin messages
  BY <1>1, <1>2, <1>5
<1>7. IsFiniteSet(messages') /\ Cardinality(messages') = n + 1
  BY <1>1, <1>2, <1>3, <1>6, FS_AddElement
<1>8. Numbered'
  <2>1. \A m \in messages' : m.id \in 1 .. n + 1
    BY <1>1, <1>2, <1>3, <1>5
  <2>2. \A m, k \in messages' : m.id = k.id => m = k
    BY <1>1, <1>2, <1>3, <1>5 DEF CVInv, Numbered
  <2>3. n + 1 <= MaxMessages
    BY <1>2 DEF CVInv, ConversationsAssumption
  <2> QED BY <1>7, <2>1, <2>2, <2>3 DEF Numbered
<1>9. Ids' = Ids \cup {new.id}
  BY <1>3 DEF Ids
<1> QED BY <1>3, <1>5, <1>8, <1>9

\* A thread is written: what is enough for the threads.
LEMMA ThreadSet ==
    ASSUME thread \in [Threads -> ThreadRows], NEW t \in Threads, NEW row \in ThreadRows,
           thread' = [thread EXCEPT ![t] = row]
    PROVE  /\ (thread \in [Threads -> ThreadRows])' /\ thread'[t] = row
           /\ \A u \in Threads : u # t => thread'[u] = thread[u]
OBVIOUS

(***************************************************************************)
(* Init and the steps.                                                     *)
(***************************************************************************)
LEMMA CVInitial == ConversationsAssumption /\ CVInit => CVInv
<1> SUFFICES ASSUME ConversationsAssumption, CVInit PROVE CVInv
  OBVIOUS
<1>1. PICK row : row = Absent
  OBVIOUS
<1>2. row \in ThreadRows /\ row.state = "absent"
  BY <1>1 DEF Absent, ThreadRows
<1>3. thread = [t \in Threads |-> row]
  BY <1>1 DEF CVInit
<1>4. messages = {} /\ announced = {} /\ configured \in BOOLEAN /\ open \in BOOLEAN
  BY DEF CVInit
<1>5. thread \in [Threads -> ThreadRows] /\ \A t \in Threads : thread[t].state = "absent"
  BY <1>2, <1>3
<1>6. Numbered
  BY <1>4, FS_EmptySet DEF Numbered, ConversationsAssumption
<1>7. Authored
  BY <1>4 DEF Authored
<1>8. Announced
  BY <1>4, <1>5 DEF Announced
<1> QED BY <1>4, <1>5, <1>6, <1>7, <1>8 DEF CVInv

LEMMA CreateStep ==
    ASSUME CVInv, NEW t \in Threads, NEW who \in People, NEW private \in BOOLEAN,
           NEW first \in BOOLEAN, NEW others \in SUBSET People,
           CreateConversation(t, who, private, others, first)
    PROVE  CVInv'
<1>1. PICK row : row = [state |-> "live", private |-> private, creator |-> who,
                        participants |-> others \cup {who}]
  OBVIOUS
<1>2. /\ row \in ThreadRows /\ row.state = "live" /\ row.private = private
      /\ row.creator = who /\ who \in row.participants
  BY <1>1 DEF ThreadRows
<1>3. thread' = [thread EXCEPT ![t] = row] /\ thread[t] = Absent
  BY <1>1 DEF CreateConversation
<1>4. /\ (thread \in [Threads -> ThreadRows])' /\ thread'[t] = row
      /\ \A u \in Threads : u # t => thread'[u] = thread[u]
  BY <1>2, <1>3, ThreadSet DEF CVInv
<1>5. thread[t].state = "absent"
  BY <1>3 DEF Absent
<1>6. \A m \in messages : m \in MessageRows /\ m.thread \in Threads /\ m.thread # t
  BY <1>5, MessageIs DEF CVInv, Authored
<1>7. \A m \in messages : thread'[m.thread] = thread[m.thread]
  BY <1>4, <1>6
<1>8. Numbered' /\ Ids \subseteq Ids' /\ Authored'
  <2>1. CASE first
    <3>1. PICK new : new = Message(t, who)
      OBVIOUS
    <3>2. messages' = messages \cup {new} /\ Cardinality(messages) < MaxMessages
      BY <2>1, <3>1 DEF CreateConversation
    <3>3. /\ Numbered' /\ Ids' = Ids \cup {new.id}
          /\ new \in MessageRows /\ new.thread = t /\ new.author = who
      BY <3>1, <3>2, OneMore
    <3>4. /\ new \in MessageRows /\ thread'[new.thread].state # "absent"
          /\ thread'[new.thread].state = "deleted" => ~new.live
          /\ new.author \in thread'[new.thread].participants
          /\ new.author \in Contacts /\ thread'[new.thread].private
                => thread'[new.thread].creator \in Contacts
      BY <1>2, <1>4, <3>3
    <3>5. Authored'
      BY <1>7, <3>2, <3>4 DEF CVInv, Authored
    <3> QED BY <3>3, <3>5
  <2>2. CASE ~first
    <3>1. messages' = messages
      BY <2>2 DEF CreateConversation
    <3>2. Numbered'
      BY <3>1 DEF Numbered, CVInv
    <3>3. Ids' = Ids
      BY <3>1 DEF Ids
    <3>4. Authored'
      BY <1>7, <3>1 DEF CVInv, Authored
    <3> QED BY <3>2, <3>3, <3>4
  <2> QED BY <2>1, <2>2
<1>9. Announced'
  <2>1. announced' = IF who \in Contacts /\ private THEN announced ELSE announced \cup {t}
    BY DEF CreateConversation
  <2>2. announced' \subseteq Threads \cup Ids'
    BY <1>8, <2>1 DEF CVInv, Announced
  <2>3. t \in announced' <=> ~(row.private /\ row.creator \in Contacts)
    BY <1>2, <1>5, <2>1 DEF CVInv, Announced
  <2>4. \A u \in Threads : u # t => (u \in announced' <=> u \in announced)
    BY <2>1
  <2> QED BY <1>2, <1>4, <2>2, <2>3, <2>4 DEF CVInv, Announced
<1>10. configured' = configured /\ open' = open
  BY DEF CreateConversation
<1> QED BY <1>4, <1>8, <1>9, <1>10 DEF CVInv

LEMMA AddStep ==
    ASSUME CVInv, NEW t \in Threads, NEW who \in People, AddMessage(t, who)
    PROVE  CVInv'
<1>1. PICK old \in ThreadRows : old = thread[t]
  BY DEF CVInv
<1>2. PICK row : row = [old EXCEPT !.participants = @ \cup {who}]
  OBVIOUS
<1>3. /\ row \in ThreadRows /\ row.state = old.state /\ row.private = old.private
      /\ row.creator = old.creator /\ row.participants = old.participants \cup {who}
  BY <1>2 DEF ThreadRows
<1>4. thread' = [thread EXCEPT ![t] = row]
  BY <1>1, <1>2 DEF AddMessage, CVInv
<1>5. /\ (thread \in [Threads -> ThreadRows])' /\ thread'[t] = row
      /\ \A u \in Threads : u # t => thread'[u] = thread[u]
  BY <1>3, <1>4, ThreadSet DEF CVInv
<1>6. /\ old.state = "live" /\ (who \in Contacts => ~old.private)
  BY <1>1 DEF AddMessage, Visible
<1>7. PICK new : new = Message(t, who)
  OBVIOUS
<1>8. messages' = messages \cup {new} /\ Cardinality(messages) < MaxMessages
  BY <1>7 DEF AddMessage
<1>9. /\ Numbered' /\ Ids' = Ids \cup {new.id} /\ new \in MessageRows
      /\ new.thread = t /\ new.author = who /\ new.id \in Nat
  BY <1>7, <1>8, OneMore
<1>10. \A u \in Threads :
          /\ thread'[u].state = thread[u].state /\ thread'[u].private = thread[u].private
          /\ thread'[u].creator = thread[u].creator
          /\ thread[u].participants \subseteq thread'[u].participants
  BY <1>1, <1>3, <1>5
<1>11. Authored'
  <2>1. /\ new \in MessageRows /\ thread'[new.thread].state # "absent"
        /\ thread'[new.thread].state = "deleted" => ~new.live
        /\ new.author \in thread'[new.thread].participants
        /\ new.author \in Contacts /\ thread'[new.thread].private
              => thread'[new.thread].creator \in Contacts
    BY <1>3, <1>5, <1>6, <1>9
  <2>2. ASSUME NEW m \in messages
        PROVE  /\ m \in MessageRows /\ thread'[m.thread].state # "absent"
               /\ thread'[m.thread].state = "deleted" => ~m.live
               /\ m.author \in thread'[m.thread].participants
               /\ m.author \in Contacts /\ thread'[m.thread].private
                     => thread'[m.thread].creator \in Contacts
    BY <1>10, MessageIs DEF CVInv, Authored
  <2> QED BY <1>8, <2>1, <2>2 DEF Authored
<1>12. Announced'
  <2>1. announced' = announced \cup {new.id}
    BY <1>7 DEF AddMessage
  <2>2. new.id \notin Threads
    BY <1>9 DEF CVInv, ConversationsAssumption
  <2>3. \A u \in Threads : u \in announced' <=> u \in announced
    BY <2>1, <2>2
  <2>4. announced' \subseteq Threads \cup Ids'
    BY <1>9, <2>1 DEF CVInv, Announced
  <2> QED BY <1>10, <2>3, <2>4 DEF CVInv, Announced
<1>13. configured' = configured /\ open' = open
  BY DEF AddMessage
<1> QED BY <1>5, <1>9, <1>11, <1>12, <1>13 DEF CVInv

\* Messages that are rewritten one by one, with their ids, are as many.
LEMMA Rewritten ==
    ASSUME CVInv, NEW f, f \in [messages -> MessageRows], \A m \in messages : f[m].id = m.id,
           messages' = {f[m] : m \in messages}
    PROVE  Numbered' /\ Ids' = Ids
<1>1. /\ IsFiniteSet(messages) /\ Cardinality(messages) <= MaxMessages
      /\ \A m \in messages : m.id \in 1 .. Cardinality(messages)
      /\ \A m, k \in messages : m.id = k.id => m = k
  BY DEF CVInv, Numbered
<1>2. f \in [messages -> messages']
  OBVIOUS
<1>3. f \in Surjection(messages, messages')
  BY <1>2 DEF Surjection
<1>4. f \in Injection(messages, messages')
  BY <1>1, <1>2 DEF Injection, IsInjective
<1>5. IsFiniteSet(messages') /\ Cardinality(messages') = Cardinality(messages)
  BY <1>1, <1>3, <1>4, FS_Surjection
<1>6. \A m \in messages' : m.id \in 1 .. Cardinality(messages)
  BY <1>1
<1>7. \A m, k \in messages' : m.id = k.id => m = k
  BY <1>1
<1>8. Ids' = Ids
  BY DEF Ids
<1> QED BY <1>1, <1>5, <1>6, <1>7, <1>8 DEF Numbered

LEMMA DeleteStep ==
    ASSUME CVInv, NEW t \in Threads, NEW who \in People, DeleteConversation(t, who)
    PROVE  CVInv'
<1>1. PICK old \in ThreadRows : old = thread[t]
  BY DEF CVInv
<1>2. PICK row : row = [old EXCEPT !.state = "deleted"]
  OBVIOUS
<1>3. /\ row \in ThreadRows /\ row.state = "deleted" /\ row.private = old.private
      /\ row.creator = old.creator /\ row.participants = old.participants
  BY <1>2 DEF ThreadRows
<1>4. thread' = [thread EXCEPT ![t] = row]
  BY <1>1, <1>2 DEF DeleteConversation, CVInv
<1>5. /\ (thread \in [Threads -> ThreadRows])' /\ thread'[t] = row
      /\ \A u \in Threads : u # t => thread'[u] = thread[u]
  BY <1>3, <1>4, ThreadSet DEF CVInv
<1>6. old.state = "live"
  BY <1>1 DEF DeleteConversation, Visible
<1>7. PICK f : f = [m \in messages |-> IF m.thread = t THEN [m EXCEPT !.live = FALSE] ELSE m]
  OBVIOUS
<1>8. \A m \in messages : m \in MessageRows
  BY DEF CVInv, Authored
<1>9. ASSUME NEW m \in messages
      PROVE  /\ f[m] \in MessageRows /\ f[m].id = m.id /\ f[m].thread = m.thread
             /\ f[m].author = m.author /\ (m.thread = t => f[m].live = FALSE)
             /\ (m.thread # t => f[m] = m)
  <2>1. PICK gone : gone = [m EXCEPT !.live = FALSE]
    OBVIOUS
  <2>2. /\ gone \in MessageRows /\ gone.id = m.id /\ gone.thread = m.thread
        /\ gone.author = m.author /\ gone.live = FALSE
    BY <1>8, <2>1 DEF MessageRows
  <2>3. f[m] = IF m.thread = t THEN gone ELSE m
    BY <1>7, <2>1
  <2> QED BY <1>8, <2>2, <2>3
<1>10. messages' = {f[m] : m \in messages}
  BY <1>7 DEF DeleteConversation
<1>11. f \in [messages -> MessageRows]
  BY <1>7, <1>9
<1>12. Numbered' /\ Ids' = Ids
  BY <1>9, <1>10, <1>11, Rewritten
<1>13. \A u \in Threads :
          /\ thread'[u].state = "absent" <=> thread[u].state = "absent"
          /\ thread'[u].private = thread[u].private
          /\ thread'[u].creator = thread[u].creator
          /\ thread'[u].participants = thread[u].participants
  BY <1>1, <1>3, <1>5, <1>6
<1>14. Authored'
  <2> SUFFICES ASSUME NEW m \in messages
        PROVE  /\ f[m] \in MessageRows /\ thread'[f[m].thread].state # "absent"
               /\ thread'[f[m].thread].state = "deleted" => ~f[m].live
               /\ f[m].author \in thread'[f[m].thread].participants
               /\ f[m].author \in Contacts /\ thread'[f[m].thread].private
                     => thread'[f[m].thread].creator \in Contacts
    BY <1>10 DEF Authored
  <2>1. /\ m \in MessageRows /\ thread[m.thread].state # "absent"
        /\ thread[m.thread].state = "deleted" => ~m.live
        /\ m.author \in thread[m.thread].participants
        /\ m.author \in Contacts /\ thread[m.thread].private
              => thread[m.thread].creator \in Contacts
    BY DEF CVInv, Authored
  <2>2. m.thread \in Threads
    BY <2>1, MessageIs
  <2>3. thread'[m.thread].state = "deleted" => ~f[m].live
    BY <1>5, <1>9, <2>1, <2>2
  <2> QED BY <1>9, <1>13, <2>1, <2>2, <2>3
<1>15. Announced'
  <2>1. announced' = announced
    BY DEF DeleteConversation
  <2> QED BY <1>12, <1>13, <2>1 DEF CVInv, Announced
<1>16. configured' = configured /\ open' = open
  BY DEF DeleteConversation
<1> QED BY <1>5, <1>12, <1>14, <1>15, <1>16 DEF CVInv

\* The setup, restores and restarts leave the threads alone.
LEMMA ThreadsKept ==
    ASSUME CVInv, thread' = thread, messages' = messages, announced' = announced,
           configured' \in BOOLEAN, open' \in BOOLEAN
    PROVE  CVInv'
<1>1. Numbered'
  BY DEF CVInv, Numbered
<1>2. Authored'
  BY DEF CVInv, Authored
<1>3. Ids' = Ids
  BY DEF Ids
<1>4. Announced'
  BY <1>3 DEF CVInv, Announced
<1> QED BY <1>1, <1>2, <1>4 DEF CVInv

LEMMA CVStep == CVInv /\ [CVNext]_convVars => CVInv'
<1> SUFFICES ASSUME CVInv, [CVNext]_convVars PROVE CVInv'
  OBVIOUS
<1>0. configured \in BOOLEAN /\ open \in BOOLEAN
  BY DEF CVInv
<1>1. ASSUME NEW t \in Threads, NEW who \in People,
             \E private, first \in BOOLEAN, others \in SUBSET People :
                CreateConversation(t, who, private, others, first)
      PROVE  CVInv'
  BY <1>1, CreateStep
<1>2. ASSUME NEW t \in Threads, NEW who \in People, AddMessage(t, who) PROVE CVInv'
  BY <1>2, AddStep
<1>3. ASSUME NEW t \in Threads, NEW who \in People, DeleteConversation(t, who) PROVE CVInv'
  BY <1>3, DeleteStep
<1>4. CASE FirstUser
  BY <1>0, <1>4, ThreadsKept DEF FirstUser
<1>5. CASE Restore
  BY <1>0, <1>5, ThreadsKept DEF Restore
<1>6. CASE Restart
  BY <1>0, <1>6, ThreadsKept DEF Restart
<1>7. CASE UNCHANGED convVars
  BY <1>0, <1>7, ThreadsKept DEF convVars
<1> QED BY <1>1, <1>2, <1>3, <1>4, <1>5, <1>6, <1>7 DEF CVNext, UseThread

\* What the invariant says of the threads.
LEMMA CVInvariant == CVInv => ThreadsAgree
<1> SUFFICES ASSUME CVInv PROVE ThreadsAgree
  OBVIOUS
<1>1. /\ thread \in [Threads -> ThreadRows]
      /\ \A m \in messages : m \in MessageRows /\ m.thread \in Threads
      /\ \A m \in messages : thread[m.thread] \in ThreadRows
  BY MessageIs DEF CVInv, Authored
<1>2. CVTypeOK
  <2>1. PICK n \in Nat : n = Cardinality(messages)
    BY FS_CardinalityType DEF CVInv, Numbered
  <2>2. \A m \in messages : m.id \in 1 .. MaxMessages
    BY <2>1 DEF CVInv, Numbered, ConversationsAssumption
  <2>3. \A m \in messages :
           m \in [id : 1 .. MaxMessages, thread : Threads, author : People, live : BOOLEAN]
    BY <1>1, <2>2 DEF MessageRows
  <2>4. /\ \A m \in messages : thread[m.thread].state # "absent"
        /\ \A m, k \in messages : m.id = k.id => m = k
        /\ announced \subseteq Threads \cup Ids /\ configured \in BOOLEAN /\ open \in BOOLEAN
    BY DEF CVInv, Authored, Numbered, Announced
  <2> QED BY <1>1, <2>3, <2>4 DEF CVTypeOK, ThreadRows
<1>3. ListAgreesWithGet
  BY <1>1, ThreadIs DEF CVInv, ConversationsAssumption, ListAgreesWithGet, Listed, Visible, People
<1>4. DeletedThreadsAreSilent /\ NotesStayInternal
  BY DEF CVInv, Authored, DeletedThreadsAreSilent, NotesStayInternal
<1>5. AuthorsKeepAccess
  <2> SUFFICES ASSUME NEW m \in messages, thread[m.thread].state = "live"
        PROVE  /\ m.author \in thread[m.thread].participants
               /\ \/ Visible(m.thread, m.author)
                  \/ thread[m.thread].private /\ thread[m.thread].creator \in Contacts
    BY DEF AuthorsKeepAccess
  <2>1. /\ m.author \in thread[m.thread].participants
        /\ m.author \in Contacts /\ thread[m.thread].private
              => thread[m.thread].creator \in Contacts
    BY DEF CVInv, Authored
  <2> QED BY <2>1 DEF Visible
<1>6. ThreadsAreAnnounced
  BY DEF CVInv, Announced, ThreadsAreAnnounced
<1> QED BY <1>2, <1>3, <1>4, <1>5, <1>6 DEF ThreadsAgree

(***************************************************************************)
(* The theorem.                                                            *)
(***************************************************************************)
\* A reader finds in the list the threads that can be opened, deleted threads
\* are silent, authors keep access, and internal notes stay internal.
THEOREM ThreadsHold == ConversationsAssumption /\ CVSpec => []ThreadsAgree
<1>1. CVInv /\ [CVNext]_convVars => CVInv'
  BY CVStep
<1> QED BY CVInitial, <1>1, CVInvariant, PTL DEF CVSpec

(***************************************************************************)
(* Notifications.                                                          *)
(***************************************************************************)
States == {"none", "ignored", "waiting", "done", "lost"}
Addresses == Trusted \cup {NoUrl}

Shapes ==
    /\ NotificationsAssumption
    /\ url \in [Operators -> Addresses]
    /\ post \in [Events -> [state : States, url : Addresses]]
    /\ received \in [Events -> SUBSET Trusted]
    /\ \A r \in rows : r.event \in Events

\* The one row of a webhook that is done with: it names the address that was
\* called, which has the event when the row says so.
RowOf(e, r) ==
    /\ WebhookRows(e) = {r}
    /\ r.recipient = post[e].url
    /\ r.status = "sent" => post[e].url \in received[e]

\* What the rows and the endpoints know of an event at each point of its way.
Told(e) ==
    /\ received[e] \subseteq {post[e].url}
    /\ post[e].state \in {"none", "ignored"} => received[e] = {}
    /\ post[e].state = "none" => post[e].url = NoUrl
    /\ post[e].state = "waiting" => post[e].url \in Trusted
    /\ post[e].state # "done" => WebhookRows(e) = {}
    /\ post[e].state = "done" => \E r : RowOf(e, r)

InFeed(e) == \E r \in rows : r.event = e /\ r.channel = "in_app"
Fed(e) == e \in Feeds /\ post[e].state \in {"waiting", "done", "lost"} => InFeed(e)

NoteInv == Shapes /\ \A e \in Events : Told(e) /\ Fed(e)

LEMMA NoteInitial == NotificationsAssumption /\ NoteInit => NoteInv
<1> SUFFICES ASSUME NotificationsAssumption, NoteInit PROVE NoteInv
  OBVIOUS
<1>1. Shapes
  BY DEF NoteInit, Shapes, States, Addresses
<1>2. ASSUME NEW e \in Events PROVE Told(e) /\ Fed(e)
  BY DEF NoteInit, Told, Fed, WebhookRows
<1> QED BY <1>1, <1>2 DEF NoteInv

(***************************************************************************)
(* What a step about one event leaves alone.                               *)
(***************************************************************************)
\* Rows are added, all of them about the event f.
Adds(new, f) == rows' = rows \cup new /\ \A r \in new : r.event = f

LEMMA OthersKept ==
    ASSUME NoteInv, NEW f \in Events, NEW new, Adds(new, f),
           NEW e \in Events, e # f, post'[e] = post[e], received'[e] = received[e]
    PROVE  (Told(e) /\ Fed(e))'
<1>1. WebhookRows(e)' = WebhookRows(e)
  BY DEF Adds, WebhookRows
<1>2. Told(e) /\ Fed(e)
  BY DEF NoteInv
<1>3. Told(e)'
  BY <1>1, <1>2 DEF Told, RowOf
<1>4. Fed(e)'
  BY <1>2 DEF Fed, InFeed, Adds
<1> QED BY <1>3, <1>4

\* A step that puts event f in another state.
LEMMA EventMoved ==
    ASSUME NoteInv, NEW f \in Events, NEW state \in States, NEW address \in Addresses,
           post' = [post EXCEPT ![f] = [state |-> state, url |-> address]],
           UNCHANGED <<url, received>>, NEW new, Adds(new, f),
           (Told(f) /\ Fed(f))'
    PROVE  NoteInv'
<1>1. Shapes
  BY DEF NoteInv
<1>2. /\ post' \in [Events -> [state : States, url : Addresses]]
      /\ \A e \in Events \ {f} : post'[e] = post[e]
  BY <1>1 DEF Shapes
<1>3. Shapes'
  BY <1>1, <1>2 DEF Shapes, NotificationsAssumption, Addresses, Adds
<1>4. ASSUME NEW e \in Events, e # f PROVE (Told(e) /\ Fed(e))'
  BY <1>2, <1>4, OthersKept
<1> QED BY <1>3, <1>4 DEF NoteInv

\* The record of an event whose state is written.
LEMMA WrittenRecord ==
    ASSUME NoteInv, NEW e \in Events, NEW status
    PROVE  Written(e, status) = [post EXCEPT ![e] = [state |-> status, url |-> post[e].url]]
<1>1. post[e] \in [state : States, url : Addresses] /\ DOMAIN post = Events
  BY DEF NoteInv, Shapes
<1>2. [post[e] EXCEPT !.state = status] = [state |-> status, url |-> post[e].url]
  BY <1>1
<1>3. Written(e, status) = [post EXCEPT ![e] = [post[e] EXCEPT !.state = status]]
  BY DEF Written
<1> QED BY <1>2, <1>3

(***************************************************************************)
(* The steps.                                                              *)
(***************************************************************************)
LEMMA SettingsKept ==
    ASSUME NoteInv, NEW o \in Operators, NEW given, UpdateSettings(o, given)
    PROVE  NoteInv'
<1> DEFINE merged == IF given = "same" THEN url[o] ELSE given
<1>1. /\ merged \in Addresses /\ url' = [url EXCEPT ![o] = merged]
      /\ UNCHANGED <<post, received, rows>>
  BY DEF UpdateSettings, Addresses
<1> HIDE DEF merged
<1>2. Shapes'
  BY <1>1 DEF NoteInv, Shapes, NotificationsAssumption, Addresses
<1>3. ASSUME NEW e \in Events PROVE (Told(e) /\ Fed(e))'
  BY <1>1 DEF NoteInv, Told, Fed, InFeed, RowOf, WebhookRows
<1> QED BY <1>2, <1>3 DEF NoteInv

LEMMA Notified == ASSUME NoteInv, NEW e \in Events, Notify(e) PROVE NoteInv'
<1> DEFINE o == OperatorOf[e]
<1>1. /\ post[e].state = "none" /\ UNCHANGED <<url, received>>
      /\ Shapes /\ Told(e) /\ Fed(e)
  BY DEF Notify, NoteInv
<1>2. received[e] = {} /\ WebhookRows(e) = {}
  BY <1>1 DEF Told
<1>3. post[e].url \in Addresses /\ NoUrl \in Addresses /\ DOMAIN post = Events
  BY <1>1 DEF Shapes, Addresses
<1>4. \A r \in Feed(e) : r.event = e /\ r.channel = "in_app"
  BY DEF Feed, Row
<1>5. e \in Feeds => \E r \in Feed(e) : r.event = e /\ r.channel = "in_app"
  BY DEF Feed, Row
<1>6. CASE o = NoOperator
  <2>1. rows' = rows /\ post' = [post EXCEPT ![e] = [state |-> "ignored", url |-> post[e].url]]
    BY <1>6, WrittenRecord DEF Notify
  <2>2. post'[e] = [state |-> "ignored", url |-> post[e].url]
    BY <1>3, <2>1
  <2>3. (Told(e) /\ Fed(e))'
    BY <1>1, <1>2, <2>1, <2>2 DEF Told, Fed, WebhookRows
  <2>4. Adds({}, e) /\ "ignored" \in States
    BY <2>1 DEF Adds, States
  <2> QED BY <1>1, <1>3, <2>1, <2>3, <2>4, EventMoved
<1>7. CASE o # NoOperator /\ url[o] = NoUrl
  <2> DEFINE r == Row(e, "webhook", NoUrl, "logged")
             new == Feed(e) \cup {r}
  <2>1. rows' = rows \cup Feed(e) \cup {r}
        /\ post' = [post EXCEPT ![e] = [state |-> "done", url |-> post[e].url]]
    BY <1>7, WrittenRecord DEF Notify
  <2>2. /\ r.event = e /\ r.channel = "webhook" /\ r.recipient = NoUrl
        /\ r.status = "logged"
    BY DEF Row
  <2> HIDE DEF r
  <2>3. post'[e] = [state |-> "done", url |-> post[e].url]
    BY <1>3, <2>1
  <2>4. Adds(new, e) /\ "done" \in States
    BY <1>4, <2>1, <2>2 DEF Adds, States
  <2>5. WebhookRows(e)' = {r}
    <3>1. "in_app" # "webhook"
      OBVIOUS
    <3> QED BY <1>2, <1>4, <2>1, <2>2, <3>1 DEF WebhookRows
  <2>6. post[e].url = NoUrl
    BY <1>1 DEF Told
  <2>7. RowOf(e, r)'
    BY <2>2, <2>3, <2>5, <2>6 DEF RowOf
  <2>8. received'[e] = {}
    BY <1>1, <1>2
  <2>9. Told(e)'
    BY <2>3, <2>7, <2>8 DEF Told
  <2>10. Fed(e)'
    BY <1>5, <2>1 DEF Fed, InFeed
  <2> HIDE DEF new
  <2> QED BY <1>1, <1>3, <2>1, <2>4, <2>9, <2>10, EventMoved
<1>8. CASE o # NoOperator /\ url[o] # NoUrl
  <2>1. /\ rows' = rows \cup Feed(e)
        /\ post' = [post EXCEPT ![e] = [state |-> "waiting", url |-> url[o]]]
    BY <1>8 DEF Notify
  <2>2. o \in Operators
    BY <1>1, <1>8 DEF Shapes, NotificationsAssumption
  <2>3. url[o] \in Trusted /\ url[o] \in Addresses /\ "waiting" \in States
    BY <1>1, <1>8, <2>2 DEF Shapes, Addresses, States
  <2>4. post'[e] = [state |-> "waiting", url |-> url[o]]
    BY <1>3, <2>1
  <2>5. WebhookRows(e)' = {}
    <3>1. "in_app" # "webhook"
      OBVIOUS
    <3> QED BY <1>2, <1>4, <2>1, <3>1 DEF WebhookRows
  <2>6. received'[e] = {}
    BY <1>1, <1>2
  <2>7. Told(e)'
    BY <2>3, <2>4, <2>5, <2>6 DEF Told
  <2>8. Fed(e)'
    BY <1>5, <2>1 DEF Fed, InFeed
  <2>9. Adds(Feed(e), e)
    BY <1>4, <2>1 DEF Adds
  <2> HIDE DEF o
  <2> QED BY <1>1, <2>1, <2>3, <2>7, <2>8, <2>9, EventMoved
<1> QED BY <1>6, <1>7, <1>8

LEMMA EndpointTook == ASSUME NoteInv, NEW e \in Events, EndpointTakes(e) PROVE NoteInv'
<1>1. /\ post[e].state = "waiting" /\ UNCHANGED <<url, post, rows>>
      /\ received' = [received EXCEPT ![e] = received[e] \cup {post[e].url}]
      /\ Shapes /\ Told(e) /\ Fed(e)
  BY DEF EndpointTakes, NoteInv
<1>2. post[e].url \in Trusted /\ received[e] \subseteq {post[e].url} /\ WebhookRows(e) = {}
  BY <1>1 DEF Told
<1>3. received \in [Events -> SUBSET Trusted]
  BY <1>1 DEF Shapes
<1>4. /\ received' \in [Events -> SUBSET Trusted] /\ received'[e] = {post[e].url}
      /\ \A f \in Events \ {e} : received'[f] = received[f]
  BY <1>1, <1>2, <1>3
<1>5. Shapes'
  BY <1>1, <1>4 DEF Shapes, NotificationsAssumption, Addresses
<1>6. (Told(e) /\ Fed(e))'
  BY <1>1, <1>2, <1>4 DEF Told, Fed, InFeed, WebhookRows
<1>7. ASSUME NEW f \in Events, f # e PROVE (Told(f) /\ Fed(f))'
  <2>1. Adds({}, e)
    BY <1>1 DEF Adds
  <2> QED BY <1>1, <1>4, <1>7, <2>1, OthersKept
<1> QED BY <1>5, <1>6, <1>7 DEF NoteInv

\* An answer, an error or the timeout: 'sent' is said of an endpoint that took
\* the event.
LEMMA Finished ==
    ASSUME NoteInv, NEW e \in Events, NEW status \in {"sent", "failed"},
           post[e].state = "waiting", Finish(e, status), UNCHANGED received,
           status = "sent" => post[e].url \in received[e]
    PROVE  NoteInv'
<1>0. PICK u, r : u = post[e].url /\ r = Row(e, "webhook", u, status)
  OBVIOUS
<1>1. /\ Shapes /\ Told(e) /\ Fed(e)
  BY DEF NoteInv
<1>2. /\ rows' = rows \cup {r} /\ UNCHANGED <<url, received>>
      /\ post' = [post EXCEPT ![e] = [state |-> "done", url |-> u]]
  BY <1>0, WrittenRecord DEF Finish
<1>3. u \in Addresses /\ DOMAIN post = Events /\ "done" \in States
  BY <1>0, <1>1 DEF Shapes, States
<1>4. post'[e] = [state |-> "done", url |-> u]
  BY <1>2, <1>3
<1>5. r.event = e /\ r.channel = "webhook" /\ r.recipient = u /\ r.status = status
  BY <1>0 DEF Row
<1>6. WebhookRows(e)' = {r}
  BY <1>1, <1>2, <1>5 DEF Told, WebhookRows
<1>7. RowOf(e, r)'
  BY <1>0, <1>2, <1>4, <1>5, <1>6 DEF RowOf
<1>8. received[e] \subseteq {u}
  BY <1>0, <1>1 DEF Told
<1>9. Told(e)'
  BY <1>2, <1>4, <1>7, <1>8 DEF Told
<1>10. Fed(e)'
  BY <1>1, <1>2 DEF Fed, InFeed
<1>11. Adds({r}, e)
  BY <1>2, <1>5 DEF Adds
<1> QED BY <1>2, <1>3, <1>9, <1>10, <1>11, EventMoved

LEMMA Stopped == ASSUME NoteInv, Stop PROVE NoteInv'
<1>1. Shapes /\ UNCHANGED <<url, received, rows>>
  BY DEF NoteInv, Stop
<1>2. ASSUME NEW e \in Events
      PROVE  /\ post'[e].url = post[e].url
             /\ post'[e] \in [state : States, url : Addresses]
             /\ post'[e].state = IF post[e].state = "waiting" THEN "lost" ELSE post[e].state
  <2>1. post[e] \in [state : States, url : Addresses]
    BY <1>1 DEF Shapes
  <2>2. post'[e] = IF post[e].state = "waiting" THEN [post[e] EXCEPT !.state = "lost"]
                   ELSE post[e]
    BY DEF Stop
  <2>3. "lost" \in States
    BY DEF States
  <2>4. CASE post[e].state = "waiting"
    <3>1. post'[e] = [state |-> "lost", url |-> post[e].url]
      BY <2>1, <2>2, <2>4
    <3> QED BY <2>1, <2>3, <2>4, <3>1
  <2> QED BY <2>1, <2>2, <2>4
<1>3. post' = [e \in Events |-> post'[e]]
  BY DEF Stop
<1>4. Shapes'
  BY <1>1, <1>2, <1>3 DEF Shapes, NotificationsAssumption, Addresses
<1>5. ASSUME NEW e \in Events PROVE (Told(e) /\ Fed(e))'
  <2>1. Told(e) /\ Fed(e)
    BY DEF NoteInv
  <2>2. WebhookRows(e)' = WebhookRows(e) /\ received'[e] = received[e]
    BY <1>1 DEF WebhookRows
  <2>3. \A r : RowOf(e, r) => RowOf(e, r)'
    BY <1>2, <2>2 DEF RowOf
  <2>4. Told(e)'
    BY <1>2, <2>1, <2>2, <2>3 DEF Told
  <2>5. Fed(e)'
    BY <1>1, <1>2, <2>1 DEF Fed, InFeed
  <2> QED BY <2>4, <2>5
<1> QED BY <1>4, <1>5 DEF NoteInv

LEMMA NoteStep == NoteInv /\ [NoteNext]_noteVars => NoteInv'
<1> SUFFICES ASSUME NoteInv, [NoteNext]_noteVars PROVE NoteInv'
  OBVIOUS
<1>1. ASSUME NEW o \in Operators, NEW given \in Urls \cup {NoUrl, "same"},
             UpdateSettings(o, given)
      PROVE  NoteInv'
  BY <1>1, SettingsKept
<1>2. ASSUME NEW e \in Events, Notify(e) PROVE NoteInv'
  BY <1>2, Notified
<1>3. ASSUME NEW e \in Events, EndpointTakes(e) PROVE NoteInv'
  BY <1>3, EndpointTook
<1>4. ASSUME NEW e \in Events, Answered(e) PROVE NoteInv'
  BY <1>4, Finished DEF Answered
<1>5. ASSUME NEW e \in Events, FailedOrLate(e) PROVE NoteInv'
  BY <1>5, Finished DEF FailedOrLate
<1>6. CASE Stop
  BY <1>6, Stopped
<1>7. CASE UNCHANGED noteVars
  <2>1. UNCHANGED <<url, post, received, rows>>
    BY <1>7 DEF noteVars
  <2>2. Shapes'
    BY <2>1 DEF NoteInv, Shapes, NotificationsAssumption, Addresses
  <2>3. ASSUME NEW e \in Events PROVE (Told(e) /\ Fed(e))'
    BY <2>1 DEF NoteInv, Told, Fed, InFeed, RowOf, WebhookRows
  <2> QED BY <2>2, <2>3 DEF NoteInv
<1> QED BY <1>1, <1>2, <1>3, <1>4, <1>5, <1>6, <1>7 DEF NoteNext

(***************************************************************************)
(* The theorems.                                                           *)
(***************************************************************************)
LEMMA NoteInvariant == NotificationsAssumption /\ NoteSpec => []NoteInv
<1>1. NotificationsAssumption /\ NoteInit => NoteInv
  BY NoteInitial
<1> QED BY <1>1, NoteStep, PTL DEF NoteSpec

LEMMA NoteImplies == NoteInv => RowsTellTheTruth /\ OnlyTrustedEndpoints /\ FeedComesFirst
<1> SUFFICES ASSUME NoteInv PROVE RowsTellTheTruth /\ OnlyTrustedEndpoints /\ FeedComesFirst
  OBVIOUS
<1>1. \A e \in Events : Told(e) /\ Fed(e)
  BY DEF NoteInv
<1>2. received \in [Events -> SUBSET Trusted]
      /\ \A e \in Events : post[e].state \in States
  BY DEF NoteInv, Shapes
<1>3. ASSUME NEW e \in Events
      PROVE  /\ \A r \in WebhookRows(e) :
                  /\ r.recipient = post[e].url /\ WebhookRows(e) = {r}
                  /\ r.status = "sent" => r.recipient \in received[e]
             /\ received[e] \subseteq {post[e].url}
  BY <1>1 DEF Told, RowOf
<1>4. ASSUME NEW e \in Events, NEW S, NEW x, S \subseteq {x} PROVE Cardinality(S) <= 1
  <2>1. CASE S = {}
    BY <2>1, FS_EmptySet
  <2>2. CASE S = {x}
    <3>1. Cardinality({x}) = 1
      BY FS_Singleton
    <3> QED BY <2>2, <3>1
  <2> QED BY <1>4, <2>1, <2>2
<1>5. RowsTellTheTruth
  <2>1. ASSUME NEW r \in rows, r.event \in Events, r.channel = "webhook", r.status = "sent"
        PROVE  r.recipient \in received[r.event]
    BY <1>3, <2>1 DEF WebhookRows
  <2>2. \A r \in rows : r.event \in Events
    BY DEF NoteInv, Shapes
  <2>3. ASSUME NEW e \in Events
        PROVE  Cardinality(WebhookRows(e)) <= 1 /\ Cardinality(received[e]) <= 1
    <3>1. \E x : WebhookRows(e) \subseteq {x}
      BY <1>3
    <3> QED BY <1>3, <1>4, <3>1
  <2>4. ASSUME NEW e \in Events, NEW w \in received[e], NEW r \in WebhookRows(e)
        PROVE  r.recipient = w
    BY <1>3
  <2> QED BY <2>1, <2>2, <2>3, <2>4 DEF RowsTellTheTruth
<1>6. OnlyTrustedEndpoints
  BY <1>2 DEF OnlyTrustedEndpoints
<1>7. FeedComesFirst
  BY <1>1, <1>2 DEF FeedComesFirst, Told, Fed, InFeed, States, NoteInv, Shapes, NotificationsAssumption
<1> QED BY <1>5, <1>6, <1>7

\* Whatever the operators, the settings and the endpoints do, a row that says
\* 'sent' names an address that has the event, each event goes to one address
\* and has one row, and the row names that address.
THEOREM RowsTold == NotificationsAssumption /\ NoteSpec => []RowsTellTheTruth
BY NoteInvariant, NoteImplies, PTL

\* No event reaches an address that is neither https nor of the loopback.
THEOREM TrustedOnly == NotificationsAssumption /\ NoteSpec => []OnlyTrustedEndpoints
BY NoteInvariant, NoteImplies, PTL

\* The feed has an event before any endpoint has.
THEOREM FeedFirst == NotificationsAssumption /\ NoteSpec => []FeedComesFirst
BY NoteInvariant, NoteImplies, PTL

(***************************************************************************)
(* Units and the properties and buildings that they name.                  *)
(***************************************************************************)
PropertyRows == [portfolio : Portfolios \cup {None}, live : BOOLEAN]
BuildingRows(ps) == [property : ps, live : BOOLEAN]
UnitRows(ps) ==
    [property : ps, building : Buildings \cup {None}, status : Statuses, live : BOOLEAN]
LeaseRows(us) == [unit : us, status : {"draft", "active", "terminated"}]
LeaseEvents(us) == [type : DOMAIN StatusOf, unit : us]

\* RUTypeOK, table by table.
LEMMA Types ==
    RUTypeOK <=>
        /\ DOMAIN properties \subseteq Properties
        /\ DOMAIN buildings \subseteq Buildings
        /\ DOMAIN units \subseteq Units
        /\ DOMAIN leases \subseteq Leases
        /\ \A p \in DOMAIN properties : properties[p] \in PropertyRows
        /\ \A b \in DOMAIN buildings : buildings[b] \in BuildingRows(DOMAIN properties)
        /\ \A u \in DOMAIN units : units[u] \in UnitRows(DOMAIN properties)
        /\ \A l \in DOMAIN leases : leases[l] \in LeaseRows(DOMAIN units)
        /\ events \in Seq(LeaseEvents(DOMAIN units))
        /\ asked \in [Units -> Statuses]
BY DEF RUTypeOK, PropertyRows, BuildingRows, UnitRows, LeaseRows, LeaseEvents

\* Rows that name rows of a table name rows of a table that grew.
LEMMA Grown ==
    ASSUME NEW S, NEW T, S \subseteq T
    PROVE  /\ BuildingRows(S) \subseteq BuildingRows(T)
           /\ UnitRows(S) \subseteq UnitRows(T)
           /\ LeaseRows(S) \subseteq LeaseRows(T)
           /\ Seq(LeaseEvents(S)) \subseteq Seq(LeaseEvents(T))
<1>1. LeaseEvents(S) \subseteq LeaseEvents(T)
  BY DEF LeaseEvents
<1>2. Seq(LeaseEvents(S)) \subseteq Seq(LeaseEvents(T))
  BY <1>1
<1> QED BY <1>2 DEF BuildingRows, UnitRows, LeaseRows

LEMMA Initial == RUInit => RUTypeOK /\ BuildingsAgree
BY DEF RUInit, RUTypeOK, BuildingsAgree, Statuses

\* A write of the status of a live unit, by an edit or by an event.
LEMMA StatusWritten ==
    ASSUME RUTypeOK, BuildingsAgree, NEW u \in DOMAIN units, NEW status \in Statuses,
           units' = [units EXCEPT ![u].status = status],
           \/ /\ events' = events
              /\ asked' = [asked EXCEPT ![u] = status]
           \/ /\ events' \in Seq(LeaseEvents(DOMAIN units))
              /\ asked' \in [Units -> Statuses],
           UNCHANGED <<properties, buildings, leases>>
    PROVE  RUTypeOK' /\ BuildingsAgree'
<1>1. /\ DOMAIN units' = DOMAIN units
      /\ \A v \in DOMAIN units : v # u => units'[v] = units[v]
      /\ units'[u] = [units[u] EXCEPT !.status = status]
  OBVIOUS
<1>2. units[u] \in UnitRows(DOMAIN properties)
  BY Types
<1>3. /\ units'[u] \in UnitRows(DOMAIN properties)
      /\ units'[u].property = units[u].property
      /\ units'[u].building = units[u].building
      /\ units'[u].live = units[u].live
  BY <1>1, <1>2 DEF UnitRows
<1>4. \A v \in DOMAIN units' : units'[v] \in UnitRows(DOMAIN properties)
  BY <1>1, <1>3, Types
<1>5. events' \in Seq(LeaseEvents(DOMAIN units)) /\ asked' \in [Units -> Statuses]
  BY Types
<1>6. RUTypeOK'
  BY <1>1, <1>4, <1>5 DEF RUTypeOK, UnitRows, LeaseEvents
<1>7. BuildingsAgree'
  BY <1>1, <1>3 DEF BuildingsAgree, Live
<1> QED BY <1>6, <1>7

(***************************************************************************)
(* Properties and buildings.                                               *)
(***************************************************************************)
LEMMA PropertySteps ==
    ASSUME RUTypeOK, BuildingsAgree, NEW p \in Properties
    PROVE  /\ \A portfolio \in Portfolios \cup {None} :
                 CreateProperty(p, portfolio) \/ UpdateProperty(p, portfolio)
                    => RUTypeOK' /\ BuildingsAgree'
           /\ DeleteProperty(p) => RUTypeOK' /\ BuildingsAgree'
<1>1. ASSUME NEW portfolio \in Portfolios \cup {None}, CreateProperty(p, portfolio)
      PROVE  RUTypeOK' /\ BuildingsAgree'
  <2>1. DOMAIN properties' = DOMAIN properties \cup {p}
    BY <1>1 DEF CreateProperty, WithRow
  <2>2. \A q \in DOMAIN properties' : properties'[q] \in PropertyRows
    BY <1>1, <2>1, Types DEF CreateProperty, WithRow, PropertyRows
  <2>3. UNCHANGED <<buildings, units, leases, events, asked>>
    BY <1>1 DEF CreateProperty
  <2>4. RUTypeOK'
    BY <2>1, <2>2, <2>3, Grown, Types DEF RUTypeOK, PropertyRows, BuildingRows, UnitRows
  <2> QED BY <2>3, <2>4 DEF BuildingsAgree, Live
<1>2. ASSUME NEW portfolio \in Portfolios \cup {None}, UpdateProperty(p, portfolio)
      PROVE  RUTypeOK' /\ BuildingsAgree'
  BY <1>2 DEF UpdateProperty, RUTypeOK, BuildingsAgree, Live
<1>3. ASSUME DeleteProperty(p) PROVE RUTypeOK' /\ BuildingsAgree'
  <2>1. RUTypeOK'
    BY <1>3 DEF DeleteProperty, RUTypeOK
  <2>2. BuildingsAgree'
    BY <1>3 DEF DeleteProperty, BuildingsAgree, Live
  <2> QED BY <2>1, <2>2
<1> QED BY <1>1, <1>2, <1>3

LEMMA BuildingSteps ==
    ASSUME RUTypeOK, BuildingsAgree, NEW b \in Buildings
    PROVE  /\ \A p \in Properties : CreateBuilding(b, p) => RUTypeOK' /\ BuildingsAgree'
           /\ DeleteBuilding(b) => RUTypeOK' /\ BuildingsAgree'
<1> USE RentalUnitsAssumption
<1>1. ASSUME NEW p \in Properties, CreateBuilding(b, p)
      PROVE  RUTypeOK' /\ BuildingsAgree'
  <2>1. /\ DOMAIN buildings' = DOMAIN buildings \cup {b}
        /\ buildings'[b] = [property |-> p, live |-> TRUE]
        /\ \A c \in DOMAIN buildings : c # b => buildings'[c] = buildings[c]
        /\ b \notin DOMAIN buildings /\ p \in DOMAIN properties
    BY <1>1 DEF CreateBuilding, WithRow
  <2>2. UNCHANGED <<properties, units, leases, events, asked>>
    BY <1>1 DEF CreateBuilding
  <2>3. RUTypeOK'
    <3>1. [property |-> p, live |-> TRUE] \in BuildingRows(DOMAIN properties)
      BY <2>1 DEF BuildingRows
    <3>2. \A c \in DOMAIN buildings' : buildings'[c] \in BuildingRows(DOMAIN properties)
      BY <2>1, <3>1, Types
    <3> QED BY <2>1, <2>2, <3>2 DEF RUTypeOK, BuildingRows
  <2>4. BuildingsAgree'
    BY <2>1, <2>2 DEF BuildingsAgree, Live
  <2> QED BY <2>3, <2>4
<1>2. ASSUME DeleteBuilding(b) PROVE RUTypeOK' /\ BuildingsAgree'
  <2>1. /\ DOMAIN units' = DOMAIN units
        /\ \A u \in DOMAIN units :
              units'[u] = IF units[u].live /\ units[u].building = b
                          THEN [units[u] EXCEPT !.building = None] ELSE units[u]
    BY <1>2 DEF DeleteBuilding
  <2>2. /\ DOMAIN buildings' = DOMAIN buildings
        /\ \A c \in DOMAIN buildings :
              buildings'[c] = IF c = b THEN [buildings[c] EXCEPT !.live = FALSE]
                              ELSE buildings[c]
        /\ UNCHANGED <<properties, leases, events, asked>>
    BY <1>2 DEF DeleteBuilding
  <2>3. \A u \in DOMAIN units : units[u] \in UnitRows(DOMAIN properties)
    BY Types
  <2>4. \A u \in DOMAIN units : units'[u] \in UnitRows(DOMAIN properties)
    BY <2>1, <2>3 DEF UnitRows
  <2>5. \A c \in DOMAIN buildings : buildings'[c] \in BuildingRows(DOMAIN properties)
    BY <2>2, Types DEF BuildingRows
  <2>6. RUTypeOK'
    BY <2>1, <2>2, <2>4, <2>5 DEF RUTypeOK, UnitRows, BuildingRows
  <2>7. BuildingsAgree'
    <3>1. SUFFICES ASSUME NEW u \in DOMAIN units, units'[u].live, units'[u].building # None
                   PROVE  /\ Live(buildings', units'[u].building)
                          /\ buildings'[units'[u].building].property = units'[u].property
      BY <2>1 DEF BuildingsAgree, Live
    <3>2. units'[u] = units[u] /\ units[u].building # b
      BY <2>1, <2>3, <3>1 DEF UnitRows
    <3> QED BY <2>2, <3>1, <3>2 DEF BuildingsAgree, Live
  <2> QED BY <2>6, <2>7
<1> QED BY <1>1, <1>2

(***************************************************************************)
(* Units.                                                                  *)
(***************************************************************************)
LEMMA UnitSteps ==
    ASSUME RUTypeOK, BuildingsAgree, NEW u \in Units
    PROVE  /\ \A p \in Properties, b \in Buildings \cup {None} :
                 /\ MoveUnit(u, p, b) => RUTypeOK' /\ BuildingsAgree'
                 /\ \A status \in {"vacant"} \cup UnitStates :
                       CreateUnit(u, p, b, status) => RUTypeOK' /\ BuildingsAgree'
           /\ \A status \in UnitStates : EditStatus(u, status) => RUTypeOK' /\ BuildingsAgree'
           /\ DeleteUnit(u) => RUTypeOK' /\ BuildingsAgree'
<1>1. ASSUME NEW p \in Properties, NEW b \in Buildings \cup {None},
             NEW status \in {"vacant"} \cup UnitStates, CreateUnit(u, p, b, status)
      PROVE  RUTypeOK' /\ BuildingsAgree'
  <2> DEFINE row == [property |-> p, building |-> b, status |-> status, live |-> TRUE]
  <2>1. /\ DOMAIN units' = DOMAIN units \cup {u}
        /\ units'[u] = row
        /\ \A v \in DOMAIN units : v # u => units'[v] = units[v]
        /\ p \in DOMAIN properties
    BY <1>1 DEF CreateUnit, WithRow
  <2>2. /\ UNCHANGED <<properties, buildings, leases, events>> /\ Fits(b, p)
        /\ asked' = [asked EXCEPT ![u] = status]
    BY <1>1 DEF CreateUnit
  <2>3. row \in UnitRows(DOMAIN properties)
    BY <2>1 DEF UnitRows, Statuses
  <2>4. \A v \in DOMAIN units' : units'[v] \in UnitRows(DOMAIN properties)
    BY <2>1, <2>3, Types
  <2>5. \A l \in DOMAIN leases : leases[l] \in LeaseRows(DOMAIN units')
    BY <2>1, Grown, Types
  <2>6. events \in Seq(LeaseEvents(DOMAIN units'))
    BY <2>1, Grown, Types
  <2>7. RUTypeOK'
    <3>1. asked' \in [Units -> Statuses]
      BY <2>2, Types DEF Statuses
    <3> QED BY <2>1, <2>2, <2>4, <2>5, <2>6, <3>1 DEF RUTypeOK, UnitRows, LeaseRows, LeaseEvents
  <2>8. BuildingsAgree'
    BY <2>1, <2>2 DEF BuildingsAgree, Live, Fits
  <2> QED BY <2>7, <2>8
<1>2. ASSUME NEW p \in Properties, NEW b \in Buildings \cup {None}, MoveUnit(u, p, b)
      PROVE  RUTypeOK' /\ BuildingsAgree'
  <2>1. /\ u \in DOMAIN units /\ DOMAIN units' = DOMAIN units
        /\ units'[u] = [units[u] EXCEPT !.property = p, !.building = b]
        /\ \A v \in DOMAIN units : v # u => units'[v] = units[v]
        /\ p \in DOMAIN properties
    BY <1>2 DEF MoveUnit, Live
  <2>2. UNCHANGED <<properties, buildings, leases, events, asked>> /\ Fits(b, p)
    BY <1>2 DEF MoveUnit
  <2>3. units[u] \in UnitRows(DOMAIN properties)
    BY <2>1, Types
  <2>4. /\ units'[u] \in UnitRows(DOMAIN properties)
        /\ units'[u].property = p /\ units'[u].building = b
    BY <2>1, <2>3 DEF UnitRows
  <2>5. \A v \in DOMAIN units' : units'[v] \in UnitRows(DOMAIN properties)
    BY <2>1, <2>4, Types
  <2>6. RUTypeOK'
    BY <2>1, <2>2, <2>5 DEF RUTypeOK, UnitRows
  <2>7. BuildingsAgree'
    BY <2>1, <2>2, <2>4 DEF BuildingsAgree, Live, Fits
  <2> QED BY <2>6, <2>7
<1>3. ASSUME NEW status \in UnitStates, EditStatus(u, status)
      PROVE  RUTypeOK' /\ BuildingsAgree'
  BY <1>3, StatusWritten DEF EditStatus, Live, Statuses
<1>4. ASSUME DeleteUnit(u) PROVE RUTypeOK' /\ BuildingsAgree'
  <2>1. /\ u \in DOMAIN units /\ DOMAIN units' = DOMAIN units
        /\ units'[u] = [units[u] EXCEPT !.live = FALSE]
        /\ \A v \in DOMAIN units : v # u => units'[v] = units[v]
        /\ UNCHANGED <<properties, buildings, leases, events, asked>>
    BY <1>4 DEF DeleteUnit, Live
  <2>2. units'[u] \in UnitRows(DOMAIN properties) /\ ~units'[u].live
    BY <2>1, Types DEF UnitRows
  <2>3. \A v \in DOMAIN units' : units'[v] \in UnitRows(DOMAIN properties)
    BY <2>1, <2>2, Types
  <2>4. RUTypeOK'
    BY <2>1, <2>3 DEF RUTypeOK, UnitRows
  <2>5. BuildingsAgree'
    BY <2>1, <2>2 DEF BuildingsAgree, Live
  <2> QED BY <2>4, <2>5
<1> QED BY <1>1, <1>2, <1>3, <1>4

(***************************************************************************)
(* Leases and their events.                                                *)
(***************************************************************************)
LEMMA LeaseSteps ==
    ASSUME RUTypeOK, BuildingsAgree, NEW l \in Leases
    PROVE  /\ \A u \in Units : CreateLease(l, u) => RUTypeOK' /\ BuildingsAgree'
           /\ Activate(l) \/ Terminate(l) => RUTypeOK' /\ BuildingsAgree'
           /\ PutLease(l, "active") => RUTypeOK' /\ BuildingsAgree'
<1>1. ASSUME NEW u \in Units, CreateLease(l, u) PROVE RUTypeOK' /\ BuildingsAgree'
  <2>1. /\ DOMAIN leases' = DOMAIN leases \cup {l} /\ u \in DOMAIN units
        /\ leases'[l] = [unit |-> u, status |-> "draft"]
        /\ \A m \in DOMAIN leases : m # l => leases'[m] = leases[m]
        /\ UNCHANGED <<properties, buildings, units, events, asked>>
    BY <1>1 DEF CreateLease, WithRow
  <2>2. \A m \in DOMAIN leases' : leases'[m] \in LeaseRows(DOMAIN units)
    BY <2>1, Types DEF LeaseRows
  <2> QED BY <2>1, <2>2 DEF RUTypeOK, LeaseRows, BuildingsAgree, Live
<1>2. ASSUME NEW status \in {"active", "terminated"}, NEW type \in DOMAIN StatusOf,
             Announce(l, status, type)
      PROVE  RUTypeOK' /\ BuildingsAgree'
  <2>1. /\ l \in DOMAIN leases /\ leases' = [leases EXCEPT ![l].status = status]
        /\ events' = Append(events, [type |-> type, unit |-> leases[l].unit])
        /\ UNCHANGED <<properties, buildings, units>>
    BY <1>2 DEF Announce, assets
  <2>2. leases[l] \in LeaseRows(DOMAIN units) /\ leases[l].unit \in DOMAIN units
    BY <2>1, Types DEF LeaseRows
  <2>3. \A m \in DOMAIN leases' : leases'[m] \in LeaseRows(DOMAIN units)
    BY <2>1, <2>2, Types DEF LeaseRows
  <2>4. events' \in Seq(LeaseEvents(DOMAIN units))
    <3>1. [type |-> type, unit |-> leases[l].unit] \in LeaseEvents(DOMAIN units)
      BY <2>2 DEF LeaseEvents
    <3> QED BY <2>1, <3>1, Types
  <2>5. StatusOf[type] \in Statuses
    BY DEF StatusOf, Statuses
  <2>6. asked' \in [Units -> Statuses]
    BY <1>2, <2>5, Types DEF Announce
  <2>7. DOMAIN leases' = DOMAIN leases
    BY <2>1
  <2> QED BY <2>1, <2>3, <2>4, <2>6, <2>7
          DEF RUTypeOK, LeaseRows, LeaseEvents, BuildingsAgree, Live
<1>3. ASSUME PutLease(l, "active") PROVE RUTypeOK' /\ BuildingsAgree'
  BY <1>3 DEF PutLease, RUTypeOK, BuildingsAgree, Live
<1>4. "activated" \in DOMAIN StatusOf /\ "terminated" \in DOMAIN StatusOf
  BY DEF StatusOf
<1> QED BY <1>1, <1>2, <1>3, <1>4 DEF Activate, Terminate

LEMMA DeliverStep ==
    ASSUME RUTypeOK, BuildingsAgree, Deliver
    PROVE  RUTypeOK' /\ BuildingsAgree'
<1> DEFINE event == Head(events)
<1>1. /\ events # <<>> /\ events' = Tail(events)
      /\ UNCHANGED <<properties, buildings, leases, asked>>
  BY DEF Deliver
<1>2. event \in LeaseEvents(DOMAIN units) /\ events' \in Seq(LeaseEvents(DOMAIN units))
  BY <1>1, Types
<1>3. StatusOf[event.type] \in Statuses
  BY <1>2 DEF LeaseEvents, StatusOf, Statuses
<1>4. CASE Live(units, event.unit)
  <2>1. units' = [units EXCEPT ![event.unit].status = StatusOf[event.type]]
    BY <1>4 DEF Deliver
  <2>2. asked' \in [Units -> Statuses]
    BY <1>1, Types
  <2> QED BY <1>1, <1>2, <1>3, <1>4, <2>1, <2>2, StatusWritten DEF Live
<1>5. CASE ~Live(units, event.unit)
  <2>1. units' = units
    BY <1>5 DEF Deliver
  <2> QED BY <1>1, <1>2, <2>1 DEF RUTypeOK, LeaseEvents, BuildingsAgree, Live
<1> QED BY <1>4, <1>5

(***************************************************************************)
(* The theorems.                                                           *)
(***************************************************************************)
LEMMA Step == RUTypeOK /\ BuildingsAgree /\ [RUNext]_ruVars => RUTypeOK' /\ BuildingsAgree'
<1> SUFFICES ASSUME RUTypeOK, BuildingsAgree, [RUNext]_ruVars
             PROVE  RUTypeOK' /\ BuildingsAgree'
  OBVIOUS
<1>1. CASE ManageAssets
  BY <1>1, PropertySteps, BuildingSteps, UnitSteps DEF ManageAssets
<1>2. CASE Announcements
  BY <1>2, LeaseSteps, DeliverStep DEF Announcements
<1>3. CASE Edits
  BY <1>3, UnitSteps DEF Edits
<1>4. CASE UNCHANGED ruVars
  BY <1>4 DEF ruVars, RUTypeOK, BuildingsAgree, Live
<1> QED BY <1>1, <1>2, <1>3, <1>4 DEF RUNext

\* Rows keep the columns of the schema and name rows that exist: soft deletion
\* never leaves a reference to nothing (properties/backend/repository.ts).
THEOREM RowsTyped == RUSpec => []RUTypeOK
<1>1. RUSpec => [](RUTypeOK /\ BuildingsAgree)
  BY Initial, Step, PTL DEF RUSpec
<1> QED BY <1>1, PTL

\* However many buildings and units are made, moved and deleted: the building
\* of a live unit is live and on the unit's property (createUnit, updateUnit,
\* deleteBuilding).
THEOREM Housed == RUSpec => []BuildingsAgree
<1>1. RUSpec => [](RUTypeOK /\ BuildingsAgree)
  BY Initial, Step, PTL DEF RUSpec
<1> QED BY <1>1, PTL

(***************************************************************************)
(* The status of units.  What was asked of a unit last is in its row or in *)
(* the last event about it that waits.                                     *)
(***************************************************************************)
Silent(u) == \A i \in 1 .. Len(events) : events[i].unit # u
IsLast(i, u) == events[i].unit = u /\ \A j \in (i + 1) .. Len(events) : events[j].unit # u
LastAsked ==
    \A u \in DOMAIN units : units[u].live =>
        /\ Silent(u) => units[u].status = asked[u]
        /\ \A i \in 1 .. Len(events) : IsLast(i, u) => StatusOf[events[i].type] = asked[u]

StatusInv ==
    /\ RUTypeOK /\ BuildingsAgree
    /\ LastAsked

\* Events are about units that exist.
LEMMA EventUnits ==
    ASSUME RUTypeOK, NEW i \in 1 .. Len(events)
    PROVE  events[i] \in LeaseEvents(DOMAIN units) /\ events[i].unit \in DOMAIN units
<1>1. events \in Seq(LeaseEvents(DOMAIN units))
  BY Types
<1>2. events[i] \in LeaseEvents(DOMAIN units)
  BY <1>1
<1> QED BY <1>2 DEF LeaseEvents

\* What the management of assets does to the status of units.
LEMMA AssetsKeepStatus ==
    ASSUME RUTypeOK, ManageAssets
    PROVE  /\ UNCHANGED events /\ DOMAIN units \subseteq DOMAIN units'
           /\ \A u \in DOMAIN units' : units'[u].live =>
                \/ /\ u \in DOMAIN units /\ units[u].live
                   /\ units'[u].status = units[u].status /\ asked'[u] = asked[u]
                \/ u \notin DOMAIN units /\ units'[u].status = asked'[u]
<1>1. ASSUME NEW p \in Properties, NEW portfolio \in Portfolios \cup {None},
             CreateProperty(p, portfolio) \/ UpdateProperty(p, portfolio)
      PROVE  UNCHANGED <<units, events, asked>>
  BY <1>1 DEF CreateProperty, UpdateProperty
<1>2. ASSUME NEW p \in Properties, DeleteProperty(p) PROVE UNCHANGED <<units, events, asked>>
  BY <1>2 DEF DeleteProperty
<1>3. ASSUME NEW b \in Buildings, NEW p \in Properties, CreateBuilding(b, p)
      PROVE  UNCHANGED <<units, events, asked>>
  BY <1>3 DEF CreateBuilding
<1>4. ASSUME NEW b \in Buildings, DeleteBuilding(b)
      PROVE  /\ UNCHANGED <<events, asked>> /\ DOMAIN units' = DOMAIN units
             /\ \A u \in DOMAIN units :
                   units'[u].live = units[u].live /\ units'[u].status = units[u].status
  <2>1. \A u \in DOMAIN units : units[u] \in UnitRows(DOMAIN properties)
    BY Types
  <2> QED BY <1>4, <2>1 DEF DeleteBuilding, UnitRows
<1>5. ASSUME NEW u \in Units, NEW p \in Properties, NEW b \in Buildings \cup {None},
             NEW status \in {"vacant"} \cup UnitStates, CreateUnit(u, p, b, status)
      PROVE  /\ UNCHANGED events /\ DOMAIN units' = DOMAIN units \cup {u}
             /\ u \notin DOMAIN units /\ units'[u].status = asked'[u]
             /\ \A v \in DOMAIN units : units'[v] = units[v] /\ asked'[v] = asked[v]
  <2>1. asked \in [Units -> Statuses] /\ DOMAIN units \subseteq Units
    BY DEF RUTypeOK
  <2> QED BY <1>5, <2>1 DEF CreateUnit, WithRow
<1>6. ASSUME NEW u \in Units, NEW p \in Properties, NEW b \in Buildings \cup {None},
             MoveUnit(u, p, b)
      PROVE  /\ UNCHANGED <<events, asked>> /\ DOMAIN units' = DOMAIN units
             /\ \A v \in DOMAIN units :
                   units'[v].live = units[v].live /\ units'[v].status = units[v].status
  <2>1. \A v \in DOMAIN units : units[v] \in UnitRows(DOMAIN properties)
    BY Types
  <2> QED BY <1>6, <2>1 DEF MoveUnit, UnitRows
<1>7. ASSUME NEW u \in Units, DeleteUnit(u)
      PROVE  /\ UNCHANGED <<events, asked>> /\ DOMAIN units' = DOMAIN units
             /\ \A v \in DOMAIN units : units'[v].live =>
                   units[v].live /\ units'[v].status = units[v].status
  <2>1. \A v \in DOMAIN units : units[v] \in UnitRows(DOMAIN properties)
    BY Types
  <2> QED BY <1>7, <2>1 DEF DeleteUnit, UnitRows
<1> QED BY <1>1, <1>2, <1>3, <1>4, <1>5, <1>6, <1>7 DEF ManageAssets

LEMMA StatusInitial == RUInit => StatusInv
BY Initial DEF RUInit, StatusInv, LastAsked

LEMMA AssetsStep == ASSUME StatusInv, RUTypeOK', ManageAssets PROVE LastAsked'
<1>1. RUTypeOK /\ LastAsked
  BY DEF StatusInv
<1>2. UNCHANGED events /\ DOMAIN units \subseteq DOMAIN units'
  BY <1>1, AssetsKeepStatus
<1>4. ASSUME NEW u \in DOMAIN units', units'[u].live
      PROVE  /\ Silent(u)' => units'[u].status = asked'[u]
             /\ \A i \in 1 .. Len(events') :
                  IsLast(i, u)' => StatusOf[events'[i].type] = asked'[u]
  <2>1. CASE /\ u \in DOMAIN units /\ units[u].live
             /\ units'[u].status = units[u].status /\ asked'[u] = asked[u]
    BY <1>1, <1>2, <2>1 DEF LastAsked, Silent, IsLast
  <2>2. CASE u \notin DOMAIN units /\ units'[u].status = asked'[u]
    <3>1. \A i \in 1 .. Len(events) : events[i].unit # u
      BY <1>1, <2>2, EventUnits
    <3> QED BY <1>2, <2>2, <3>1 DEF IsLast
  <2> QED BY <1>1, <1>4, <2>1, <2>2, AssetsKeepStatus
<1> QED BY <1>1, <1>2, <1>4 DEF LastAsked

LEMMA AnnounceStep ==
    ASSUME StatusInv, NEW l \in Leases, NEW status, NEW type \in DOMAIN StatusOf,
           Announce(l, status, type)
    PROVE  LastAsked'
<1> DEFINE v == leases[l].unit
           n == Len(events)
<1>1. RUTypeOK /\ LastAsked
  BY DEF StatusInv
<1>2. /\ UNCHANGED units
      /\ events' = Append(events, [type |-> type, unit |-> v])
      /\ asked' = IF Live(units, v) THEN [asked EXCEPT ![v] = StatusOf[type]] ELSE asked
      /\ l \in DOMAIN leases
  BY DEF Announce, assets
<1>3. v \in DOMAIN units /\ DOMAIN units \subseteq Units /\ asked \in [Units -> Statuses]
  BY <1>1, <1>2 DEF RUTypeOK
<1>4. events \in Seq(LeaseEvents(DOMAIN units))
  BY <1>1, Types
<1>5. /\ n \in Nat /\ Len(events') = n + 1
      /\ events'[n + 1].unit = v /\ events'[n + 1].type = type
      /\ \A i \in 1 .. n : events'[i] = events[i]
  BY <1>2, <1>4
<1>6. ASSUME NEW u \in DOMAIN units, units[u].live
      PROVE  /\ Silent(u)' => units'[u].status = asked'[u]
             /\ \A i \in 1 .. Len(events') :
                  IsLast(i, u)' => StatusOf[events'[i].type] = asked'[u]
  <2>1. CASE u = v
    <3>1. asked'[u] = StatusOf[type]
      BY <1>2, <1>3, <1>6, <2>1 DEF Live
    <3>2. ~Silent(u)'
      BY <1>5, <2>1 DEF Silent
    <3>3. \A i \in 1 .. n + 1 : IsLast(i, u)' => i = n + 1
      BY <1>5, <2>1 DEF IsLast
    <3> QED BY <1>5, <3>1, <3>2, <3>3
  <2>2. CASE u # v
    <3>1. asked'[u] = asked[u] /\ units'[u] = units[u]
      BY <1>2, <1>3, <2>2
    <3>2. Silent(u)' => Silent(u)
      BY <1>5 DEF Silent
    <3>3. \A i \in 1 .. n + 1 : IsLast(i, u)' => i \in 1 .. n /\ IsLast(i, u)
      BY <1>5, <2>2 DEF IsLast
    <3> QED BY <1>1, <1>5, <1>6, <3>1, <3>2, <3>3 DEF LastAsked
  <2> QED BY <2>1, <2>2
<1> QED BY <1>2, <1>6 DEF LastAsked

LEMMA DeliveredStep == ASSUME StatusInv, Deliver PROVE LastAsked'
<1> DEFINE event == Head(events)
           n == Len(events)
<1>1. RUTypeOK /\ LastAsked
  BY DEF StatusInv
<1>2. /\ events # <<>> /\ events' = Tail(events) /\ UNCHANGED asked
      /\ units' = IF Live(units, event.unit)
                  THEN [units EXCEPT ![event.unit].status = StatusOf[event.type]] ELSE units
  BY DEF Deliver
<1>3. events \in Seq(LeaseEvents(DOMAIN units))
  BY <1>1, Types
<1>4. /\ n \in Nat \ {0} /\ Len(events') = n - 1 /\ event = events[1]
      /\ \A i \in 1 .. n - 1 : events'[i] = events[i + 1]
  BY <1>2, <1>3
<1>5. /\ DOMAIN units' = DOMAIN units
      /\ \A u \in DOMAIN units :
           /\ units'[u].live = units[u].live
           /\ units'[u].status = IF u = event.unit /\ units[u].live THEN StatusOf[event.type]
                                 ELSE units[u].status
  <2>1. \A u \in DOMAIN units : units[u] \in UnitRows(DOMAIN properties)
    BY <1>1, Types
  <2>2. CASE Live(units, event.unit)
    BY <1>2, <2>1, <2>2 DEF Live, UnitRows
  <2>3. CASE ~Live(units, event.unit)
    BY <1>2, <2>1, <2>3 DEF Live, UnitRows
  <2> QED BY <2>2, <2>3
<1>6. ASSUME NEW u \in DOMAIN units, units[u].live
      PROVE  /\ Silent(u)' => units'[u].status = asked'[u]
             /\ \A i \in 1 .. Len(events') :
                  IsLast(i, u)' => StatusOf[events'[i].type] = asked'[u]
  <2>1. ASSUME NEW i \in 1 .. n - 1, IsLast(i, u)'
        PROVE  StatusOf[events'[i].type] = asked'[u]
    <3>1. i + 1 \in 1 .. n /\ events[i + 1].unit = u
      BY <1>4, <2>1 DEF IsLast
    <3>2. ASSUME NEW j \in (i + 1 + 1) .. n PROVE events[j].unit # u
      <4>1. j - 1 \in (i + 1) .. (n - 1) /\ j - 1 \in 1 .. n - 1 /\ (j - 1) + 1 = j
        BY <1>4, <3>2
      <4> QED BY <1>4, <2>1, <4>1 DEF IsLast
    <3>3. IsLast(i + 1, u)
      BY <3>1, <3>2 DEF IsLast
    <3>4. StatusOf[events[i + 1].type] = asked[u]
      BY <1>1, <1>6, <3>1, <3>3 DEF LastAsked
    <3> QED BY <1>2, <1>4, <3>4
  <2>2. ASSUME Silent(u)' PROVE units'[u].status = asked'[u]
    <3>1. ASSUME NEW j \in 2 .. n PROVE events[j].unit # u
      <4>1. j - 1 \in 1 .. n - 1 /\ (j - 1) + 1 = j
        BY <1>4, <3>1
      <4> QED BY <1>4, <2>2, <4>1 DEF Silent
    <3>2. CASE u = event.unit
      <4>1. IsLast(1, u)
        BY <1>4, <3>1, <3>2 DEF IsLast
      <4> QED BY <1>1, <1>2, <1>4, <1>5, <1>6, <3>2, <4>1 DEF LastAsked
    <3>3. CASE u # event.unit
      <4>1. Silent(u)
        BY <1>4, <3>1, <3>3 DEF Silent
      <4> QED BY <1>1, <1>2, <1>5, <1>6, <3>3, <4>1 DEF LastAsked
    <3> QED BY <3>2, <3>3
  <2> QED BY <1>4, <2>1, <2>2
<1> QED BY <1>5, <1>6 DEF LastAsked

LEMMA EditStep ==
    ASSUME StatusInv, events = <<>>, NEW u \in Units, NEW status \in UnitStates,
           EditStatus(u, status)
    PROVE  LastAsked'
<1>1. RUTypeOK /\ LastAsked
  BY DEF StatusInv
<1>2. /\ u \in DOMAIN units /\ DOMAIN units' = DOMAIN units /\ events' = <<>>
      /\ \A v \in DOMAIN units : v # u => units'[v] = units[v]
      /\ units'[u] = [units[u] EXCEPT !.status = status]
      /\ asked' = [asked EXCEPT ![u] = status]
  BY DEF EditStatus, Live
<1>3. units'[u].status = status
  <2>1. units[u] \in UnitRows(DOMAIN properties)
    BY <1>1, <1>2, Types
  <2> QED BY <1>2, <2>1 DEF UnitRows
<1>4. asked \in [Units -> Statuses]
  BY <1>1, Types
<1>5. Len(events') = 0 /\ \A v \in DOMAIN units : Silent(v)
  BY <1>2 DEF Silent
<1>6. ASSUME NEW v \in DOMAIN units, units'[v].live PROVE units'[v].status = asked'[v]
  <2>1. CASE v = u
    BY <1>2, <1>3, <1>4, <2>1
  <2>2. CASE v # u
    <3>1. units'[v] = units[v] /\ asked'[v] = asked[v]
      BY <1>2, <1>4, <2>2
    <3> QED BY <1>1, <1>5, <1>6, <3>1 DEF LastAsked
  <2> QED BY <2>1, <2>2
<1> QED BY <1>2, <1>5, <1>6 DEF LastAsked

LEMMA StatusStep == StatusInv /\ [DeliveryNext]_ruVars => StatusInv'
<1> SUFFICES ASSUME StatusInv, [DeliveryNext]_ruVars PROVE StatusInv'
  OBVIOUS
<1>1. RUTypeOK' /\ BuildingsAgree'
  BY Step DEF StatusInv, DeliveryNext, RUNext, Unhurried
<1>2. ASSUME ManageAssets PROVE LastAsked'
  BY <1>1, <1>2, AssetsStep
<1>3. ASSUME Announcements PROVE LastAsked'
  <2>1. ASSUME NEW l \in Leases, Activate(l) \/ Terminate(l) PROVE LastAsked'
    <3>1. "activated" \in DOMAIN StatusOf /\ "terminated" \in DOMAIN StatusOf
      BY DEF StatusOf
    <3> QED BY <2>1, <3>1, AnnounceStep DEF Activate, Terminate
  <2>2. ASSUME NEW l \in Leases, PutLease(l, "active") \/ \E u \in Units : CreateLease(l, u)
        PROVE  LastAsked'
    <3>1. UNCHANGED <<units, events, asked>>
      BY <2>2 DEF PutLease, CreateLease
    <3> QED BY <3>1 DEF StatusInv, LastAsked, Silent, IsLast
  <2> QED BY <1>3, <2>1, <2>2, DeliveredStep DEF Announcements
<1>4. ASSUME Unhurried PROVE LastAsked'
  BY <1>4, EditStep DEF Unhurried, Edits
<1>5. ASSUME UNCHANGED ruVars PROVE LastAsked'
  BY <1>5 DEF ruVars, StatusInv, LastAsked, Silent, IsLast
<1>6. LastAsked'
  BY <1>2, <1>3, <1>4, <1>5 DEF DeliveryNext
<1> QED BY <1>1, <1>6 DEF StatusInv

\* Once the events of leases are delivered, a unit has the status that was
\* asked for last, whatever else was moved or deleted while they waited
\* (events.ts and updateUnitStatus); edits of a unit wait for its events.
THEOREM Settled == DeliverySpec => []SettledStatus
<1>1. DeliverySpec => []StatusInv
  BY StatusInitial, StatusStep, PTL DEF DeliverySpec
<1>2. StatusInv => SettledStatus
  BY DEF StatusInv, LastAsked, SettledStatus, Silent
<1> QED BY <1>1, <1>2, PTL

(***************************************************************************)
(* Backups, their records and the maintenance of the scheduler.            *)
(***************************************************************************)
BackupRows == [operator : Companies, status : BackupStatuses, live : BOOLEAN, made : Nat]

BackupsTyped ==
    /\ records \in Seq(BackupRows)
    /\ files \cup hashing \cup interrupted \cup pruned \subseteq DOMAIN records
    /\ scheduled \in {NoBackup} \cup DOMAIN records
    /\ maintenance \in {"none", "backup", "vacuum"}
    /\ vacuuming \in BOOLEAN /\ clock \in Nat

\* What the main thread is in the middle of.
Marking(b, rest, pruning) == [step |-> "mark", row |-> b, rest |-> rest, pruning |-> pruning]
TurnTyped ==
    \/ turn = NoTurn
    \/ \E b \in DOMAIN records : turn = Writing(b)
    \/ \E b \in DOMAIN records, rest \in SUBSET DOMAIN records, pruning \in BOOLEAN :
          \/ turn = Deleting(b, rest, pruning)
          \/ turn = Marking(b, rest, pruning)

\* Backups that are not finished: their rows wait, and the young ones are young.
UnderWay(b) == records[b].status = "pending" /\ records[b].made + 1 >= clock
HashingUnderWay == \A b \in hashing : UnderWay(b)
WritingUnderWay == turn.step = "writing" => /\ UnderWay(turn.row) /\ records[turn.row].live
                                            /\ turn.row \notin hashing

\* The record and the disk, in the middle of a turn, too.
Between(b) == turn.step \in {"writing", "mark"} /\ turn.row = b
ArchivesFollow ==
    \A b \in DOMAIN records \ interrupted :
        b \in files <=> /\ records[b].live /\ records[b].status # "failed"
                        /\ ~Between(b)

Over(row) == row.status = "completed" \/ ~row.live
Outlived(b) ==
    \E c \in DOMAIN records :
        /\ records[c].operator = records[b].operator
        /\ Over(records[c])
        /\ records[c].made > records[b].made
\* Retention runs for the scheduler, and what it takes has been outlived.
PruningHeld ==
    turn.pruning => /\ scheduled # NoBackup
                    /\ Outlived(turn.row) /\ \A b \in turn.rest : Outlived(b)
ScheduledForSystem == scheduled # NoBackup => records[scheduled].operator = System

BackupsInv ==
    /\ BackupsAssumption /\ BackupsTyped /\ TurnTyped
    /\ HashingUnderWay /\ WritingUnderWay /\ ArchivesFollow
    /\ OneMaintenance /\ ScheduledForSystem
    /\ PruningHeld /\ \A b \in pruned : Outlived(b)

\* What the main thread can be in the middle of, field by field.
TurnIs ==
    /\ turn.step \in {"idle", "writing", "unlink", "mark"}
    /\ turn.step = "idle" <=> turn = NoTurn
    /\ turn.step # "idle" => turn.row \in DOMAIN records
    /\ turn.rest \in SUBSET DOMAIN records /\ turn.pruning \in BOOLEAN
    /\ turn.step \in {"idle", "writing"} => turn.rest = {} /\ turn.pruning = FALSE
    /\ turn.step = "unlink" => turn = Deleting(turn.row, turn.rest, turn.pruning)
    /\ turn.step = "mark" => turn = Marking(turn.row, turn.rest, turn.pruning)

LEMMA TurnOf ==
    ASSUME TurnTyped
    PROVE  TurnIs
<1>1. CASE turn = NoTurn
  BY <1>1 DEF NoTurn, TurnIs
<1>2. ASSUME NEW b \in DOMAIN records, turn = Writing(b) PROVE TurnIs
  BY <1>2 DEF NoTurn, Writing, TurnIs
<1>3. ASSUME NEW b \in DOMAIN records, NEW rest \in SUBSET DOMAIN records, NEW pruning \in BOOLEAN,
             turn = Deleting(b, rest, pruning) \/ turn = Marking(b, rest, pruning)
      PROVE  TurnIs
  BY <1>3 DEF NoTurn, Deleting, Marking, TurnIs
<1> QED BY <1>1, <1>2, <1>3 DEF TurnTyped

\* A row that is replaced, is set to a status while it lives, or loses its life.
LEMMA RowReplaced ==
    ASSUME records \in Seq(BackupRows), NEW b \in DOMAIN records, NEW row \in BackupRows,
           NEW r, r = [records EXCEPT ![b] = row]
    PROVE  /\ r \in Seq(BackupRows) /\ DOMAIN r = DOMAIN records /\ r[b] = row
           /\ \A c \in DOMAIN records : c # b => r[c] = records[c]
<1>1. /\ r \in Seq(BackupRows) /\ Len(r) = Len(records) /\ r[b] = row
      /\ \A c \in 1 .. Len(records) : c # b => r[c] = records[c]
  BY SeqWith
<1>2. DOMAIN r = 1 .. Len(r) /\ DOMAIN records = 1 .. Len(records)
  BY <1>1
<1> QED BY <1>1, <1>2

LEMMA StatusSet ==
    ASSUME records \in Seq(BackupRows), NEW b \in DOMAIN records, NEW status \in BackupStatuses,
           NEW r, r = WithStatus(b, status)
    PROVE  /\ r \in Seq(BackupRows) /\ DOMAIN r = DOMAIN records
           /\ \A c \in DOMAIN records : c # b => r[c] = records[c]
           /\ r[b].operator = records[b].operator /\ r[b].made = records[b].made
           /\ r[b].live = records[b].live
           /\ r[b].status = IF records[b].live THEN status ELSE records[b].status
<1>1. records[b] \in BackupRows
  OBVIOUS
<1>2. PICK row \in BackupRows :
          /\ row = [records[b] EXCEPT !.status = status] /\ row.status = status
          /\ row.operator = records[b].operator /\ row.made = records[b].made
          /\ row.live = records[b].live
  <2> DEFINE row == [records[b] EXCEPT !.status = status]
  <2>1. /\ row \in BackupRows /\ row.status = status
        /\ row.operator = records[b].operator /\ row.made = records[b].made
        /\ row.live = records[b].live
    BY <1>1 DEF BackupRows
  <2> QED BY <2>1
<1>3. CASE records[b].live
  <2>1. r = [records EXCEPT ![b] = row]
    BY <1>2, <1>3 DEF WithStatus
  <2> QED BY <1>2, <1>3, <2>1, RowReplaced
<1>4. CASE ~records[b].live
  BY <1>4 DEF WithStatus
<1> QED BY <1>3, <1>4

LEMMA LifeEnded ==
    ASSUME records \in Seq(BackupRows), NEW b \in DOMAIN records,
           NEW r, r = [records EXCEPT ![b].live = FALSE]
    PROVE  /\ r \in Seq(BackupRows) /\ DOMAIN r = DOMAIN records
           /\ \A c \in DOMAIN records : c # b => r[c] = records[c]
           /\ r[b].operator = records[b].operator /\ r[b].made = records[b].made
           /\ r[b].live = FALSE /\ r[b].status = records[b].status
<1>1. records[b] \in BackupRows
  OBVIOUS
<1>2. PICK row \in BackupRows :
          /\ row = [records[b] EXCEPT !.live = FALSE] /\ row.live = FALSE
          /\ row.operator = records[b].operator /\ row.made = records[b].made
          /\ row.status = records[b].status
  <2> DEFINE row == [records[b] EXCEPT !.live = FALSE]
  <2>1. /\ row \in BackupRows /\ row.live = FALSE
        /\ row.operator = records[b].operator /\ row.made = records[b].made
        /\ row.status = records[b].status
    BY <1>1 DEF BackupRows
  <2> QED BY <2>1
<1>3. r = [records EXCEPT ![b] = row]
  BY <1>2
<1> QED BY <1>2, <1>3, RowReplaced

\* A backup that was outlived stays so while no row is taken away, made again
\* or, once completed or deleted, alive and unfinished.
LEMMA OutlivedStays ==
    ASSUME DOMAIN records \subseteq DOMAIN records',
           \A c \in DOMAIN records :
              /\ records'[c].operator = records[c].operator /\ records'[c].made = records[c].made
              /\ Over(records[c]) => Over(records'[c]),
           NEW b \in DOMAIN records, Outlived(b)
    PROVE  Outlived(b)'
BY DEF Outlived

\* The tables and jobs before the first backup.
LEMMA BackupsInitial == BackupsAssumption /\ BackupsInit => BackupsInv
<1> SUFFICES ASSUME BackupsAssumption, BackupsInit PROVE BackupsInv
  OBVIOUS
<1>1. records \in Seq(BackupRows) /\ DOMAIN records = {}
  BY DEF BackupsInit
<1>2. BackupsTyped /\ TurnTyped /\ OneMaintenance
  BY <1>1 DEF BackupsInit, BackupsTyped, TurnTyped, OneMaintenance
<1>3. HashingUnderWay /\ WritingUnderWay /\ ArchivesFollow /\ ScheduledForSystem
  BY <1>1 DEF BackupsInit, HashingUnderWay, WritingUnderWay, ArchivesFollow, ScheduledForSystem,
     NoTurn
<1>4. PruningHeld /\ \A b \in pruned : Outlived(b)
  BY DEF BackupsInit, PruningHeld, NoTurn
<1> QED BY <1>2, <1>3, <1>4 DEF BackupsInv

\* A backup begins: a user's, or the scheduler's while no maintenance runs.
LEMMA BeginStep ==
    ASSUME BackupsInv, AtRest, NEW o \in Companies, Begin(o),
           \/ UNCHANGED <<maintenance, scheduled>>
           \/ /\ o = System /\ maintenance = "none"
              /\ maintenance' = "backup" /\ scheduled' = Len(records) + 1
    PROVE  BackupsInv'
<1> DEFINE n == Len(records) + 1
           new == [operator |-> o, status |-> "pending", live |-> TRUE, made |-> clock]
<1> USE DEF BackupsInv
<1>1. /\ records \in Seq(BackupRows) /\ Len(records) \in Nat /\ new \in BackupRows
      /\ DOMAIN records = 1 .. Len(records)
  BY DEF BackupsTyped, BackupRows, BackupStatuses
<1>2. records' = Append(records, new)
  BY DEF Begin
<1>3. /\ records' \in Seq(BackupRows) /\ DOMAIN records' = 1 .. n
      /\ n \notin DOMAIN records /\ n # NoBackup /\ DOMAIN records' = DOMAIN records \cup {n}
      /\ \A c \in DOMAIN records : records'[c] = records[c]
  <2> HIDE DEF new
  <2> QED BY <1>1, <1>2 DEF NoBackup
<1>4. /\ records'[n] = new /\ records'[n].operator = o /\ records'[n].status = "pending"
      /\ records'[n].live = TRUE /\ records'[n].made = clock
  BY <1>1, <1>2
<1> HIDE DEF n, new
<1>5. /\ turn' = Writing(n)
      /\ UNCHANGED <<files, hashing, vacuuming, clock, interrupted, pruned>>
  BY DEF Begin, n
<1>6. /\ turn'.step = "writing" /\ turn'.row = n /\ turn'.rest = {} /\ turn'.pruning = FALSE
  BY <1>5 DEF Writing
<1>7. BackupsTyped'
  BY <1>3, <1>5 DEF BackupsTyped, n
<1>8. TurnTyped'
  BY <1>3, <1>5, <1>6 DEF TurnTyped
<1>9. HashingUnderWay' /\ WritingUnderWay'
  BY <1>3, <1>4, <1>5, <1>6 DEF HashingUnderWay, WritingUnderWay, UnderWay, BackupsTyped
<1>10. ArchivesFollow'
  <2> SUFFICES ASSUME NEW b \in DOMAIN records' \ interrupted'
               PROVE  b \in files' <=> /\ records'[b].live /\ records'[b].status # "failed"
                                       /\ ~Between(b)'
    BY DEF ArchivesFollow
  <2>1. CASE b = n
    BY <1>3, <1>5, <1>6, <2>1 DEF Between, BackupsTyped
  <2>2. CASE b # n
    BY <1>3, <1>5, <1>6, <2>2 DEF Between, ArchivesFollow, AtRest, NoTurn
  <2> QED BY <2>1, <2>2
<1>11. OneMaintenance'
  BY <1>3, <1>5 DEF OneMaintenance, BackupsTyped, n
<1>12. ScheduledForSystem'
  BY <1>3, <1>4, <1>5 DEF ScheduledForSystem, BackupsTyped, n
<1>13. PruningHeld' /\ (\A b \in pruned : Outlived(b))'
  <2>1. \A b \in DOMAIN records : Outlived(b) => Outlived(b)'
    BY <1>3, OutlivedStays
  <2> QED BY <1>5, <1>6, <2>1 DEF PruningHeld, BackupsTyped
<1> QED BY <1>7, <1>8, <1>9, <1>10, <1>11, <1>12, <1>13

\* What a step of a backup that ends leaves: its row has a status if it lives.
LEMMA EndsStep ==
    ASSUME BackupsInv, NEW b \in DOMAIN records, NEW status \in {"completed", "failed"},
           records[b].status = "pending",
           records' = WithStatus(b, status)
    PROVE  /\ records' \in Seq(BackupRows) /\ DOMAIN records' = DOMAIN records
           /\ \A c \in DOMAIN records : c # b => records'[c] = records[c]
           /\ \A c \in DOMAIN records : /\ records'[c].operator = records[c].operator
                                        /\ records'[c].made = records[c].made
                                        /\ records'[c].live = records[c].live
           /\ records'[b].status = IF records[b].live THEN status ELSE "pending"
           /\ \A c \in DOMAIN records : Outlived(c) => Outlived(c)'
<1>1. records \in Seq(BackupRows) /\ status \in BackupStatuses
  BY DEF BackupsInv, BackupsTyped, BackupStatuses
<1>2. /\ records' \in Seq(BackupRows) /\ DOMAIN records' = DOMAIN records
      /\ \A c \in DOMAIN records : c # b => records'[c] = records[c]
      /\ records'[b].operator = records[b].operator /\ records'[b].made = records[b].made
      /\ records'[b].live = records[b].live
      /\ records'[b].status = IF records[b].live THEN status ELSE records[b].status
  BY <1>1, StatusSet
<1>3. \A c \in DOMAIN records : /\ records'[c].operator = records[c].operator
                                /\ records'[c].made = records[c].made
                                /\ records'[c].live = records[c].live
  BY <1>2
<1>4. \A c \in DOMAIN records : Over(records[c]) => Over(records'[c])
  BY <1>2, <1>3 DEF Over
<1>5. \A c \in DOMAIN records : Outlived(c) => Outlived(c)'
  BY <1>2, <1>3, <1>4, OutlivedStays
<1> QED BY <1>2, <1>3, <1>5

\* A backup fails, while its archive is written or while it is hashed.
LEMMA FailStep ==
    ASSUME BackupsInv, NEW b, Fail(b),
           \/ turn.step = "writing" /\ b = turn.row
           \/ AtRest /\ b \in hashing
    PROVE  BackupsInv'
<1> USE DEF BackupsInv
<1>1. TurnIs
  BY TurnOf
<1>2. b \in DOMAIN records /\ records[b].status = "pending"
  BY <1>1 DEF TurnIs, HashingUnderWay, WritingUnderWay, UnderWay, BackupsTyped
<1>3. /\ records' = WithStatus(b, "failed") /\ hashing' = hashing \ {b}
      /\ \/ files' = files \ {b} /\ UNCHANGED interrupted
         \/ files' = files \cup {b} /\ interrupted' = interrupted \cup {b}
      /\ turn' = NoTurn /\ Released(b) /\ UNCHANGED <<vacuuming, clock, pruned>>
  BY DEF Fail
<1>4. /\ records' \in Seq(BackupRows) /\ DOMAIN records' = DOMAIN records
      /\ \A c \in DOMAIN records : c # b => records'[c] = records[c]
      /\ \A c \in DOMAIN records : /\ records'[c].operator = records[c].operator
                                   /\ records'[c].made = records[c].made
                                   /\ records'[c].live = records[c].live
      /\ records'[b].status = IF records[b].live THEN "failed" ELSE "pending"
      /\ \A c \in DOMAIN records : Outlived(c) => Outlived(c)'
  BY <1>2, <1>3, EndsStep
<1>5. /\ turn'.step = "idle" /\ turn'.pruning = FALSE
  BY <1>3 DEF NoTurn
<1>6. /\ maintenance' = IF b = scheduled THEN "none" ELSE maintenance
      /\ scheduled' = IF b = scheduled THEN NoBackup ELSE scheduled
  BY <1>3 DEF Released
<1>7. BackupsTyped' /\ TurnTyped'
  BY <1>2, <1>3, <1>4, <1>6 DEF BackupsTyped, TurnTyped
<1>8. HashingUnderWay' /\ WritingUnderWay'
  BY <1>3, <1>4, <1>5 DEF HashingUnderWay, WritingUnderWay, UnderWay, BackupsTyped
<1>9. ArchivesFollow'
  <2> SUFFICES ASSUME NEW c \in DOMAIN records' \ interrupted'
               PROVE  c \in files' <=> /\ records'[c].live /\ records'[c].status # "failed"
                                       /\ ~Between(c)'
    BY DEF ArchivesFollow
  <2>1. ~Between(c)'
    BY <1>5 DEF Between
  <2>2. CASE c = b
    BY <1>3, <1>4, <2>1, <2>2
  <2>3. CASE c # b
    <3>1. ~Between(c)
      BY <2>3 DEF Between, AtRest, NoTurn
    <3> QED BY <1>3, <1>4, <2>1, <2>3, <3>1 DEF ArchivesFollow
  <2> QED BY <2>2, <2>3
<1>10. OneMaintenance' /\ ScheduledForSystem'
  <2>1. b # NoBackup
    BY <1>2 DEF BackupsTyped, NoBackup
  <2> QED BY <1>3, <1>4, <1>6, <2>1 DEF OneMaintenance, ScheduledForSystem, BackupsTyped
<1>11. PruningHeld' /\ (\A c \in pruned : Outlived(c))'
  BY <1>3, <1>4, <1>5 DEF PruningHeld, BackupsTyped
<1> QED BY <1>7, <1>8, <1>9, <1>10, <1>11

\* A checksum is stored; the scheduler's own backup is younger than what its
\* retention takes.
LEMMA HashDoneStep ==
    ASSUME BackupsInv, NEW b, HashDone(b)
    PROVE  BackupsInv'
<1> USE DEF BackupsInv
<1>1. /\ turn.step = "idle" /\ b \in hashing /\ b \in DOMAIN records
      /\ records[b].status = "pending" /\ records[b].made + 1 >= clock
  BY DEF HashDone, AtRest, NoTurn, HashingUnderWay, UnderWay, BackupsTyped
<1>2. /\ records' = WithStatus(b, "completed") /\ hashing' = hashing \ {b}
      /\ PruneAfter(b) /\ UNCHANGED <<files, vacuuming, clock, interrupted, pruned>>
  BY DEF HashDone
<1>3. /\ records' \in Seq(BackupRows) /\ DOMAIN records' = DOMAIN records
      /\ \A c \in DOMAIN records : c # b => records'[c] = records[c]
      /\ \A c \in DOMAIN records : /\ records'[c].operator = records[c].operator
                                   /\ records'[c].made = records[c].made
                                   /\ records'[c].live = records[c].live
      /\ records'[b].status = IF records[b].live THEN "completed" ELSE "pending"
      /\ \A c \in DOMAIN records : Outlived(c) => Outlived(c)'
  BY <1>1, <1>2, EndsStep
<1>4. HashingUnderWay' /\ (\A c \in pruned : Outlived(c))'
  BY <1>2, <1>3 DEF HashingUnderWay, UnderWay, BackupsTyped
<1>5. \A c \in DOMAIN records \ interrupted :
          c \in files' <=> records'[c].live /\ records'[c].status # "failed"
  <2> TAKE c \in DOMAIN records \ interrupted
  <2>1. c \in files <=> records[c].live /\ records[c].status # "failed"
    BY <1>1 DEF ArchivesFollow, Between
  <2> QED BY <1>1, <1>2, <1>3, <2>1
<1>6. CASE (b # scheduled \/ OldBackups = {}) /\ turn' = NoTurn /\ Released(b)
  <2>1. turn'.step = "idle" /\ turn'.pruning = FALSE
    BY <1>6 DEF NoTurn
  <2>2. /\ maintenance' = IF b = scheduled THEN "none" ELSE maintenance
        /\ scheduled' = IF b = scheduled THEN NoBackup ELSE scheduled
    BY <1>6 DEF Released
  <2>3. BackupsTyped' /\ TurnTyped'
    BY <1>2, <1>3, <1>6, <2>2 DEF BackupsTyped, TurnTyped
  <2>4. WritingUnderWay' /\ PruningHeld'
    BY <2>1 DEF WritingUnderWay, PruningHeld
  <2>5. ArchivesFollow'
    BY <1>2, <1>3, <1>5, <2>1 DEF ArchivesFollow, Between
  <2>6. OneMaintenance' /\ ScheduledForSystem'
    <3>1. b # NoBackup
      BY <1>1 DEF BackupsTyped, NoBackup
    <3> QED BY <1>2, <1>3, <2>2, <3>1 DEF OneMaintenance, ScheduledForSystem, BackupsTyped
  <2> QED BY <1>4, <2>3, <2>4, <2>5, <2>6
<1>7. ASSUME b = scheduled, UNCHANGED <<maintenance, scheduled>>,
             NEW old \in OldBackups, turn' = Deleting(old, OldBackups \ {old}, TRUE)
      PROVE  BackupsInv'
  <2>1. /\ turn'.step = "unlink" /\ turn'.row = old /\ turn'.rest = OldBackups \ {old}
        /\ turn'.pruning = TRUE /\ OldBackups \subseteq DOMAIN records
    BY <1>7 DEF Deleting, OldBackups
  <2>2. BackupsTyped'
    BY <1>2, <1>3, <1>7 DEF BackupsTyped
  <2>3. TurnTyped'
    BY <1>3, <1>7, <2>1 DEF TurnTyped
  <2>4. WritingUnderWay'
    BY <2>1 DEF WritingUnderWay
  <2>5. ArchivesFollow'
    BY <1>2, <1>3, <1>5, <2>1 DEF ArchivesFollow, Between
  <2>6. OneMaintenance' /\ ScheduledForSystem'
    BY <1>2, <1>3, <1>7 DEF OneMaintenance, ScheduledForSystem, BackupsTyped
  <2>7. scheduled # NoBackup
    BY <1>1, <1>7 DEF BackupsTyped, NoBackup
  <2>8. ASSUME NEW c \in OldBackups PROVE Outlived(c)'
    <3>1. /\ c \in DOMAIN records /\ records[c].operator = System
          /\ records[c].made + Retention < clock
      BY DEF OldBackups
    <3>2. records[b].operator = System
      BY <1>7, <2>7 DEF ScheduledForSystem
    <3>3. /\ records[b].made \in Nat /\ records[c].made \in Nat /\ clock \in Nat
          /\ Retention \in Nat \ {0}
      <4>1. records[b] \in BackupRows /\ records[c] \in BackupRows
        BY <1>1, <3>1 DEF BackupsTyped
      <4> QED BY <4>1 DEF BackupRows, BackupsTyped, BackupsAssumption
    <3>4. records[b].made > records[c].made
      BY <1>1, <3>1, <3>3
    <3>5. Over(records'[b])
      BY <1>1, <1>3 DEF Over
    <3> QED BY <1>1, <1>3, <3>1, <3>2, <3>4, <3>5 DEF Outlived
  <2>9. PruningHeld'
    BY <1>7, <2>1, <2>7, <2>8 DEF PruningHeld
  <2> QED BY <1>4, <2>2, <2>3, <2>4, <2>5, <2>6, <2>9
<1> QED BY <1>2, <1>6, <1>7 DEF PruneAfter

\* The archive is on disk, and its checksum is next.
LEMMA WriteStep == ASSUME BackupsInv, WriteArchive PROVE BackupsInv'
<1> USE DEF BackupsInv
<1>1. /\ turn.step = "writing" /\ files' = files \cup {turn.row}
      /\ hashing' = hashing \cup {turn.row} /\ turn' = NoTurn
      /\ UNCHANGED <<records, maintenance, scheduled, vacuuming, clock, interrupted, pruned>>
  BY DEF WriteArchive
<1>2. turn.row \in DOMAIN records /\ UnderWay(turn.row) /\ records[turn.row].live
  BY <1>1, TurnOf DEF TurnIs, WritingUnderWay
<1>3. turn'.step = "idle" /\ turn'.pruning = FALSE
  BY <1>1 DEF NoTurn
<1>4. BackupsTyped' /\ TurnTyped'
  BY <1>1, <1>2 DEF BackupsTyped, TurnTyped
<1>5. HashingUnderWay' /\ WritingUnderWay'
  BY <1>1, <1>2, <1>3 DEF HashingUnderWay, WritingUnderWay, UnderWay
<1>6. ArchivesFollow'
  <2> SUFFICES ASSUME NEW c \in DOMAIN records \ interrupted
               PROVE  c \in files' <=> records[c].live /\ records[c].status # "failed"
    BY <1>1, <1>3 DEF ArchivesFollow, Between
  <2>1. CASE c = turn.row
    BY <1>1, <1>2, <2>1 DEF UnderWay
  <2>2. CASE c # turn.row
    BY <1>1, <2>2 DEF ArchivesFollow, Between
  <2> QED BY <2>1, <2>2
<1>7. OneMaintenance' /\ ScheduledForSystem'
  BY <1>1 DEF OneMaintenance, ScheduledForSystem
<1>8. PruningHeld' /\ (\A c \in pruned : Outlived(c))'
  BY <1>1, <1>3 DEF PruningHeld, Outlived
<1> QED BY <1>4, <1>5, <1>6, <1>7, <1>8

\* A user deletes a backup: the disk first, the row second.
LEMMA BackupGoneStep == ASSUME BackupsInv, NEW b \in DOMAIN records, DeleteBackup(b) PROVE BackupsInv'
<1> USE DEF BackupsInv
<1>1. /\ turn.step = "idle" /\ turn' = Deleting(b, {}, FALSE)
      /\ UNCHANGED <<records, files, hashing, maintenance, scheduled, vacuuming, clock,
                     interrupted, pruned>>
  BY DEF DeleteBackup, AtRest, NoTurn
<1>2. turn'.step = "unlink" /\ turn'.pruning = FALSE
  BY <1>1 DEF Deleting
<1>3. BackupsTyped' /\ TurnTyped'
  BY <1>1 DEF BackupsTyped, TurnTyped
<1>4. HashingUnderWay' /\ WritingUnderWay'
  BY <1>1, <1>2 DEF HashingUnderWay, WritingUnderWay, UnderWay
<1>5. ArchivesFollow'
  BY <1>1, <1>2 DEF ArchivesFollow, Between
<1>6. OneMaintenance' /\ ScheduledForSystem'
  BY <1>1 DEF OneMaintenance, ScheduledForSystem
<1>7. PruningHeld' /\ (\A c \in pruned : Outlived(c))'
  BY <1>1, <1>2 DEF PruningHeld, Outlived
<1> QED BY <1>3, <1>4, <1>5, <1>6, <1>7

LEMMA UnlinkStep == ASSUME BackupsInv, Unlink PROVE BackupsInv'
<1> USE DEF BackupsInv
<1> DEFINE b == turn.row
<1>1. /\ turn.step = "unlink" /\ turn' = [turn EXCEPT !.step = "mark"]
      /\ UNCHANGED <<records, hashing, maintenance, scheduled, vacuuming, clock, pruned>>
      /\ \/ files' = files \ {b} /\ UNCHANGED interrupted
         \/ UNCHANGED files /\ interrupted' = interrupted \cup {b}
  BY DEF Unlink
<1>2. /\ b \in DOMAIN records /\ turn.rest \in SUBSET DOMAIN records /\ turn.pruning \in BOOLEAN
      /\ turn = Deleting(b, turn.rest, turn.pruning)
  BY <1>1, TurnOf DEF TurnIs
<1>3. turn' = Marking(b, turn.rest, turn.pruning)
  BY <1>1, <1>2 DEF Deleting, Marking
<1>4. /\ turn'.step = "mark" /\ turn'.row = b /\ turn'.rest = turn.rest
      /\ turn'.pruning = turn.pruning
  BY <1>3 DEF Marking
<1>5. BackupsTyped' /\ TurnTyped'
  BY <1>1, <1>2, <1>3 DEF BackupsTyped, TurnTyped
<1>6. HashingUnderWay' /\ WritingUnderWay'
  BY <1>1, <1>4 DEF HashingUnderWay, WritingUnderWay, UnderWay
<1>7. ArchivesFollow'
  BY <1>1, <1>4 DEF ArchivesFollow, Between
<1>8. OneMaintenance' /\ ScheduledForSystem'
  BY <1>1 DEF OneMaintenance, ScheduledForSystem
<1>9. PruningHeld' /\ (\A c \in pruned : Outlived(c))'
  BY <1>1, <1>4 DEF PruningHeld, Outlived
<1> QED BY <1>5, <1>6, <1>7, <1>8, <1>9

LEMMA MarkStep == ASSUME BackupsInv, Mark PROVE BackupsInv'
<1> USE DEF BackupsInv
<1> DEFINE b == turn.row
<1>1. /\ turn.step = "mark" /\ records' = [records EXCEPT ![b].live = FALSE]
      /\ pruned' = IF turn.pruning THEN pruned \cup {b} ELSE pruned
      /\ UNCHANGED <<files, hashing, vacuuming, clock, interrupted>>
      /\ \/ turn.rest = {} /\ turn' = NoTurn
         \/ \E c \in turn.rest : turn' = Deleting(c, turn.rest \ {c}, turn.pruning)
      /\ IF turn.pruning /\ turn.rest = {} THEN Released(scheduled)
         ELSE UNCHANGED <<maintenance, scheduled>>
  BY DEF Mark
<1>2. b \in DOMAIN records /\ turn.rest \in SUBSET DOMAIN records /\ turn.pruning \in BOOLEAN
  BY <1>1, TurnOf DEF TurnIs
<1>3. /\ records' \in Seq(BackupRows) /\ DOMAIN records' = DOMAIN records
      /\ \A c \in DOMAIN records : c # b => records'[c] = records[c]
      /\ records'[b].operator = records[b].operator /\ records'[b].made = records[b].made
      /\ records'[b].live = FALSE /\ records'[b].status = records[b].status
  <2>1. records \in Seq(BackupRows)
    BY DEF BackupsTyped
  <2> QED BY <1>1, <1>2, <2>1, LifeEnded
<1>4. \A c \in DOMAIN records : Outlived(c) => Outlived(c)'
  <2>1. \A c \in DOMAIN records : /\ records'[c].operator = records[c].operator
                                  /\ records'[c].made = records[c].made
                                  /\ Over(records[c]) => Over(records'[c])
    BY <1>3 DEF Over
  <2> QED BY <1>3, <2>1, OutlivedStays
<1>5. /\ turn'.step \in {"idle", "unlink"} /\ turn'.pruning \in BOOLEAN
      /\ turn'.pruning => /\ turn.pruning /\ turn.rest # {}
                          /\ turn'.row \in turn.rest /\ turn'.rest \subseteq turn.rest
  <2>1. CASE turn' = NoTurn
    BY <2>1 DEF NoTurn
  <2>2. ASSUME NEW c \in turn.rest, turn' = Deleting(c, turn.rest \ {c}, turn.pruning)
        PROVE  /\ turn'.step = "unlink" /\ turn'.pruning = turn.pruning
               /\ turn'.row = c /\ turn'.rest = turn.rest \ {c}
    BY <2>2 DEF Deleting
  <2> QED BY <1>1, <1>2, <2>1, <2>2
<1>6. \/ maintenance' = maintenance /\ scheduled' = scheduled
      \/ turn.pruning /\ turn.rest = {} /\ maintenance' = "none" /\ scheduled' = NoBackup
  <2>1. CASE turn.pruning /\ turn.rest = {}
    BY <1>1, <2>1 DEF Released
  <2>2. CASE ~(turn.pruning /\ turn.rest = {})
    BY <1>1, <2>2
  <2> QED BY <2>1, <2>2
<1>7. BackupsTyped'
  BY <1>1, <1>2, <1>3, <1>6 DEF BackupsTyped
<1>8. TurnTyped'
  BY <1>1, <1>2, <1>3 DEF TurnTyped
<1>9. HashingUnderWay' /\ WritingUnderWay'
  BY <1>1, <1>3, <1>5 DEF HashingUnderWay, WritingUnderWay, UnderWay, BackupsTyped
<1>10. ArchivesFollow'
  <2> SUFFICES ASSUME NEW c \in DOMAIN records \ interrupted
               PROVE  c \in files <=> records'[c].live /\ records'[c].status # "failed"
    BY <1>1, <1>3, <1>5 DEF ArchivesFollow, Between
  <2>1. CASE c = b
    BY <1>1, <1>3, <2>1 DEF ArchivesFollow, Between
  <2>2. CASE c # b
    BY <1>1, <1>3, <2>2 DEF ArchivesFollow, Between
  <2> QED BY <2>1, <2>2
<1>11. OneMaintenance' /\ ScheduledForSystem'
  BY <1>1, <1>2, <1>3, <1>6 DEF OneMaintenance, ScheduledForSystem, BackupsTyped, PruningHeld
<1>12. PruningHeld'
  BY <1>2, <1>4, <1>5, <1>6 DEF PruningHeld
<1>13. (\A c \in pruned : Outlived(c))'
  BY <1>1, <1>2, <1>4 DEF PruningHeld, BackupsTyped
<1> QED BY <1>7, <1>8, <1>9, <1>10, <1>11, <1>12, <1>13

\* A vacuum starts while no maintenance runs, and ends.
LEMMA VacuumStep == ASSUME BackupsInv, ScheduledVacuum \/ VacuumEnds PROVE BackupsInv'
<1> USE DEF BackupsInv
<1>1. /\ maintenance \in {"none", "vacuum"} /\ scheduled = NoBackup
      /\ \/ maintenance' = "vacuum" /\ vacuuming' = TRUE
         \/ maintenance' = "none" /\ vacuuming' = FALSE
      /\ UNCHANGED <<records, files, hashing, turn, scheduled, clock, interrupted, pruned>>
  BY DEF ScheduledVacuum, VacuumEnds, OneMaintenance
<1>2. BackupsTyped' /\ TurnTyped'
  BY <1>1 DEF BackupsTyped, TurnTyped
<1>3. HashingUnderWay' /\ WritingUnderWay'
  BY <1>1 DEF HashingUnderWay, WritingUnderWay, UnderWay
<1>4. ArchivesFollow'
  BY <1>1 DEF ArchivesFollow, Between
<1>5. OneMaintenance' /\ ScheduledForSystem'
  BY <1>1 DEF OneMaintenance, ScheduledForSystem
<1>6. PruningHeld' /\ (\A c \in pruned : Outlived(c))'
  BY <1>1 DEF PruningHeld, Outlived
<1> QED BY <1>2, <1>3, <1>4, <1>5, <1>6

\* What a crash comes between is remembered; the rest of the turn is forgotten.
LEMMA DeathStep == ASSUME BackupsInv, ProcessDies PROVE BackupsInv'
<1> USE DEF BackupsInv
<1>1. /\ turn' = NoTurn /\ hashing' = {} /\ scheduled' = NoBackup /\ vacuuming' = FALSE
      /\ maintenance' = "none" /\ UNCHANGED <<records, files, clock, pruned>>
      /\ interrupted' = interrupted \cup hashing
                        \cup (IF turn.step \in {"writing", "mark"} THEN {turn.row} ELSE {})
  BY DEF ProcessDies
<1>2. turn'.step = "idle" /\ turn'.pruning = FALSE
  BY <1>1 DEF NoTurn
<1>3. BackupsTyped' /\ TurnTyped'
  <2>1. turn.step \in {"writing", "mark"} => turn.row \in DOMAIN records
    BY TurnOf DEF TurnIs
  <2> QED BY <1>1, <2>1 DEF BackupsTyped, TurnTyped
<1>4. HashingUnderWay' /\ WritingUnderWay' /\ OneMaintenance' /\ ScheduledForSystem'
  BY <1>1, <1>2 DEF HashingUnderWay, WritingUnderWay, OneMaintenance, ScheduledForSystem
<1>5. ArchivesFollow'
  BY <1>1, <1>2 DEF ArchivesFollow, Between
<1>6. PruningHeld' /\ (\A c \in pruned : Outlived(c))'
  BY <1>1, <1>2 DEF PruningHeld, Outlived
<1> QED BY <1>3, <1>4, <1>5, <1>6

\* A day passes between two turns; what is hashed was begun on the day before.
LEMMA DayStep == ASSUME BackupsInv, NextDay PROVE BackupsInv'
<1> USE DEF BackupsInv
<1>1. /\ turn.step = "idle" /\ clock' = clock + 1 /\ \A b \in hashing : records[b].made = clock
      /\ UNCHANGED <<records, files, hashing, turn, maintenance, scheduled, vacuuming,
                     interrupted, pruned>>
  BY DEF NextDay, AtRest, NoTurn
<1>2. BackupsTyped' /\ TurnTyped'
  BY <1>1 DEF BackupsTyped, TurnTyped
<1>3. HashingUnderWay' /\ WritingUnderWay'
  BY <1>1 DEF HashingUnderWay, WritingUnderWay, UnderWay, BackupsTyped
<1>4. ArchivesFollow' /\ OneMaintenance' /\ ScheduledForSystem'
  BY <1>1 DEF ArchivesFollow, Between, OneMaintenance, ScheduledForSystem
<1>5. PruningHeld' /\ (\A c \in pruned : Outlived(c))'
  BY <1>1 DEF PruningHeld, Outlived
<1> QED BY <1>2, <1>3, <1>4, <1>5

LEMMA BackupsStep == BackupsInv /\ [BackupsNext]_bkVars => BackupsInv'
<1> SUFFICES ASSUME BackupsInv, [BackupsNext]_bkVars PROVE BackupsInv'
  OBVIOUS
<1>1. ASSUME NEW o \in Companies, CreateBackup(o) PROVE BackupsInv'
  BY <1>1, BeginStep DEF CreateBackup
<1>2. ASSUME ScheduledBackup PROVE BackupsInv'
  <2>1. System \in Companies
    BY DEF BackupsInv, BackupsAssumption
  <2> QED BY <1>2, <2>1, BeginStep DEF ScheduledBackup
<1>3. ASSUME HashStep PROVE BackupsInv'
  BY <1>3, HashDoneStep, FailStep DEF HashStep, HashFails
<1>4. ASSUME TurnStep PROVE BackupsInv'
  BY <1>4, WriteStep, FailStep, UnlinkStep, MarkStep DEF TurnStep, WriteFails
<1>5. ASSUME UNCHANGED bkVars PROVE BackupsInv'
  BY <1>5 DEF bkVars, BackupsInv, BackupsTyped, TurnTyped, HashingUnderWay, WritingUnderWay,
     UnderWay, ArchivesFollow, Between, OneMaintenance, ScheduledForSystem, PruningHeld, Outlived
<1> QED BY <1>1, <1>2, <1>3, <1>4, <1>5, BackupGoneStep, VacuumStep, DeathStep, DayStep
        DEF BackupsNext, Requested

\* Records tell what is on disk, unless the process died or the disk failed in
\* between; a backup and a vacuum of the scheduler exclude each other; and
\* retention takes only what a younger backup has outlived (service.ts,
\* scheduler.ts), for any number of operators, backups and days.
THEOREM BackupsSound == BackupsAssumption /\ BackupsSpec => []BackupsAgree
<1>1. BackupsInv => BackupsAgree
  <2> SUFFICES ASSUME BackupsInv PROVE BackupsAgree
    OBVIOUS
  <2>1. BackupsTypeOK
    BY DEF BackupsInv, BackupsTyped, BackupsTypeOK, BackupRows, HashingUnderWay, UnderWay
  <2>2. ArchivesMatchRecords
    BY DEF BackupsInv, ArchivesFollow, Between, ArchivesMatchRecords, AtRest, NoTurn
  <2>3. LastGoodBackupKept
    BY DEF BackupsInv, Outlived, Over, LastGoodBackupKept
  <2> QED BY <2>1, <2>2, <2>3 DEF BackupsInv, BackupsAgree
<1> QED BY <1>1, BackupsInitial, BackupsStep, PTL DEF BackupsSpec

(***************************************************************************)
(* Recursive functions of the natural numbers.  Induction on the argument  *)
(* is replaced by a least counterexample, and a value of the function is   *)
(* shown to exist before it is looked at.                                  *)
(***************************************************************************)
Lesser == {p \in Nat \X Nat : p[1] < p[2]}

\* Every non-empty set of natural numbers has a least member.
LEMMA Least ==
    ASSUME NEW T, T \subseteq Nat, T # {}
    PROVE  \E m \in T : \A k \in T : m <= k
<1>1. IsWellFoundedOn(Lesser, Nat)
  BY NatLessThanWellFounded DEF OpToRel, Lesser
<1>2. \E m \in T : \A k \in T : ~ (<<k, m>> \in Lesser)
  BY <1>1, WFMin
<1>3. PICK m \in T : \A k \in T : ~ (<<k, m>> \in Lesser)
  BY <1>2
<1>4. \A k \in T : ~ (k < m)
  BY <1>3 DEF Lesser
<1> QED BY <1>4

\* What holds at first and is handed on holds to the end.
LEMMA HandedOn ==
    ASSUME NEW n \in Nat, NEW T, 0 \in T, \A k \in 1 .. n : k - 1 \in T => k \in T
    PROVE  0 .. n \subseteq T
<1> DEFINE F == {k \in 0 .. n : k \notin T}
<1>1. SUFFICES ASSUME F # {} PROVE FALSE
  OBVIOUS
<1>2. F \subseteq Nat
  OBVIOUS
<1>3. PICK m \in F : \A k \in F : m <= k
  <2> HIDE DEF F
  <2> QED BY <1>1, <1>2, Least
<1>4. m \in 1 .. n /\ m - 1 \in 0 .. n /\ m - 1 \notin F
  BY <1>3
<1> QED BY <1>3, <1>4

\* g is built up from its first value, step by step.
IsBuilt(g, S, n, base, step) ==
    /\ g \in [0 .. n -> S] /\ g[0] = base
    /\ \A k \in 1 .. n : g[k] = step[<<k, g[k - 1]>>]

LEMMA BuiltUp ==
    ASSUME NEW S, NEW n \in Nat, NEW base \in S, NEW step \in [(1 .. n) \X S -> S]
    PROVE  \E g : IsBuilt(g, S, n, base, step)
<1> DEFINE Built(g, m) == /\ g \in [0 .. m -> S] /\ g[0] = base
                          /\ \A k \in 1 .. m : g[k] = step[<<k, g[k - 1]>>]
           T == {m \in 0 .. n : \E g : Built(g, m)}
<1>1. 0 \in T
  <2>1. Built([k \in 0 .. 0 |-> base], 0)
    OBVIOUS
  <2> HIDE DEF Built
  <2> QED BY <2>1
<1>2. ASSUME NEW k \in 1 .. n, k - 1 \in T PROVE k \in T
  <2>1. PICK g : Built(g, k - 1)
    BY <1>2
  <2>2. g[k - 1] \in S /\ step[<<k, g[k - 1]>>] \in S
    BY <2>1
  <2> DEFINE h == [i \in 0 .. k |-> IF i = k THEN step[<<k, g[k - 1]>>] ELSE g[i]]
  <2>3. h \in [0 .. k -> S]
    BY <2>1, <2>2
  <2>4. h[0] = base
    BY <2>1
  <2>5. ASSUME NEW i \in 1 .. k PROVE h[i] = step[<<i, h[i - 1]>>]
    <3>1. i - 1 \in 0 .. k /\ i - 1 # k /\ h[i - 1] = g[i - 1]
      OBVIOUS
    <3>2. CASE i = k
      BY <3>1, <3>2
    <3>3. CASE i # k
      <4>1. i \in 1 .. k - 1 /\ h[i] = g[i]
        BY <3>3
      <4>2. g[i] = step[<<i, g[i - 1]>>]
        BY <4>1, <2>1
      <4> QED BY <4>1, <4>2, <3>1
    <3> QED BY <3>2, <3>3
  <2> HIDE DEF h
  <2>6. Built(h, k)
    BY <2>3, <2>4, <2>5
  <2> HIDE DEF Built
  <2> QED BY <2>6
<1> HIDE DEF Built, T
<1>3. n \in T
  <2>1. 0 .. n \subseteq T
    BY <1>1, <1>2, HandedOn
  <2> QED BY <2>1
<1> QED BY <1>3 DEF T, Built, IsBuilt

(***************************************************************************)
(* What is left of a sequence.                                             *)
(***************************************************************************)
Once(s) == \A i, j \in 1 .. Len(s) : s[i] = s[j] => i = j

\* a is what is left of the first n elements of s, and f where it was.
LeftOver(a, f, s, n, S) ==
    /\ f \in [1 .. Len(a) -> 1 .. n]
    /\ \A i \in 1 .. Len(a) : a[i] = s[f[i]] /\ a[i] \in S
    /\ \A i, j \in 1 .. Len(a) : i < j => f[i] < f[j]
    /\ \A k \in 1 .. n : s[k] \in S => \E i \in 1 .. Len(a) : f[i] = k

\* g has what is left of the first elements of s, for each number of them.
Sifts(g, T, s, S) ==
    /\ g \in [0 .. Len(s) -> Seq(T)]
    /\ Among(s, S) = g[Len(s)]
    /\ g[0] = <<>>
    /\ \A k \in 1 .. Len(s) :
          g[k] = IF s[k] \in S THEN Append(g[k - 1], s[k]) ELSE g[k - 1]

LEMMA AmongUnfolds ==
    ASSUME NEW T, NEW s \in Seq(T), NEW S
    PROVE  \E g : Sifts(g, T, s, S)
<1> DEFINE n == Len(s)
           Rec(g) == g = [k \in 0 .. n |->
                             IF k = 0 THEN <<>>
                             ELSE IF s[k] \in S THEN Append(g[k - 1], s[k]) ELSE g[k - 1]]
           h == CHOOSE g : Rec(g)
           step == [p \in (1 .. n) \X Seq(T) |->
                       IF s[p[1]] \in S THEN Append(p[2], s[p[1]]) ELSE p[2]]
<1>1. n \in Nat /\ <<>> \in Seq(T)
  OBVIOUS
<1>2. step \in [(1 .. n) \X Seq(T) -> Seq(T)]
  OBVIOUS
<1>3. PICK g \in [0 .. n -> Seq(T)] :
          g[0] = <<>> /\ \A k \in 1 .. n : g[k] = step[<<k, g[k - 1]>>]
  <2> DEFINE Q == Seq(T)
  <2>1. <<>> \in Q /\ step \in [(1 .. n) \X Q -> Q]
    BY <1>1, <1>2
  <2> HIDE DEF step, n, Q
  <2>2. \E g : IsBuilt(g, Q, n, <<>>, step)
    BY <1>1, <2>1, BuiltUp
  <2> QED BY <2>2 DEF Q, IsBuilt
<1>4. ASSUME NEW k \in 1 .. n
      PROVE  g[k] = IF s[k] \in S THEN Append(g[k - 1], s[k]) ELSE g[k - 1]
  <2>1. g[k - 1] \in Seq(T) /\ <<k, g[k - 1]>> \in (1 .. n) \X Seq(T)
    <3>1. k - 1 \in 0 .. n
      BY <1>1
    <3> HIDE DEF n, step
    <3>2. g[k - 1] \in Seq(T)
      BY <3>1
    <3> QED BY <3>2
  <2>2. step[<<k, g[k - 1]>>] = IF s[k] \in S THEN Append(g[k - 1], s[k]) ELSE g[k - 1]
    BY <2>1
  <2> HIDE DEF step
  <2> QED BY <1>3, <2>2
<1>5. Rec(g)
  <2> HIDE DEF n, step
  <2>1. \A k \in 0 .. n :
            g[k] = IF k = 0 THEN <<>>
                   ELSE IF s[k] \in S THEN Append(g[k - 1], s[k]) ELSE g[k - 1]
    <3>1. \A k \in 0 .. n : k = 0 \/ k \in 1 .. n
      BY <1>1
    <3> QED BY <1>3, <1>4, <3>1
  <2> QED BY <2>1
<1>6. Rec(h)
  <2> HIDE DEF Rec
  <2> QED BY <1>5
<1>7. Among(s, S) = h[n]
  BY DEF Among
<1> HIDE DEF h, n, step
<1> DEFINE E == {k \in 0 .. n : h[k] = g[k]}
<1>a. /\ h[0] = <<>>
      /\ \A k \in 1 .. n : h[k] = IF s[k] \in S THEN Append(h[k - 1], s[k]) ELSE h[k - 1]
  <2>1. 0 \in 0 .. n /\ \A k \in 1 .. n : k \in 0 .. n /\ k # 0
    BY <1>1
  <2> QED BY <1>6, <2>1
<1> HIDE DEF Rec
<1>8. 0 \in E
  BY <1>1, <1>3, <1>a
<1>9. ASSUME NEW k \in 1 .. n, k - 1 \in E PROVE k \in E
  <2>1. k \in 0 .. n /\ h[k - 1] = g[k - 1]
    BY <1>1, <1>9
  <2> QED BY <1>4, <1>a, <2>1
<1> HIDE DEF E
<1>10. n \in E
  <2>1. 0 .. n \subseteq E
    BY <1>1, <1>8, <1>9, HandedOn
  <2> QED BY <1>1, <2>1
<1> QED BY <1>3, <1>4, <1>7, <1>10 DEF E, n, Sifts

\* What is left keeps its order, and nothing else is left.
LEMMA AmongKeeps ==
    ASSUME NEW T, NEW s \in Seq(T), NEW S
    PROVE  /\ Among(s, S) \in Seq(T)
           /\ \E f : LeftOver(Among(s, S), f, s, Len(s), S)
<1>0. PICK g : Sifts(g, T, s, S)
  BY AmongUnfolds
<1>1. /\ g \in [0 .. Len(s) -> Seq(T)]
      /\ Among(s, S) = g[Len(s)]
      /\ g[0] = <<>>
      /\ \A k \in 1 .. Len(s) :
            g[k] = IF s[k] \in S THEN Append(g[k - 1], s[k]) ELSE g[k - 1]
  BY <1>0 DEF Sifts
<1> DEFINE E == {k \in 0 .. Len(s) : \E f : LeftOver(g[k], f, s, k, S)}
<1>2. 0 \in E
  <2>1. LeftOver(<<>>, <<>>, s, 0, S)
    BY DEF LeftOver
  <2> QED BY <1>1, <2>1
<1>3. ASSUME NEW k \in 1 .. Len(s), k - 1 \in E PROVE k \in E
  <2>1. PICK f : LeftOver(g[k - 1], f, s, k - 1, S)
    BY <1>3
  <2>2. g[k - 1] \in Seq(T) /\ s[k] \in T
    BY <1>1
  <2> DEFINE a == g[k - 1]
             l == Len(a)
  <2>3. l \in Nat
    BY <2>2
  <2>4. CASE s[k] \notin S
    <3>1. g[k] = a
      BY <1>1, <2>4
    <3>2. f \in [1 .. l -> 1 .. k - 1] /\ [1 .. l -> 1 .. k - 1] \subseteq [1 .. l -> 1 .. k]
      BY <2>1 DEF LeftOver
    <3>3. \A m \in 1 .. k : m \in 1 .. k - 1 \/ m = k
      OBVIOUS
    <3>4. LeftOver(a, f, s, k, S)
      BY <2>1, <2>4, <3>2, <3>3 DEF LeftOver
    <3> QED BY <3>1, <3>4
  <2>5. CASE s[k] \in S
    <3>1. g[k] = Append(a, s[k])
      BY <1>1, <2>5
    <3> DEFINE b == Append(a, s[k])
               e == [i \in 1 .. l + 1 |-> IF i = l + 1 THEN k ELSE f[i]]
    <3>2. Len(b) = l + 1 /\ b[l + 1] = s[k] /\ \A i \in 1 .. l : b[i] = a[i]
      BY <2>2, <2>3
    <3>3. f \in [1 .. l -> 1 .. k - 1]
      BY <2>1 DEF LeftOver
    <3>a. \A i \in 1 .. l + 1 : i = l + 1 \/ i \in 1 .. l
      BY <2>3
    <3> HIDE DEF a, l, b
    <3>4. /\ e \in [1 .. l + 1 -> 1 .. k] /\ e[l + 1] = k
          /\ \A i \in 1 .. l : e[i] = f[i] /\ e[i] \in 1 .. k - 1
      BY <2>3, <3>3
    <3> HIDE DEF e
    <3>5. \A i \in 1 .. l : a[i] = s[f[i]] /\ a[i] \in S
      BY <2>1 DEF LeftOver, l, a
    <3>6. \A i \in 1 .. l + 1 : b[i] = s[e[i]] /\ b[i] \in S
      BY <2>5, <3>2, <3>4, <3>5, <3>a
    <3>7. \A i, j \in 1 .. l + 1 : i < j => e[i] < e[j]
      <4>1. \A i, j \in 1 .. l : i < j => f[i] < f[j]
        BY <2>1 DEF LeftOver, l, a
      <4>2. ASSUME NEW i \in 1 .. l + 1, NEW j \in 1 .. l + 1, i < j PROVE e[i] < e[j]
        <5>1. i \in 1 .. l
          BY <4>2, <3>a, <2>3
        <5>2. CASE j \in 1 .. l
          BY <4>1, <4>2, <5>1, <5>2, <3>4
        <5>3. CASE j = l + 1
          BY <5>1, <5>3, <3>4
        <5> QED BY <5>2, <5>3, <3>a
      <4> QED BY <4>2
    <3>8. \A m \in 1 .. k : s[m] \in S => \E i \in 1 .. l + 1 : e[i] = m
      <4>1. \A m \in 1 .. k - 1 : s[m] \in S => \E i \in 1 .. l : f[i] = m
        BY <2>1 DEF LeftOver, l, a
      <4>2. ASSUME NEW m \in 1 .. k, s[m] \in S PROVE \E i \in 1 .. l + 1 : e[i] = m
        <5>1. CASE m = k
          BY <5>1, <3>4, <2>3
        <5>2. CASE m # k
          <6>1. PICK i \in 1 .. l : f[i] = m
            BY <4>1, <4>2, <5>2
          <6> QED BY <6>1, <3>4, <2>3
        <5> QED BY <5>1, <5>2
      <4> QED BY <4>2
    <3>9. LeftOver(b, e, s, k, S)
      BY <3>2, <3>4, <3>6, <3>7, <3>8 DEF LeftOver
    <3>10. g[k] = b
      BY <3>1 DEF b
    <3> QED BY <3>9, <3>10
  <2> QED BY <2>4, <2>5
<1> HIDE DEF E
<1>4. Len(s) \in E
  <2>1. Len(s) \in Nat
    OBVIOUS
  <2>2. 0 .. Len(s) \subseteq E
    BY <1>2, <1>3, <2>1, HandedOn
  <2> QED BY <2>1, <2>2
<1> QED BY <1>1, <1>4 DEF E

LEMMA AmongIs ==
    ASSUME NEW T, NEW s \in Seq(T), NEW S
    PROVE  /\ Among(s, S) \in Seq(T)
           /\ ToSet(Among(s, S)) = ToSet(s) \cap S
           /\ Once(s) => Once(Among(s, S))
<1> DEFINE a == Among(s, S)
<1>1. a \in Seq(T)
  BY AmongKeeps
<1>2. PICK f : LeftOver(a, f, s, Len(s), S)
  BY AmongKeeps
<1>3. /\ f \in [1 .. Len(a) -> 1 .. Len(s)]
      /\ \A i \in 1 .. Len(a) : a[i] = s[f[i]] /\ a[i] \in S
      /\ \A i, j \in 1 .. Len(a) : i < j => f[i] < f[j]
      /\ \A k \in 1 .. Len(s) : s[k] \in S => \E i \in 1 .. Len(a) : f[i] = k
  BY <1>2 DEF LeftOver
<1>4. DOMAIN a = 1 .. Len(a) /\ DOMAIN s = 1 .. Len(s) /\ Len(a) \in Nat /\ Len(s) \in Nat
  BY <1>1
<1> HIDE DEF a
<1>5. ToSet(a) = ToSet(s) \cap S
  BY <1>3, <1>4 DEF ToSet
<1>6. ASSUME Once(s) PROVE Once(a)
  <2>1. SUFFICES ASSUME NEW i \in 1 .. Len(a), NEW j \in 1 .. Len(a), a[i] = a[j]
                 PROVE  i = j
    BY DEF Once
  <2>2. f[i] = f[j]
    BY <1>3, <1>6, <2>1 DEF Once
  <2>3. f[i] \in 1 .. Len(s) /\ f[j] \in 1 .. Len(s)
    BY <1>3
  <2>4. ~(i < j) /\ ~(j < i)
    BY <1>3, <1>4, <2>2, <2>3
  <2> QED BY <1>4, <2>4
<1> QED BY <1>1, <1>5, <1>6 DEF a

(***************************************************************************)
(* Sequences put together.                                                 *)
(***************************************************************************)
LEMMA Joined ==
    ASSUME NEW T, NEW s \in Seq(T), NEW t \in Seq(T)
    PROVE  /\ s \o t \in Seq(T)
           /\ ToSet(s \o t) = ToSet(s) \cup ToSet(t)
           /\ Once(s) /\ Once(t) /\ ToSet(s) \cap ToSet(t) = {} => Once(s \o t)
<1> DEFINE u == s \o t
           m == Len(s)
           n == Len(t)
<1>1. /\ u \in Seq(T) /\ Len(u) = m + n /\ m \in Nat /\ n \in Nat
      /\ DOMAIN u = 1 .. m + n /\ DOMAIN s = 1 .. m /\ DOMAIN t = 1 .. n
      /\ \A i \in 1 .. m : u[i] = s[i] /\ i \in 1 .. m + n
      /\ \A i \in 1 .. n : u[m + i] = t[i] /\ m + i \in 1 .. m + n
  OBVIOUS
<1> HIDE DEF u, m, n
<1>2. \A i \in 1 .. m + n : i \in 1 .. m \/ (i - m \in 1 .. n /\ i = m + (i - m))
  BY <1>1
<1>3. ToSet(u) = ToSet(s) \cup ToSet(t)
  <2>1. \A x \in ToSet(u) : x \in ToSet(s) \cup ToSet(t)
    <3>1. SUFFICES ASSUME NEW i \in 1 .. m + n PROVE u[i] \in ToSet(s) \cup ToSet(t)
      BY <1>1 DEF ToSet
    <3>2. CASE i \in 1 .. m
      BY <1>1, <3>2 DEF ToSet
    <3>3. CASE i - m \in 1 .. n /\ i = m + (i - m)
      <4>1. u[i] = t[i - m]
        BY <1>1, <3>3
      <4> QED BY <1>1, <3>3, <4>1 DEF ToSet
    <3> QED BY <1>2, <3>2, <3>3
  <2>2. \A x \in ToSet(s) : x \in ToSet(u)
    BY <1>1 DEF ToSet
  <2>3. \A x \in ToSet(t) : x \in ToSet(u)
    BY <1>1 DEF ToSet
  <2> QED BY <2>1, <2>2, <2>3
<1>4. ASSUME Once(s), Once(t), ToSet(s) \cap ToSet(t) = {} PROVE Once(u)
  <2>1. SUFFICES ASSUME NEW i \in 1 .. m + n, NEW j \in 1 .. m + n, u[i] = u[j], i < j
                 PROVE  FALSE
    BY <1>1 DEF Once
  <2>2. CASE i \in 1 .. m /\ j \in 1 .. m
    <3>1. s[i] = s[j] /\ i # j
      BY <1>1, <2>1, <2>2
    <3> QED BY <1>4, <2>2, <3>1 DEF Once, m
  <2>3. CASE i \in 1 .. m /\ j - m \in 1 .. n
    <3>1. u[i] = s[i] /\ u[j] = t[j - m]
      <4>1. j = m + (j - m)
        BY <1>1
      <4> QED BY <1>1, <2>3, <4>1
    <3>2. u[i] \in ToSet(s) /\ u[j] \in ToSet(t)
      BY <1>1, <2>3, <3>1 DEF ToSet
    <3> QED BY <1>4, <2>1, <3>2
  <2>4. CASE i - m \in 1 .. n /\ j - m \in 1 .. n
    <3>1. t[i - m] = t[j - m]
      BY <1>1, <1>2, <2>1, <2>4
    <3>2. i - m = j - m
      BY <1>4, <2>4, <3>1 DEF Once, n
    <3> QED BY <1>1, <2>1, <3>2
  <2> QED BY <1>1, <1>2, <2>1, <2>2, <2>3, <2>4
<1> QED BY <1>1, <1>3, <1>4 DEF u

\* A sequence without repetitions has as many elements as it is long.
LEMMA OnceCounts ==
    ASSUME NEW T, NEW s \in Seq(T), Once(s)
    PROVE  IsFiniteSet(ToSet(s)) /\ Cardinality(ToSet(s)) = Len(s)
<1>1. Len(s) \in Nat /\ DOMAIN s = 1 .. Len(s)
  OBVIOUS
<1>2. s \in Bijection(1 .. Len(s), ToSet(s))
  BY <1>1 DEF Bijection, Injection, Surjection, IsInjective, ToSet, Once
<1>3. ExistsBijection(1 .. Len(s), ToSet(s))
  BY <1>2 DEF ExistsBijection
<1> QED BY <1>1, <1>3, FS_CountingElements, FS_NatBijection

(***************************************************************************)
(* The graph.                                                              *)
(***************************************************************************)
IsRelease(r) ==
    /\ r.files \in [Nodes -> Nat] /\ r.deps \in [Nodes -> SUBSET Nodes]
    /\ r.listed \in [Nodes -> Seq(Nodes)]
    /\ \A m \in Nodes : ToSet(r.listed[m]) = r.deps[m] /\ Once(r.listed[m])

\* The modules with files and those that they name.
Met(r) == WithFiles(r) \cup UNION {r.deps[m] : m \in WithFiles(r)}

LEMMA AscendingIs ==
    ASSUME Modules \in Nat, NEW S \in SUBSET Nodes
    PROVE  Ascending(S) \in Seq(Nodes) /\ ToSet(Ascending(S)) = S /\ Once(Ascending(S))
<1> DEFINE s == [k \in 1 .. Modules + 1 |-> k - 1]
<1>1. s \in Seq(Nodes) /\ Len(s) = Modules + 1 /\ DOMAIN s = 1 .. Modules + 1
  BY DEF Nodes
<1>2. Once(s)
  BY <1>1 DEF Once
<1>3. ToSet(s) = Nodes
  <2>1. \A n \in Nodes : n + 1 \in 1 .. Modules + 1 /\ s[n + 1] = n
    BY DEF Nodes
  <2>2. \A k \in 1 .. Modules + 1 : s[k] \in Nodes
    BY DEF Nodes
  <2> HIDE DEF s
  <2> QED BY <1>1, <2>1, <2>2 DEF ToSet
<1>4. Ascending(S) = Among(s, S)
  BY DEF Ascending
<1> HIDE DEF s
<1>5. /\ Among(s, S) \in Seq(Nodes) /\ ToSet(Among(s, S)) = ToSet(s) \cap S
      /\ Once(s) => Once(Among(s, S))
  BY <1>1, AmongIs
<1> QED BY <1>2, <1>3, <1>4, <1>5

LEMMA EnteringIs ==
    ASSUME Modules \in Nat, NEW r, IsRelease(r), NEW m \in Nodes
    PROVE  /\ Entering(r, m) \in Seq(Nodes) /\ Once(Entering(r, m))
           /\ ToSet(Entering(r, m)) = IF m \in WithFiles(r) THEN {m} \cup r.deps[m] ELSE {}
<1>1. CASE m \notin WithFiles(r)
  BY <1>1 DEF Entering, Once, ToSet
<1>2. CASE m \in WithFiles(r)
  <2> DEFINE s == r.listed[m]
             t == Among(s, r.deps[m] \ {m})
             u == <<m>>
  <2>1. s \in Seq(Nodes) /\ ToSet(s) = r.deps[m] /\ Once(s)
    BY DEF IsRelease
  <2> HIDE DEF s
  <2>2. t \in Seq(Nodes) /\ ToSet(t) = r.deps[m] \ {m} /\ Once(t)
    BY <2>1, AmongIs
  <2>3. u \in Seq(Nodes) /\ ToSet(u) = {m} /\ Once(u)
    BY DEF ToSet, Once
  <2>4. Entering(r, m) = u \o t
    BY <1>2 DEF Entering, s
  <2> HIDE DEF t, u
  <2>5. ToSet(u) \cap ToSet(t) = {}
    BY <2>2, <2>3
  <2>6. u \o t \in Seq(Nodes) /\ Once(u \o t)
        /\ ToSet(u \o t) = ToSet(u) \cup ToSet(t)
    BY <2>2, <2>3, <2>5, Joined
  <2>7. {m} \cup (r.deps[m] \ {m}) = {m} \cup r.deps[m]
    OBVIOUS
  <2> QED BY <1>2, <2>2, <2>3, <2>4, <2>6, <2>7
<1> QED BY <1>1, <1>2

\* g has the nodes of the graph that the first modules bring in.
Enters(g, r) ==
    /\ g \in [0 .. Modules + 1 -> Seq(Nodes)]
    /\ GraphNodes(r) = g[Modules + 1]
    /\ g[0] = <<>>
    /\ \A k \in 1 .. Modules + 1 :
          g[k] = g[k - 1] \o Among(Entering(r, k - 1), Nodes \ ToSet(g[k - 1]))

LEMMA GraphUnfolds ==
    ASSUME Modules \in Nat, NEW r, IsRelease(r)
    PROVE  \E g : Enters(g, r)
<1> DEFINE n == Modules + 1
           Rec(g) == g = [k \in 0 .. n |->
                             IF k = 0 THEN <<>>
                             ELSE g[k - 1]
                                  \o Among(Entering(r, k - 1), Nodes \ ToSet(g[k - 1]))]
           h == CHOOSE g : Rec(g)
           Q == Seq(Nodes)
           step == [p \in (1 .. n) \X Q |->
                       p[2] \o Among(Entering(r, p[1] - 1), Nodes \ ToSet(p[2]))]
<1>1. n \in Nat /\ <<>> \in Q /\ \A k \in 1 .. n : k - 1 \in Nodes /\ k - 1 \in 0 .. n
  BY DEF Nodes
<1>2. step \in [(1 .. n) \X Q -> Q]
  <2>1. \A k \in 1 .. n : \A S : Among(Entering(r, k - 1), S) \in Seq(Nodes)
    BY <1>1, EnteringIs, AmongIs
  <2> HIDE DEF n
  <2>2. \A p \in (1 .. n) \X Q : p[1] \in 1 .. n /\ p[2] \in Seq(Nodes)
    OBVIOUS
  <2>3. \A s, t \in Seq(Nodes) : s \o t \in Seq(Nodes)
    OBVIOUS
  <2>4. \A p \in (1 .. n) \X Q :
            p[2] \o Among(Entering(r, p[1] - 1), Nodes \ ToSet(p[2])) \in Q
    BY <2>1, <2>2, <2>3
  <2> HIDE DEF Q
  <2> QED BY <2>4
<1>3. PICK g : IsBuilt(g, Q, n, <<>>, step)
  <2> HIDE DEF step, n, Q
  <2> QED BY <1>1, <1>2, BuiltUp
<1>4. g \in [0 .. n -> Q] /\ g[0] = <<>>
      /\ \A k \in 1 .. n : g[k] = step[<<k, g[k - 1]>>]
  BY <1>3 DEF IsBuilt
<1>5. ASSUME NEW k \in 1 .. n
      PROVE  g[k] = g[k - 1] \o Among(Entering(r, k - 1), Nodes \ ToSet(g[k - 1]))
  <2>1. g[k - 1] \in Q /\ <<k, g[k - 1]>> \in (1 .. n) \X Q
    <3> HIDE DEF n, Q, step
    <3>1. g[k - 1] \in Q
      BY <1>1, <1>4
    <3> QED BY <3>1
  <2> HIDE DEF n, Q
  <2>2. step[<<k, g[k - 1]>>]
            = g[k - 1] \o Among(Entering(r, k - 1), Nodes \ ToSet(g[k - 1]))
    BY <2>1
  <2> HIDE DEF step
  <2> QED BY <1>4, <2>2
<1>6. Rec(g)
  <2> HIDE DEF n, step, Q
  <2>1. \A k \in 0 .. n :
            g[k] = IF k = 0 THEN <<>>
                   ELSE g[k - 1] \o Among(Entering(r, k - 1), Nodes \ ToSet(g[k - 1]))
    <3>1. \A k \in 0 .. n : k = 0 \/ k \in 1 .. n
      BY <1>1
    <3> QED BY <1>4, <1>5, <3>1
  <2> QED BY <1>4, <2>1
<1>7. Rec(h)
  <2> HIDE DEF Rec
  <2> QED BY <1>6
<1>8. GraphNodes(r) = h[n]
  BY DEF GraphNodes
<1> HIDE DEF h, n, step, Q
<1>9. /\ h[0] = <<>>
      /\ \A k \in 1 .. n :
            h[k] = h[k - 1] \o Among(Entering(r, k - 1), Nodes \ ToSet(h[k - 1]))
  <2>1. 0 \in 0 .. n /\ \A k \in 1 .. n : k \in 0 .. n /\ k # 0
    BY <1>1
  <2> QED BY <1>7, <2>1
<1> HIDE DEF Rec
<1> DEFINE E == {k \in 0 .. n : h[k] = g[k]}
<1>10. 0 \in E
  BY <1>1, <1>4, <1>9
<1>11. ASSUME NEW k \in 1 .. n, k - 1 \in E PROVE k \in E
  <2>1. k \in 0 .. n /\ h[k - 1] = g[k - 1]
    BY <1>1, <1>11
  <2> QED BY <1>5, <1>9, <2>1
<1> HIDE DEF E
<1>12. n \in E
  <2>1. 0 .. n \subseteq E
    BY <1>1, <1>10, <1>11, HandedOn
  <2> QED BY <1>1, <2>1
<1> QED BY <1>4, <1>5, <1>8, <1>12 DEF E, n, Q, Enters

\* The graph has the modules with files and what they name, each once.
LEMMA GraphIs ==
    ASSUME Modules \in Nat, NEW r, IsRelease(r)
    PROVE  /\ GraphNodes(r) \in Seq(Nodes) /\ Once(GraphNodes(r))
           /\ ToSet(GraphNodes(r)) = Met(r)
<1> DEFINE n == Modules + 1
           MetBy(k) == UNION {ToSet(Entering(r, m)) : m \in {l \in Nodes : l < k}}
<1>1. PICK g : Enters(g, r)
  BY GraphUnfolds
<1>2. /\ g \in [0 .. n -> Seq(Nodes)] /\ GraphNodes(r) = g[n] /\ g[0] = <<>>
      /\ \A k \in 1 .. n :
            g[k] = g[k - 1] \o Among(Entering(r, k - 1), Nodes \ ToSet(g[k - 1]))
  BY <1>1 DEF Enters
<1>3. n \in Nat /\ \A k \in 1 .. n : k - 1 \in Nodes /\ k - 1 \in 0 .. n /\ k \in 0 .. n
  BY DEF Nodes
<1>4. MetBy(n) = Met(r)
  <2>1. {l \in Nodes : l < n} = Nodes
    BY DEF Nodes
  <2>2. \A m \in Nodes : ToSet(Entering(r, m))
            = IF m \in WithFiles(r) THEN {m} \cup r.deps[m] ELSE {}
    BY EnteringIs
  <2>3. WithFiles(r) \subseteq Nodes
    BY DEF WithFiles
  <2> QED BY <2>1, <2>2, <2>3 DEF Met
<1> HIDE DEF n
<1> DEFINE E == {k \in 0 .. n : Once(g[k]) /\ ToSet(g[k]) = MetBy(k)}
<1>5. 0 \in E
  <2>1. {l \in Nodes : l < 0} = {}
    BY DEF Nodes
  <2>2. Once(<<>>) /\ ToSet(<<>>) = {}
    BY DEF Once, ToSet
  <2> QED BY <1>2, <1>3, <2>1, <2>2
<1>6. ASSUME NEW k \in 1 .. n, k - 1 \in E PROVE k \in E
  <2> DEFINE s == g[k - 1]
             e == Entering(r, k - 1)
             t == Among(e, Nodes \ ToSet(s))
  <2>1. s \in Seq(Nodes) /\ Once(s) /\ ToSet(s) = MetBy(k - 1)
    BY <1>2, <1>3, <1>6
  <2>2. e \in Seq(Nodes) /\ Once(e)
    BY <1>3, EnteringIs
  <2>3. t \in Seq(Nodes) /\ Once(t) /\ ToSet(t) = ToSet(e) \cap (Nodes \ ToSet(s))
    <3> HIDE DEF e, s
    <3> QED BY <2>2, AmongIs
  <2>4. g[k] = s \o t
    BY <1>2
  <2>5. ToSet(e) \subseteq Nodes
    BY <2>2 DEF ToSet
  <2>6. MetBy(k) = MetBy(k - 1) \cup ToSet(e)
    <3>1. {l \in Nodes : l < k} = {l \in Nodes : l < k - 1} \cup {k - 1}
      BY <1>3 DEF Nodes
    <3> QED BY <3>1
  <2> HIDE DEF s, e, t, MetBy
  <2>7. Once(s \o t) /\ ToSet(s \o t) = ToSet(s) \cup ToSet(t)
    BY <2>1, <2>3, Joined
  <2>8. ToSet(s) \cup ToSet(t) = MetBy(k)
    BY <2>1, <2>3, <2>5, <2>6
  <2> QED BY <1>3, <2>4, <2>7, <2>8
<1> HIDE DEF E, MetBy
<1>7. n \in E
  <2>1. 0 .. n \subseteq E
    BY <1>3, <1>5, <1>6, HandedOn
  <2> QED BY <1>3, <2>1
<1>8. g[n] \in Seq(Nodes)
  BY <1>2, <1>3
<1> QED BY <1>2, <1>4, <1>7, <1>8 DEF E

(***************************************************************************)
(* Kahn's algorithm.                                                       *)
(***************************************************************************)
Sorting == [queue : Seq(Nodes), waits : [Nodes -> Int], done : Seq(Nodes)]

\* How many modules n still waits for when those of D are done.
Waits(r, n, D) == IF n \in WithFiles(r) THEN Cardinality(r.deps[n] \ D) ELSE 0

\* The modules that s has come to are those that wait for nothing.
Reached(r, s) ==
    /\ \A n \in Nodes : s.waits[n] = Waits(r, n, ToSet(s.done))
    /\ ToSet(s.done) \cup ToSet(s.queue) = {n \in Met(r) : s.waits[n] = 0}

\* Each of them is come to once, after the modules that it names.
InLine(r, o) ==
    \A i \in 1 .. Len(o) : o[i] \in WithFiles(r) =>
        \A d \in r.deps[o[i]] : \E j \in 1 .. i - 1 : o[j] = d

Sorted(r, s, k) ==
    /\ s \in Sorting
    /\ Once(s.done) /\ Once(s.queue) /\ ToSet(s.done) \cap ToSet(s.queue) = {}
    /\ Reached(r, s)
    /\ InLine(r, s.done)
    /\ s.queue = <<>> \/ Len(s.done) = k

LEMMA NodesFinite == Modules \in Nat => IsFiniteSet(Nodes) /\ Cardinality(Nodes) = Modules + 1
<1> SUFFICES ASSUME Modules \in Nat PROVE IsFiniteSet(Nodes) /\ Cardinality(Nodes) = Modules + 1
  OBVIOUS
<1>1. 0 \in Int /\ Modules \in Int /\ ~(0 > Modules)
  OBVIOUS
<1> QED BY <1>1, FS_Interval DEF Nodes

LEMMA Counts ==
    ASSUME Modules \in Nat, NEW S \in SUBSET Nodes
    PROVE  IsFiniteSet(S) /\ Cardinality(S) \in Nat /\ (Cardinality(S) = 0 <=> S = {})
BY NodesFinite, FS_Subset, FS_CardinalityType, FS_EmptySet

LEMMA FirstIsSorted ==
    ASSUME Modules \in Nat, NEW r, IsRelease(r)
    PROVE  Sorted(r, FirstInLine(r), 0)
<1> DEFINE s == FirstInLine(r)
           Z == {m \in Nodes : InDegree(r, m) = 0}
<1>1. \A m \in Nodes : InDegree(r, m) \in Nat /\ InDegree(r, m) = Waits(r, m, {})
  <2>1. \A m \in Nodes : r.deps[m] \in SUBSET Nodes /\ r.deps[m] \ {} = r.deps[m]
    BY DEF IsRelease
  <2> QED BY <2>1, Counts DEF InDegree, Waits
<1>2. /\ s.queue = Among(GraphNodes(r), Z) /\ s.done = <<>>
      /\ s.waits = [m \in Nodes |-> InDegree(r, m)]
      /\ s = [queue |-> s.queue, waits |-> s.waits, done |-> s.done]
  BY DEF FirstInLine
<1>3. GraphNodes(r) \in Seq(Nodes) /\ Once(GraphNodes(r)) /\ ToSet(GraphNodes(r)) = Met(r)
  BY GraphIs
<1> HIDE DEF Z, s
<1>4. s.queue \in Seq(Nodes) /\ Once(s.queue) /\ ToSet(s.queue) = Met(r) \cap Z
  <2>1. /\ Among(GraphNodes(r), Z) \in Seq(Nodes)
        /\ ToSet(Among(GraphNodes(r), Z)) = ToSet(GraphNodes(r)) \cap Z
        /\ Once(Among(GraphNodes(r), Z))
    BY <1>3, AmongIs
  <2> QED BY <1>2, <1>3, <2>1
<1>5. ToSet(s.done) = {} /\ Once(s.done) /\ Len(s.done) = 0 /\ s.done \in Seq(Nodes)
  BY <1>2 DEF ToSet, Once
<1>6. s \in Sorting
  <2>1. s.waits \in [Nodes -> Int]
    BY <1>1, <1>2
  <2>2. [queue |-> s.queue, waits |-> s.waits, done |-> s.done] \in Sorting
    BY <1>4, <1>5, <2>1 DEF Sorting
  <2> QED BY <1>2, <2>2
<1>7. Reached(r, s)
  <2>1. \A n \in Nodes : s.waits[n] = InDegree(r, n)
    BY <1>2
  <2>2. Met(r) \subseteq Nodes
    BY <1>3 DEF ToSet
  <2>3. Met(r) \cap Z = {n \in Met(r) : s.waits[n] = 0}
    BY <2>1, <2>2 DEF Z
  <2> QED BY <1>1, <1>4, <1>5, <2>1, <2>3 DEF Reached
<1>8. InLine(r, s.done)
  BY <1>5 DEF InLine
<1> QED BY <1>4, <1>5, <1>6, <1>7, <1>8 DEF Sorted, s

LEMMA DequeueSorts ==
    ASSUME Modules \in Nat, NEW r, IsRelease(r), NEW k \in Nat, NEW s, Sorted(r, s, k)
    PROVE  Sorted(r, Dequeue(r, s), k + 1)
<1>1. CASE s.queue = <<>>
  BY <1>1 DEF Dequeue, Sorted
<1>2. CASE s.queue # <<>>
  <2> DEFINE m == Head(s.queue)
             D == ToSet(s.done)
             waits == [n \in Nodes |-> IF n \in Dependents(r, m) THEN s.waits[n] - 1
                                       ELSE s.waits[n]]
             ready == {n \in Dependents(r, m) : waits[n] = 0}
             q == Tail(s.queue)
             a == Ascending(ready)
             done == Append(s.done, m)
             t == [queue |-> q \o a, waits |-> waits, done |-> done]
  <2>1. /\ s.queue \in Seq(Nodes) /\ s.waits \in [Nodes -> Int] /\ s.done \in Seq(Nodes)
        /\ Once(s.done) /\ Once(s.queue) /\ D \cap ToSet(s.queue) = {}
        /\ Reached(r, s) /\ InLine(r, s.done) /\ Len(s.done) = k
    BY <1>2 DEF Sorted, Sorting
  <2>2. Dequeue(r, s) = t
    BY <1>2 DEF Dequeue
  <2>3. /\ m \in Nodes /\ m \in ToSet(s.queue)
        /\ q \in Seq(Nodes) /\ Once(q) /\ ToSet(q) = ToSet(s.queue) \ {m}
    <3> DEFINE u == s.queue
    <3> HIDE DEF u
    <3>1. u \in Seq(Nodes) /\ u # <<>> /\ Once(u)
      BY <1>2, <2>1 DEF u
    <3>2. /\ Head(u) = u[1] /\ Tail(u) \in Seq(Nodes) /\ Len(Tail(u)) = Len(u) - 1
          /\ Len(u) \in Nat \ {0} /\ DOMAIN u = 1 .. Len(u)
          /\ DOMAIN Tail(u) = 1 .. Len(u) - 1
          /\ \A i \in 1 .. Len(u) - 1 : Tail(u)[i] = u[i + 1]
      BY <3>1
    <3>3. Once(Tail(u))
      BY <3>1, <3>2 DEF Once
    <3>4. u[1] \in Nodes /\ u[1] \in ToSet(u)
      BY <3>1, <3>2 DEF ToSet
    <3>5. ASSUME NEW x \in ToSet(u), x # u[1] PROVE x \in ToSet(Tail(u))
      <4>1. PICK i \in 1 .. Len(u) : x = u[i]
        BY <3>2 DEF ToSet
      <4>2. i - 1 \in 1 .. Len(u) - 1 /\ (i - 1) + 1 = i
        BY <3>2, <3>5, <4>1
      <4>3. Tail(u)[i - 1] = x
        BY <3>2, <4>1, <4>2
      <4> QED BY <3>2, <4>2, <4>3 DEF ToSet
    <3>6. ASSUME NEW x \in ToSet(Tail(u)) PROVE x \in ToSet(u) /\ x # u[1]
      <4>1. PICK i \in 1 .. Len(u) - 1 : x = u[i + 1]
        BY <3>2 DEF ToSet
      <4> QED BY <3>1, <3>2, <4>1 DEF ToSet, Once
    <3> QED BY <3>2, <3>3, <3>4, <3>5, <3>6 DEF u
  <2>4. /\ \A n \in Nodes : s.waits[n] = Waits(r, n, D)
        /\ D \cup ToSet(s.queue) = {n \in Met(r) : s.waits[n] = 0}
    BY <2>1 DEF Reached
  <2>5. WithFiles(r) \subseteq Nodes /\ Dependents(r, m) \subseteq WithFiles(r)
        /\ \A n \in Nodes : r.deps[n] \in SUBSET Nodes
    BY DEF WithFiles, Dependents, IsRelease
  <2>6. m \notin D /\ m \in Met(r) /\ Waits(r, m, D) = 0
    BY <2>1, <2>3, <2>4
  <2>7. ToSet(done) = D \cup {m}
    <3>1. /\ Len(done) = Len(s.done) + 1 /\ done[Len(s.done) + 1] = m
          /\ Len(s.done) \in Nat /\ DOMAIN s.done = 1 .. Len(s.done)
          /\ DOMAIN done = 1 .. Len(s.done) + 1
          /\ \A i \in 1 .. Len(s.done) : done[i] = s.done[i]
      BY <2>1, <2>3
    <3> HIDE DEF done, m
    <3> QED BY <3>1 DEF ToSet
  <2>8. waits \in [Nodes -> Int]
    BY <2>1
  <2>9. ASSUME NEW n \in Nodes PROVE waits[n] = Waits(r, n, D \cup {m})
    <3>1. waits[n] = IF n \in Dependents(r, m) THEN s.waits[n] - 1 ELSE s.waits[n]
      OBVIOUS
    <3> HIDE DEF waits, D, m
    <3>2. CASE n \in Dependents(r, m)
      <4>1. n \in WithFiles(r) /\ m \in r.deps[n] \ D
        BY <2>6, <3>2 DEF Dependents
      <4>2. r.deps[n] \ D \in SUBSET Nodes /\ (r.deps[n] \ D) \ {m} = r.deps[n] \ (D \cup {m})
        BY <2>5
      <4>3. Cardinality((r.deps[n] \ D) \ {m}) = Cardinality(r.deps[n] \ D) - 1
        BY <4>1, <4>2, Counts, FS_RemoveElement
      <4> QED BY <2>4, <3>1, <3>2, <4>1, <4>2, <4>3 DEF Waits
    <3>3. CASE n \notin Dependents(r, m)
      <4>1. n \in WithFiles(r) => r.deps[n] \ (D \cup {m}) = r.deps[n] \ D
        BY <3>3 DEF Dependents
      <4> QED BY <2>4, <3>1, <3>3, <4>1 DEF Waits
    <3> QED BY <3>2, <3>3
  <2>10. ready \in SUBSET Nodes
    BY <2>5
  <2>11. a \in Seq(Nodes) /\ ToSet(a) = ready /\ Once(a)
    <3> HIDE DEF ready
    <3> QED BY <2>10, AscendingIs
  <2>12. \A n \in ready : n \in Met(r) /\ s.waits[n] = 1 /\ waits[n] = 0
    <3>1. \A n \in ready : n \in Nodes /\ waits[n] = 0 /\ waits[n] = s.waits[n] - 1
                            /\ s.waits[n] \in Int
      BY <2>1, <2>5
    <3>2. \A n \in ready : n \in Met(r)
      BY <2>5 DEF Met
    <3> HIDE DEF ready, waits
    <3> QED BY <3>1, <3>2
  <2>13. \A n \in D \cup ToSet(s.queue) : waits[n] = 0
    <3>1. SUFFICES ASSUME NEW n \in D \cup ToSet(s.queue) PROVE waits[n] = 0
      OBVIOUS
    <3>2. n \in Nodes /\ s.waits[n] = 0
      BY <2>1, <2>4 DEF ToSet
    <3>3. n \notin Dependents(r, m)
      <4>1. SUFFICES ASSUME n \in Dependents(r, m) PROVE FALSE
        OBVIOUS
      <4>2. n \in WithFiles(r) /\ m \in r.deps[n] \ D
        BY <2>6, <4>1 DEF Dependents
      <4>3. Cardinality(r.deps[n] \ D) = 0
        BY <2>4, <3>2, <4>2 DEF Waits
      <4>4. r.deps[n] \ D \in SUBSET Nodes
        BY <2>5, <3>2
      <4> HIDE DEF D, m
      <4> QED BY <4>2, <4>3, <4>4, Counts
    <3> QED BY <3>2, <3>3
  <2>14. \A n \in Met(r) : waits[n] = 0 => n \in D \cup ToSet(s.queue) \cup ready
    <3>1. SUFFICES ASSUME NEW n \in Met(r), waits[n] = 0
                   PROVE  n \in D \cup ToSet(s.queue) \cup ready
      OBVIOUS
    <3>2. CASE n \in Dependents(r, m)
      BY <3>1, <3>2
    <3>3. CASE n \notin Dependents(r, m)
      <4>1. n \in Nodes
        BY GraphIs DEF ToSet
      <4>2. s.waits[n] = 0
        BY <3>1, <3>3, <4>1
      <4> QED BY <2>4, <4>2
    <3> QED BY <3>2, <3>3
  <2>15. (D \cup {m}) \cup ((ToSet(s.queue) \ {m}) \cup ready) = {n \in Met(r) : waits[n] = 0}
    <3> HIDE DEF D, m, ready, waits
    <3>1. \A n \in D \cup ToSet(s.queue) \cup ready : n \in Met(r) /\ waits[n] = 0
      BY <2>4, <2>12, <2>13
    <3> QED BY <2>3, <2>14, <3>1
  <2>16. ready \cap (D \cup ToSet(s.queue)) = {}
    <3>1. \A n \in D \cup ToSet(s.queue) : s.waits[n] = 0
      BY <2>4
    <3> HIDE DEF ready, waits, D
    <3> QED BY <2>12, <3>1
  <2>17. /\ q \o a \in Seq(Nodes) /\ ToSet(q \o a) = (ToSet(s.queue) \ {m}) \cup ready
         /\ Once(q \o a)
    <3>1. ToSet(q) \cap ToSet(a) = {}
      BY <2>3, <2>11, <2>16
    <3> HIDE DEF q, a, m, ready
    <3>2. q \o a \in Seq(Nodes) /\ ToSet(q \o a) = ToSet(q) \cup ToSet(a) /\ Once(q \o a)
      BY <2>3, <2>11, <3>1, Joined
    <3> QED BY <2>3, <2>11, <3>2
  <2>18. /\ done \in Seq(Nodes) /\ Len(done) = k + 1 /\ done[k + 1] = m
         /\ \A i \in 1 .. k : done[i] = s.done[i]
    <3> DEFINE u == s.done
    <3>1. u \in Seq(Nodes) /\ Len(u) = k
      BY <2>1
    <3> HIDE DEF u, m
    <3> QED BY <2>3, <3>1 DEF u
  <2> HIDE DEF q, a, ready, waits, done, m
  <2>19. Once(done)
    <3>1. SUFFICES ASSUME NEW i \in 1 .. k + 1, NEW j \in 1 .. k + 1, i < j, done[i] = done[j]
                   PROVE  FALSE
      BY <2>18 DEF Once
    <3>2. i \in 1 .. k /\ done[i] = s.done[i] /\ s.done[i] \in D
      <4>1. i \in 1 .. k
        BY <3>1
      <4> QED BY <2>1, <2>18, <4>1 DEF ToSet
    <3>3. CASE j = k + 1
      BY <2>6, <2>18, <3>1, <3>2, <3>3
    <3>4. CASE j # k + 1
      <4>1. j \in 1 .. k
        BY <3>4
      <4>a. done[j] = s.done[j]
        BY <2>18, <4>1
      <4>b. i # j
        BY <3>1
      <4>2. s.done[i] = s.done[j] /\ i # j
        BY <3>1, <3>2, <4>a, <4>b
      <4>3. i \in 1 .. Len(s.done) /\ j \in 1 .. Len(s.done)
        BY <2>1, <3>2, <4>1
      <4> QED BY <2>1, <4>2, <4>3 DEF Once
    <3> QED BY <3>3, <3>4
  <2>20. InLine(r, done)
    <3>1. SUFFICES ASSUME NEW i \in 1 .. k + 1, done[i] \in WithFiles(r),
                          NEW d \in r.deps[done[i]]
                   PROVE  \E j \in 1 .. i - 1 : done[j] = d
      BY <2>18 DEF InLine
    <3>2. CASE i = k + 1
      <4>1. Cardinality(r.deps[m] \ D) = 0 /\ r.deps[m] \ D \in SUBSET Nodes
        BY <2>3, <2>5, <2>6, <2>18, <3>1, <3>2 DEF Waits
      <4>2. r.deps[m] \ D = {}
        <5> HIDE DEF D
        <5> QED BY <4>1, Counts
      <4>3. d \in D
        BY <2>18, <3>1, <3>2, <4>2
      <4>4. PICK j \in 1 .. k : s.done[j] = d
        BY <2>1, <4>3 DEF ToSet
      <4> QED BY <2>18, <3>2, <4>4
    <3>3. CASE i # k + 1
      <4>1. i \in 1 .. k /\ done[i] = s.done[i]
        BY <2>18, <3>3
      <4>2. PICK j \in 1 .. i - 1 : s.done[j] = d
        BY <2>1, <3>1, <4>1 DEF InLine
      <4>3. j \in 1 .. k
        BY <4>1, <4>2
      <4> QED BY <2>18, <4>2, <4>3
    <3> QED BY <3>2, <3>3
  <2>21. t.queue = q \o a /\ t.waits = waits /\ t.done = done
    OBVIOUS
  <2>22. t \in Sorting
    BY <2>8, <2>17, <2>18 DEF Sorting
  <2> HIDE DEF t, D
  <2>23. Reached(r, t)
    BY <2>7, <2>9, <2>15, <2>17, <2>21 DEF Reached
  <2>24. ToSet(t.done) \cap ToSet(t.queue) = {}
    BY <2>1, <2>3, <2>6, <2>7, <2>16, <2>17, <2>21
  <2>25. Sorted(r, t, k + 1)
    BY <2>17, <2>18, <2>19, <2>20, <2>21, <2>22, <2>23, <2>24 DEF Sorted
  <2> QED BY <2>2, <2>25
<1> QED BY <1>1, <1>2

\* g has the state of the algorithm after each of its rounds.
Rounds(g, r) ==
    /\ g \in [0 .. Modules + 1 -> Sorting]
    /\ ModuleOrder(r) = g[Modules + 1].done
    /\ \A k \in 0 .. Modules + 1 : Sorted(r, g[k], k)

LEMMA OrderUnfolds ==
    ASSUME Modules \in Nat, NEW r, IsRelease(r)
    PROVE  \E g : Rounds(g, r)
<1> DEFINE n == Modules + 1
           Rec(g) == g = [k \in 0 .. n |-> IF k = 0 THEN FirstInLine(r) ELSE Dequeue(r, g[k - 1])]
           h == CHOOSE g : Rec(g)
           Q == {p \in (0 .. n) \X Sorting : Sorted(r, p[2], p[1])}
           first == <<0, FirstInLine(r)>>
           step == [p \in (1 .. n) \X Q |->
                       IF p[2][1] = n THEN p[2] ELSE <<p[2][1] + 1, Dequeue(r, p[2][2])>>]
<1>1. n \in Nat /\ \A k \in 1 .. n : k - 1 \in 0 .. n /\ k \in 0 .. n /\ k # 0
  OBVIOUS
<1>2. first \in Q
  <2>1. Sorted(r, FirstInLine(r), 0) /\ FirstInLine(r) \in Sorting
    BY FirstIsSorted DEF Sorted
  <2> QED BY <1>1, <2>1
<1> HIDE DEF n
<1>3. step \in [(1 .. n) \X Q -> Q]
  <2>1. ASSUME NEW p \in Q, p[1] # n PROVE <<p[1] + 1, Dequeue(r, p[2])>> \in Q
    <3>1. p[1] \in Nat /\ p[1] + 1 \in 0 .. n /\ Sorted(r, p[2], p[1])
      BY <1>1, <2>1
    <3>2. Sorted(r, Dequeue(r, p[2]), p[1] + 1)
      BY <3>1, DequeueSorts
    <3>3. Dequeue(r, p[2]) \in Sorting
      BY <3>2 DEF Sorted
    <3> QED BY <3>1, <3>2, <3>3
  <2> HIDE DEF Q
  <2> QED BY <2>1
<1>4. PICK f : IsBuilt(f, Q, n, first, step)
  <2> HIDE DEF step, Q, first
  <2> QED BY <1>1, <1>2, <1>3, BuiltUp
<1>5. f \in [0 .. n -> Q] /\ f[0] = first /\ \A k \in 1 .. n : f[k] = step[<<k, f[k - 1]>>]
  BY <1>4 DEF IsBuilt
<1>6. \A k \in 1 .. n : f[k] = IF f[k - 1][1] = n THEN f[k - 1]
                               ELSE <<f[k - 1][1] + 1, Dequeue(r, f[k - 1][2])>>
  <2>1. \A k \in 1 .. n : f[k - 1] \in Q
    <3> HIDE DEF Q, step
    <3> QED BY <1>1, <1>5
  <2> HIDE DEF Q
  <2> QED BY <1>5, <2>1
<1> DEFINE F == {k \in 0 .. n : f[k][1] = k}
<1>7. 0 .. n \subseteq F
  <2>1. 0 \in F
    BY <1>1, <1>5
  <2>2. ASSUME NEW k \in 1 .. n, k - 1 \in F PROVE k \in F
    <3>1. f[k - 1][1] = k - 1 /\ k - 1 # n
      BY <1>1, <2>2
    <3>2. f[k] = <<k, Dequeue(r, f[k - 1][2])>>
      <4>1. f[k] = <<f[k - 1][1] + 1, Dequeue(r, f[k - 1][2])>>
        BY <1>6, <3>1
      <4>2. f[k - 1][1] + 1 = k
        BY <3>1
      <4> QED BY <4>1, <4>2
    <3> QED BY <1>1, <3>2
  <2> HIDE DEF F
  <2> QED BY <1>1, <2>1, <2>2, HandedOn
<1> DEFINE g == [k \in 0 .. n |-> f[k][2]]
<1>8. /\ g[0] = FirstInLine(r)
      /\ \A k \in 1 .. n : g[k] = Dequeue(r, g[k - 1])
  <2>1. g[0] = FirstInLine(r)
    BY <1>1, <1>5
  <2>2. ASSUME NEW k \in 1 .. n PROVE g[k] = Dequeue(r, g[k - 1])
    <3>1. f[k - 1][1] = k - 1 /\ k - 1 # n
      BY <1>1, <1>7
    <3>2. f[k] = <<k - 1 + 1, Dequeue(r, f[k - 1][2])>>
      BY <1>6, <3>1
    <3>3. g[k] = f[k][2] /\ g[k - 1] = f[k - 1][2]
      BY <1>1
    <3> QED BY <3>2, <3>3
  <2> QED BY <2>1, <2>2
<1>9. \A k \in 0 .. n : g[k] \in Sorting /\ Sorted(r, g[k], k)
  <2>1. ASSUME NEW k \in 0 .. n PROVE g[k] \in Sorting /\ Sorted(r, g[k], k)
    <3>1. f[k] \in Q /\ f[k][1] = k /\ g[k] = f[k][2]
      <4> HIDE DEF Q
      <4> QED BY <1>5, <1>7
    <3> QED BY <3>1
  <2> QED BY <2>1
<1>10. Rec(g)
  <2>1. g = [k \in 0 .. n |-> g[k]]
    OBVIOUS
  <2> HIDE DEF g
  <2>2. \A k \in 0 .. n : g[k] = IF k = 0 THEN FirstInLine(r) ELSE Dequeue(r, g[k - 1])
    <3>1. \A k \in 0 .. n : k = 0 \/ k \in 1 .. n
      BY <1>1
    <3> QED BY <1>8, <3>1
  <2> QED BY <2>1, <2>2
<1> HIDE DEF g
<1>11. Rec(h)
  <2> HIDE DEF Rec
  <2> QED BY <1>10
<1>12. ModuleOrder(r) = h[n].done
  BY DEF ModuleOrder, n
<1> HIDE DEF h
<1>13. h[0] = FirstInLine(r) /\ \A k \in 1 .. n : h[k] = Dequeue(r, h[k - 1])
  <2>1. 0 \in 0 .. n
    BY <1>1
  <2> QED BY <1>1, <1>11, <2>1
<1> HIDE DEF Rec
<1> DEFINE E == {k \in 0 .. n : h[k] = g[k]}
<1>14. n \in E
  <2>1. 0 \in E
    BY <1>1, <1>8, <1>13
  <2>2. ASSUME NEW k \in 1 .. n, k - 1 \in E PROVE k \in E
    BY <1>1, <1>8, <1>13, <2>2
  <2> HIDE DEF E
  <2>3. 0 .. n \subseteq E
    BY <1>1, <2>1, <2>2, HandedOn
  <2> QED BY <1>1, <2>3
<1>15. g \in [0 .. n -> Sorting]
  <2>1. \A k \in 0 .. n : f[k][2] \in Sorting
    BY <1>9 DEF g
  <2> QED BY <2>1 DEF g
<1> QED BY <1>9, <1>12, <1>14, <1>15 DEF Rounds, n

(***************************************************************************)
(* The order of the modules, and when there is one.                        *)
(***************************************************************************)
LEMMA OrderIs ==
    ASSUME Modules \in Nat, NEW r, IsRelease(r)
    PROVE  /\ ModuleOrder(r) \in Seq(Nodes) /\ Once(ModuleOrder(r)) /\ InLine(r, ModuleOrder(r))
           /\ ToSet(ModuleOrder(r)) \subseteq Met(r)
           /\ \A n \in Met(r) \ ToSet(ModuleOrder(r)) :
                 n \in WithFiles(r) /\ r.deps[n] \ ToSet(ModuleOrder(r)) # {}
<1>1. PICK g : Rounds(g, r)
  BY OrderUnfolds
<1> DEFINE s == g[Modules + 1]
<1>2. ModuleOrder(r) = s.done /\ Sorted(r, s, Modules + 1)
  <2>1. Modules + 1 \in 0 .. Modules + 1
    OBVIOUS
  <2> QED BY <1>1, <2>1 DEF Rounds
<1> HIDE DEF s
<1>3. /\ s.queue \in Seq(Nodes) /\ s.done \in Seq(Nodes) /\ Once(s.done) /\ Reached(r, s)
      /\ InLine(r, s.done) /\ ToSet(s.done) \cap ToSet(s.queue) = {}
      /\ s.queue = <<>> \/ Len(s.done) = Modules + 1
  BY <1>2 DEF Sorted, Sorting
<1> DEFINE D == ToSet(s.done)
<1>4. D \in SUBSET Nodes
  BY <1>3 DEF ToSet
<1>5. s.queue = <<>>
  <2>1. SUFFICES ASSUME s.queue # <<>>, Len(s.done) = Modules + 1 PROVE FALSE
    BY <1>3
  <2>2. Cardinality(D) = Modules + 1
    <3> DEFINE o == s.done
    <3>1. o \in Seq(Nodes) /\ Once(o) /\ Len(o) = Modules + 1
      BY <1>3, <2>1
    <3> HIDE DEF o
    <3>2. Cardinality(ToSet(o)) = Len(o)
      BY <3>1, OnceCounts
    <3> QED BY <3>1, <3>2 DEF o
  <2>3. D = Nodes
    <3> HIDE DEF D
    <3>1. IsFiniteSet(Nodes) /\ Cardinality(Nodes) = Cardinality(D)
      BY <2>2, NodesFinite
    <3> QED BY <1>4, <3>1, FS_Subset
  <2> DEFINE u == s.queue
  <2>4. u \in Seq(Nodes) /\ u # <<>>
    BY <1>3, <2>1
  <2> HIDE DEF u
  <2>5. 1 \in DOMAIN u /\ u[1] \in Nodes
    BY <2>4
  <2>6. u[1] \in ToSet(u)
    BY <2>5 DEF ToSet
  <2> QED BY <1>3, <2>3, <2>5, <2>6 DEF u
<1>6. /\ \A n \in Nodes : s.waits[n] = Waits(r, n, D)
      /\ D = {n \in Met(r) : s.waits[n] = 0}
  <2>1. ToSet(s.queue) = {}
    BY <1>5 DEF ToSet
  <2> QED BY <1>3, <2>1 DEF Reached
<1>7. ASSUME NEW n \in Met(r) \ D
      PROVE  n \in WithFiles(r) /\ r.deps[n] \ D # {}
  <2>1. n \in Nodes
    BY GraphIs DEF ToSet
  <2>2. Waits(r, n, D) # 0
    BY <1>6, <1>7, <2>1
  <2>3. n \in WithFiles(r)
    BY <2>2 DEF Waits
  <2>4. r.deps[n] \ D \in SUBSET Nodes
    BY <2>1 DEF IsRelease
  <2> HIDE DEF D
  <2>5. Cardinality(r.deps[n] \ D) # 0
    BY <2>2, <2>3 DEF Waits
  <2> QED BY <2>3, <2>4, <2>5, Counts
<1>8. D \subseteq Met(r)
  BY <1>6
<1> QED BY <1>2, <1>3, <1>7, <1>8

\* The sort comes to all modules exactly when no modules wait for each other.
LEMMA CircularIs ==
    ASSUME Modules \in Nat, NEW r, IsRelease(r)
    PROVE  /\ KnotIsRefused(r)
           /\ ~Circular(r) => ToSet(ModuleOrder(r)) = Met(r)
<1> DEFINE o == ModuleOrder(r)
           D == ToSet(o)
           G == GraphNodes(r)
<1>1. /\ o \in Seq(Nodes) /\ Once(o) /\ InLine(r, o) /\ D \subseteq Met(r)
      /\ \A n \in Met(r) \ D : n \in WithFiles(r) /\ r.deps[n] \ D # {}
  BY OrderIs
<1>2. G \in Seq(Nodes) /\ Once(G) /\ ToSet(G) = Met(r)
  BY GraphIs
<1>3. Circular(r) <=> Len(o) < Len(G)
  BY DEF Circular
<1> HIDE DEF o, G
<1>4. /\ IsFiniteSet(Met(r)) /\ Cardinality(Met(r)) = Len(G)
      /\ IsFiniteSet(D) /\ Cardinality(D) = Len(o) /\ Len(o) \in Nat /\ Len(G) \in Nat
  BY <1>1, <1>2, OnceCounts
<1>5. Circular(r) <=> D # Met(r)
  <2>1. Cardinality(D) <= Cardinality(Met(r)) /\ (Cardinality(Met(r)) = Cardinality(D) => Met(r) = D)
    <3> HIDE DEF D
    <3> QED BY <1>1, <1>4, FS_Subset
  <2> QED BY <1>3, <1>4, <2>1
<1>6. Met(r) \subseteq Nodes /\ \A n \in WithFiles(r) : n \in Met(r) /\ r.deps[n] \subseteq Met(r)
  <2>1. ToSet(G) \subseteq Nodes
    BY <1>2 DEF ToSet
  <2>2. \A n \in WithFiles(r) : n \in Met(r) /\ r.deps[n] \subseteq Met(r)
    BY DEF Met
  <2> QED BY <1>2, <2>1, <2>2
<1>7. ASSUME Circular(r)
      PROVE  \E S \in SUBSET WithFiles(r) : S # {} /\ \A m \in S : r.deps[m] \cap S # {}
  <2> DEFINE S == Met(r) \ D
  <2>1. S \in SUBSET WithFiles(r) /\ S # {}
    BY <1>1, <1>5, <1>7
  <2>2. \A m \in S : r.deps[m] \cap S # {}
    BY <1>1, <1>6, <2>1
  <2> QED BY <2>1, <2>2
<1>8. ASSUME NEW S \in SUBSET WithFiles(r), S # {}, \A m \in S : r.deps[m] \cap S # {}
      PROVE  Circular(r)
  <2>1. SUFFICES ASSUME D = Met(r) PROVE FALSE
    BY <1>5
  <2> DEFINE P == {i \in 1 .. Len(o) : o[i] \in S}
  <2>2. P # {}
    <3>1. PICK m \in S : TRUE
      BY <1>8
    <3>2. m \in D
      BY <1>6, <2>1
    <3> QED BY <1>1, <3>2 DEF ToSet
  <2>3. P \subseteq Nat
    OBVIOUS
  <2>4. PICK i \in P : \A j \in P : i <= j
    <3> HIDE DEF P
    <3> QED BY <2>2, <2>3, Least
  <2>5. PICK d \in r.deps[o[i]] : d \in S
    BY <1>8
  <2>6. PICK j \in 1 .. i - 1 : o[j] = d
    BY <1>1, <2>5 DEF InLine
  <2>7. j \in P /\ j < i
    BY <1>4, <2>5, <2>6
  <2> QED BY <1>4, <2>4, <2>7
<1> QED BY <1>5, <1>7, <1>8 DEF KnotIsRefused, o

(***************************************************************************)
(* The order of the files.                                                 *)
(***************************************************************************)
Files == Nodes \X (Nat \ {0})
ReleaseFiles(r) == UNION {ToSet(FilesOf(r, m)) : m \in Nodes}

\* The files that have to come before f.
Before(r, f) ==
    {<<f[1], i>> : i \in 1 .. f[2] - 1} \cup UNION {ToSet(FilesOf(r, d)) : d \in r.deps[f[1]]}

\* What has to come before an element of s is in base or before it in s.
InTurn(r, s, base) ==
    \A p \in 1 .. Len(s) : \A f \in Before(r, s[p]) :
        f \in base \/ \E q \in 1 .. p - 1 : s[q] = f

LEMMA FilesOfIs ==
    ASSUME NEW r, IsRelease(r), NEW m \in Nodes
    PROVE  /\ FilesOf(r, m) \in Seq(Files) /\ Once(FilesOf(r, m))
           /\ Len(FilesOf(r, m)) = r.files[m] /\ r.files[m] \in Nat
           /\ \A i \in 1 .. r.files[m] : FilesOf(r, m)[i] = <<m, i>>
           /\ ToSet(FilesOf(r, m)) = {<<m, i>> : i \in 1 .. r.files[m]}
<1> DEFINE n == r.files[m]
           t == FilesOf(r, m)
<1>1. n \in Nat
  BY DEF IsRelease
<1>2. t = [i \in 1 .. n |-> <<m, i>>]
  BY DEF FilesOf
<1> HIDE DEF n, t
<1>3. t \in Seq(Files) /\ Len(t) = n /\ DOMAIN t = 1 .. n /\ \A i \in 1 .. n : t[i] = <<m, i>>
  BY <1>1, <1>2 DEF Files
<1>4. Once(t)
  BY <1>3 DEF Once
<1>5. ToSet(t) = {<<m, i>> : i \in 1 .. n}
  BY <1>3 DEF ToSet
<1> QED BY <1>1, <1>3, <1>4, <1>5 DEF n, t

\* g has the files of the first modules of the order o.
Laid(g, r, o) ==
    /\ g \in [0 .. Len(o) -> Seq(Files)]
    /\ TopologicalSort(r) = g[Len(o)]
    /\ g[0] = <<>>
    /\ \A k \in 1 .. Len(o) : g[k] = g[k - 1] \o FilesOf(r, o[k])

LEMMA SortUnfolds ==
    ASSUME Modules \in Nat, NEW r, IsRelease(r)
    PROVE  \E g : Laid(g, r, ModuleOrder(r))
<1> DEFINE o == ModuleOrder(r)
           n == Len(o)
           Rec(g) == g = [k \in 0 .. n |-> IF k = 0 THEN <<>> ELSE g[k - 1] \o FilesOf(r, o[k])]
           h == CHOOSE g : Rec(g)
           Q == Seq(Files)
           step == [p \in (1 .. n) \X Q |-> p[2] \o FilesOf(r, o[p[1]])]
<1>1. /\ n \in Nat /\ <<>> \in Q
      /\ \A k \in 1 .. n : k - 1 \in 0 .. n /\ k \in 0 .. n /\ k # 0 /\ o[k] \in Nodes
  <2>1. o \in Seq(Nodes)
    BY OrderIs
  <2> HIDE DEF o
  <2> QED BY <2>1
<1> HIDE DEF o, n
<1>2. step \in [(1 .. n) \X Q -> Q]
  <2>1. \A k \in 1 .. n : FilesOf(r, o[k]) \in Seq(Files)
    BY <1>1, FilesOfIs
  <2>2. \A s, t \in Seq(Files) : s \o t \in Seq(Files)
    OBVIOUS
  <2>3. \A p \in (1 .. n) \X Q : p[2] \o FilesOf(r, o[p[1]]) \in Q
    BY <2>1, <2>2
  <2> HIDE DEF Q
  <2> QED BY <2>3
<1>3. PICK g : IsBuilt(g, Q, n, <<>>, step)
  <2> HIDE DEF step, Q
  <2> QED BY <1>1, <1>2, BuiltUp
<1>4. g \in [0 .. n -> Q] /\ g[0] = <<>>
      /\ \A k \in 1 .. n : g[k] = step[<<k, g[k - 1]>>]
  BY <1>3 DEF IsBuilt
<1>5. ASSUME NEW k \in 1 .. n PROVE g[k] = g[k - 1] \o FilesOf(r, o[k])
  <2> HIDE DEF Q
  <2>1. g[k - 1] \in Q /\ <<k, g[k - 1]>> \in (1 .. n) \X Q
    <3> HIDE DEF step
    <3>1. g[k - 1] \in Q
      BY <1>1, <1>4
    <3> QED BY <3>1
  <2>2. step[<<k, g[k - 1]>>] = g[k - 1] \o FilesOf(r, o[k])
    BY <2>1
  <2> HIDE DEF step
  <2> QED BY <1>4, <2>2
<1> HIDE DEF step, Q
<1>6. Rec(g)
  <2>1. \A k \in 0 .. n : g[k] = IF k = 0 THEN <<>> ELSE g[k - 1] \o FilesOf(r, o[k])
    <3>1. \A k \in 0 .. n : k = 0 \/ k \in 1 .. n
      BY <1>1
    <3> QED BY <1>4, <1>5, <3>1
  <2> QED BY <1>4, <2>1
<1>7. Rec(h)
  <2> HIDE DEF Rec
  <2> QED BY <1>6
<1>8. TopologicalSort(r) = h[n]
  BY DEF TopologicalSort, n, o
<1> HIDE DEF h
<1>9. h[0] = <<>> /\ \A k \in 1 .. n : h[k] = h[k - 1] \o FilesOf(r, o[k])
  <2>1. 0 \in 0 .. n
    BY <1>1
  <2> QED BY <1>1, <1>7, <2>1
<1> HIDE DEF Rec
<1> DEFINE E == {k \in 0 .. n : h[k] = g[k]}
<1>10. n \in E
  <2>1. 0 \in E
    BY <1>1, <1>4, <1>9
  <2>2. ASSUME NEW k \in 1 .. n, k - 1 \in E PROVE k \in E
    BY <1>1, <1>5, <1>9, <2>2
  <2> HIDE DEF E
  <2>3. 0 .. n \subseteq E
    BY <1>1, <2>1, <2>2, HandedOn
  <2> QED BY <1>1, <2>3
<1> QED BY <1>4, <1>5, <1>8, <1>10 DEF E, n, o, Q, Laid

\* A sequence to which the files of the next module are added.
LEMMA InTurnJoined ==
    ASSUME NEW r, IsRelease(r), NEW s \in Seq(Files), InTurn(r, s, {}), NEW m \in Nodes,
           r.files[m] > 0 => \A d \in r.deps[m] : ToSet(FilesOf(r, d)) \subseteq ToSet(s)
    PROVE  InTurn(r, s \o FilesOf(r, m), {})
<1> DEFINE t == FilesOf(r, m)
           u == s \o t
           l == Len(s)
           n == r.files[m]
<1>1. t \in Seq(Files) /\ Len(t) = n /\ n \in Nat /\ \A i \in 1 .. n : t[i] = <<m, i>>
  BY FilesOfIs
<1> HIDE DEF t, n
<1>2. /\ Len(u) = l + n /\ l \in Nat /\ DOMAIN s = 1 .. l
      /\ \A i \in 1 .. l : u[i] = s[i]
      /\ \A i \in 1 .. n : u[l + i] = t[i]
  <2>1. /\ Len(s \o t) = Len(s) + Len(t) /\ Len(s) \in Nat /\ DOMAIN s = 1 .. Len(s)
        /\ \A i \in 1 .. Len(s) : (s \o t)[i] = s[i]
        /\ \A i \in 1 .. Len(t) : (s \o t)[Len(s) + i] = t[i]
    <3>1. \A x, y \in Seq(Files) :
              /\ Len(x \o y) = Len(x) + Len(y) /\ Len(x) \in Nat /\ DOMAIN x = 1 .. Len(x)
              /\ \A i \in 1 .. Len(x) : (x \o y)[i] = x[i]
              /\ \A i \in 1 .. Len(y) : (x \o y)[Len(x) + i] = y[i]
      OBVIOUS
    <3> QED BY <1>1, <3>1
  <2> QED BY <1>1, <2>1
<1> HIDE DEF u, l
<1>3. SUFFICES ASSUME NEW p \in 1 .. l + n, NEW f \in Before(r, u[p])
               PROVE  \E q \in 1 .. p - 1 : u[q] = f
  BY <1>2 DEF InTurn, u, t
<1>4. CASE p \in 1 .. l
  <2>1. PICK q \in 1 .. p - 1 : s[q] = f
    BY <1>2, <1>3, <1>4 DEF InTurn, l
  <2>2. q \in 1 .. l
    BY <1>2, <1>4, <2>1
  <2> QED BY <1>2, <2>1, <2>2
<1>5. CASE p \notin 1 .. l
  <2> DEFINE i == p - l
  <2>1. i \in 1 .. n /\ p = l + i
    BY <1>1, <1>2, <1>5
  <2> HIDE DEF i
  <2>2. u[p] = <<m, i>> /\ n > 0
    BY <1>1, <1>2, <2>1
  <2>3. CASE f \in {<<m, k>> : k \in 1 .. i - 1}
    <3>1. PICK k \in 1 .. i - 1 : f = <<m, k>>
      BY <2>3
    <3>2. k \in 1 .. n /\ l + k \in 1 .. p - 1
      BY <1>1, <1>2, <2>1, <3>1
    <3>3. u[l + k] = f
      BY <1>1, <1>2, <3>1, <3>2
    <3> QED BY <3>2, <3>3
  <2>4. CASE f \in UNION {ToSet(FilesOf(r, d)) : d \in r.deps[m]}
    <3>1. f \in ToSet(s)
      BY <2>2, <2>4 DEF n
    <3>2. PICK q \in 1 .. l : s[q] = f
      BY <1>2, <3>1 DEF ToSet
    <3>3. q \in 1 .. p - 1
      BY <1>2, <2>1, <3>2
    <3> QED BY <1>2, <3>2, <3>3
  <2>5. Before(r, <<m, i>>)
            = {<<m, k>> : k \in 1 .. i - 1} \cup UNION {ToSet(FilesOf(r, d)) : d \in r.deps[m]}
    BY DEF Before
  <2> QED BY <1>3, <2>2, <2>3, <2>4, <2>5
<1> QED BY <1>4, <1>5

\* The sort has every file of the modules once, each in its turn.
LEMMA SortIs ==
    ASSUME Modules \in Nat, NEW r, IsRelease(r)
    PROVE  /\ TopologicalSort(r) \in Seq(Files) /\ Once(TopologicalSort(r))
           /\ InTurn(r, TopologicalSort(r), {})
           /\ ~Circular(r) => ToSet(TopologicalSort(r)) = ReleaseFiles(r)
<1> DEFINE o == ModuleOrder(r)
           n == Len(o)
           LaidBy(k) == UNION {ToSet(FilesOf(r, o[j])) : j \in 1 .. k}
<1>1. PICK g : Laid(g, r, o)
  BY SortUnfolds
<1>2. o \in Seq(Nodes) /\ Once(o) /\ InLine(r, o)
  BY OrderIs
<1> HIDE DEF o
<1>3. /\ g \in [0 .. n -> Seq(Files)] /\ TopologicalSort(r) = g[n] /\ g[0] = <<>>
      /\ \A k \in 1 .. n : g[k] = g[k - 1] \o FilesOf(r, o[k])
  BY <1>1 DEF Laid
<1>4. n \in Nat /\ DOMAIN o = 1 .. n
      /\ \A k \in 1 .. n : o[k] \in Nodes /\ k - 1 \in 0 .. n /\ k \in 0 .. n
  BY <1>2
<1> DEFINE E == {k \in 0 .. n : Once(g[k]) /\ InTurn(r, g[k], {}) /\ ToSet(g[k]) = LaidBy(k)}
<1>5. 0 \in E
  <2>1. Once(<<>>) /\ InTurn(r, <<>>, {}) /\ ToSet(<<>>) = {} /\ LaidBy(0) = {}
    BY DEF Once, InTurn, ToSet
  <2> QED BY <1>3, <1>4, <2>1
<1>6. ASSUME NEW k \in 1 .. n, k - 1 \in E PROVE k \in E
  <2> DEFINE s == g[k - 1]
             m == o[k]
             t == FilesOf(r, m)
  <2>1. s \in Seq(Files) /\ Once(s) /\ InTurn(r, s, {}) /\ ToSet(s) = LaidBy(k - 1)
    BY <1>3, <1>4, <1>6
  <2>2. m \in Nodes /\ g[k] = s \o t
    BY <1>3, <1>4
  <2> HIDE DEF s, m, E
  <2>3. /\ t \in Seq(Files) /\ Once(t) /\ ToSet(t) = {<<m, i>> : i \in 1 .. r.files[m]}
    BY <2>2, FilesOfIs
  <2>4. \A j \in 1 .. k - 1 : j \in 1 .. n /\ o[j] \in Nodes /\ o[j] # m
    BY <1>2, <1>4 DEF Once, m
  <2>5. ToSet(s) \cap ToSet(t) = {}
    <3>1. \A j \in 1 .. k - 1 :
              ToSet(FilesOf(r, o[j])) = {<<o[j], i>> : i \in 1 .. r.files[o[j]]}
      BY <2>4, FilesOfIs
    <3> HIDE DEF t
    <3> QED BY <2>1, <2>3, <2>4, <3>1
  <2>6. r.files[m] > 0 => \A d \in r.deps[m] : ToSet(FilesOf(r, d)) \subseteq ToSet(s)
    <3>1. SUFFICES ASSUME r.files[m] > 0, NEW d \in r.deps[m]
                   PROVE  ToSet(FilesOf(r, d)) \subseteq ToSet(s)
      OBVIOUS
    <3>2. o[k] \in WithFiles(r) /\ d \in r.deps[o[k]]
      BY <2>2, <3>1 DEF WithFiles, m
    <3>3. PICK j \in 1 .. k - 1 : o[j] = d
      BY <1>2, <3>2 DEF InLine
    <3> QED BY <2>1, <3>3
  <2>7. InTurn(r, s \o t, {})
    BY <2>1, <2>2, <2>6, InTurnJoined
  <2>8. LaidBy(k) = LaidBy(k - 1) \cup ToSet(t)
    <3>1. 1 .. k = (1 .. k - 1) \cup {k}
      BY <1>4
    <3> QED BY <3>1 DEF m
  <2> HIDE DEF t, LaidBy
  <2>9. Once(s \o t) /\ ToSet(s \o t) = ToSet(s) \cup ToSet(t)
    BY <2>1, <2>3, <2>5, Joined
  <2> QED BY <1>4, <2>1, <2>2, <2>7, <2>8, <2>9 DEF E
<1> HIDE DEF E, LaidBy
<1>7. n \in E
  <2>1. 0 .. n \subseteq E
    BY <1>4, <1>5, <1>6, HandedOn
  <2> QED BY <1>4, <2>1
<1>8. g[n] \in Seq(Files)
  BY <1>3, <1>4
<1>9. ASSUME ~Circular(r) PROVE LaidBy(n) = ReleaseFiles(r)
  <2>1. ToSet(o) = Met(r)
    BY <1>9, CircularIs DEF o
  <2>2. \A j \in 1 .. n : ToSet(FilesOf(r, o[j])) \subseteq ReleaseFiles(r)
    BY <1>4 DEF ReleaseFiles
  <2>3. ASSUME NEW m \in Nodes PROVE ToSet(FilesOf(r, m)) \subseteq LaidBy(n)
    <3>1. CASE m \in WithFiles(r)
      <4>1. m \in ToSet(o)
        BY <2>1, <3>1 DEF Met
      <4>2. PICK j \in 1 .. n : o[j] = m
        BY <1>4, <4>1 DEF ToSet
      <4> QED BY <4>2 DEF LaidBy
    <3>2. CASE m \notin WithFiles(r)
      <4>1. r.files[m] = 0
        BY <3>2 DEF WithFiles, IsRelease
      <4>2. ToSet(FilesOf(r, m)) = {}
        BY <4>1, FilesOfIs
      <4> QED BY <4>2
    <3> QED BY <3>1, <3>2
  <2>4. LaidBy(n) \subseteq ReleaseFiles(r)
    BY <2>2 DEF LaidBy
  <2>5. ReleaseFiles(r) \subseteq LaidBy(n)
    BY <2>3 DEF ReleaseFiles
  <2> QED BY <2>4, <2>5
<1> QED BY <1>3, <1>7, <1>8, <1>9 DEF E

\* What is left of a sequence is in its turn after what was taken out of it.
LEMMA AmongInTurn ==
    ASSUME NEW r, NEW T, NEW t \in Seq(T), InTurn(r, t, {}), NEW base
    PROVE  InTurn(r, Among(t, ToSet(t) \ base), base)
<1> DEFINE S == ToSet(t) \ base
           a == Among(t, S)
<1>1. a \in Seq(T)
  BY AmongKeeps
<1>2. PICK w : LeftOver(a, w, t, Len(t), S)
  BY AmongKeeps
<1>3. /\ w \in [1 .. Len(a) -> 1 .. Len(t)]
      /\ \A i \in 1 .. Len(a) : a[i] = t[w[i]] /\ a[i] \in S
      /\ \A i, j \in 1 .. Len(a) : i < j => w[i] < w[j]
      /\ \A k \in 1 .. Len(t) : t[k] \in S => \E i \in 1 .. Len(a) : w[i] = k
  BY <1>2 DEF LeftOver
<1>4. Len(a) \in Nat /\ Len(t) \in Nat /\ DOMAIN t = 1 .. Len(t)
  BY <1>1
<1> HIDE DEF a
<1>5. SUFFICES ASSUME NEW p \in 1 .. Len(a), NEW f \in Before(r, a[p]), f \notin base
               PROVE  \E q \in 1 .. p - 1 : a[q] = f
  BY DEF InTurn, a
<1>6. PICK k \in 1 .. w[p] - 1 : t[k] = f
  <2>1. w[p] \in 1 .. Len(t) /\ a[p] = t[w[p]]
    BY <1>3
  <2> QED BY <1>5, <2>1 DEF InTurn
<1>7. w[p] \in 1 .. Len(t) /\ k \in 1 .. Len(t) /\ k < w[p]
  BY <1>3, <1>4, <1>6
<1>8. t[k] \in S
  BY <1>4, <1>5, <1>6, <1>7 DEF ToSet
<1>9. PICK q \in 1 .. Len(a) : w[q] = k
  BY <1>3, <1>7, <1>8
<1>10. ~(p < q) /\ p # q
  <2>1. p < q => w[p] < w[q]
    BY <1>3, <1>9
  <2> QED BY <1>7, <1>9, <2>1
<1>11. q \in 1 .. p - 1
  BY <1>4, <1>9, <1>10
<1> QED BY <1>3, <1>6, <1>9, <1>11

(***************************************************************************)
(* The process.                                                            *)
(***************************************************************************)
\* What a start still has to apply.
Planned ==
    /\ ~Circular(release)
    /\ plan \in Seq(Files) /\ Once(plan)
    /\ ToSet(plan) \cap ToSet(applied) = {}
    /\ InTurn(release, plan, ToSet(applied))
    /\ ReleaseFiles(release) \subseteq ToSet(plan) \cup ToSet(applied)

MigInv ==
    /\ release \in Manifests
    /\ applied \in Seq(Files) /\ AppliedOnce
    /\ running \in BOOLEAN
    /\ running => Planned

LEMMA Releases ==
    ASSUME MigrationsAssumption
    PROVE  Modules \in Nat /\ \A r \in Manifests : IsRelease(r)
<1>1. ASSUME NEW r \in Manifests, NEW m \in Nodes
      PROVE  ToSet(r.listed[m]) = r.deps[m] /\ Once(r.listed[m])
  <2>1. PICK s : s = r.listed[m] /\ s \in Seq(Nodes) /\ IsInjective(s)
    BY DEF MigrationsAssumption
  <2>2. DOMAIN s = 1 .. Len(s)
    BY <2>1
  <2>3. Once(s)
    BY <2>1, <2>2 DEF IsInjective, Once
  <2> QED BY <2>1, <2>3 DEF MigrationsAssumption
<1> QED BY <1>1 DEF MigrationsAssumption, IsRelease

LEMMA MigInitInv == MigrationsAssumption /\ MigInit => MigInv
<1> SUFFICES ASSUME MigrationsAssumption, MigInit PROVE MigInv
  OBVIOUS
<1>1. applied = <<>> /\ <<>> \in Seq(Files)
  BY DEF MigInit
<1>2. AppliedOnce
  BY <1>1 DEF AppliedOnce
<1> QED BY <1>1, <1>2 DEF MigInit, MigInv

LEMMA StartKeeps ==
    ASSUME MigrationsAssumption, MigInv, Start
    PROVE  MigInv'
<1> DEFINE t == TopologicalSort(release)
           base == ToSet(applied)
           S == ToSet(t) \ base
           a == Among(t, S)
<1>1. /\ ~Circular(release) /\ running' = TRUE
      /\ release' = release /\ applied' = applied /\ plan' = a
  BY DEF Start
<1>2. Modules \in Nat /\ IsRelease(release)
  BY Releases DEF MigInv
<1>3. /\ t \in Seq(Files) /\ Once(t) /\ InTurn(release, t, {})
      /\ ToSet(t) = ReleaseFiles(release)
  BY <1>1, <1>2, SortIs
<1> HIDE DEF t
<1>4. a \in Seq(Files) /\ Once(a) /\ ToSet(a) = ToSet(t) \cap S
  <2> HIDE DEF S
  <2> QED BY <1>3, AmongIs
<1>5. InTurn(release, a, base)
  <2> HIDE DEF base
  <2> QED BY <1>3, AmongInTurn
<1> HIDE DEF a
<1>6. Planned'
  BY <1>1, <1>3, <1>4, <1>5 DEF Planned
<1>7. AppliedOnce'
  BY <1>1 DEF AppliedOnce, MigInv
<1> QED BY <1>1, <1>6, <1>7 DEF MigInv

\* The first file of a plan can be applied.
LEMMA NextInTurn ==
    ASSUME MigInv, Apply
    PROVE  /\ running = TRUE /\ Planned /\ plan # <<>>
           /\ Head(plan) = plan[1] /\ Head(plan) \in Files /\ Len(plan) \in Nat \ {0}
           /\ Before(release, Head(plan)) \subseteq ToSet(applied)
           /\ Head(plan) \in ToSet(plan) /\ Head(plan) \notin ToSet(applied)
<1>1. running = TRUE /\ Planned /\ plan # <<>>
  BY DEF Apply, MigInv
<1>2. /\ plan \in Seq(Files) /\ InTurn(release, plan, ToSet(applied))
      /\ ToSet(plan) \cap ToSet(applied) = {}
  BY <1>1 DEF Planned
<1>3. Head(plan) = plan[1] /\ Len(plan) \in Nat \ {0} /\ 1 \in DOMAIN plan /\ plan[1] \in Files
  BY <1>1, <1>2
<1>4. Before(release, plan[1]) \subseteq ToSet(applied)
  BY <1>2, <1>3 DEF InTurn
<1>5. plan[1] \in ToSet(plan)
  BY <1>3 DEF ToSet
<1> QED BY <1>1, <1>2, <1>3, <1>4, <1>5

LEMMA ApplyKeeps ==
    ASSUME MigrationsAssumption, MigInv, Apply
    PROVE  MigInv'
<1>1. PICK h : h = Head(plan)
  OBVIOUS
<1>2. PICK n \in Nat, l \in Nat : n = Len(plan) /\ l = Len(applied)
  <2>1. Len(plan) \in Nat
    BY NextInTurn
  <2>2. Len(applied) \in Nat
    BY DEF MigInv
  <2> QED BY <2>1, <2>2
<1>3. /\ running = TRUE /\ Planned /\ h = plan[1] /\ h \in Files /\ n # 0
      /\ Before(release, h) \subseteq ToSet(applied) /\ h \notin ToSet(applied)
      /\ h \in ToSet(plan)
  BY <1>1, <1>2, NextInTurn
<1>4. /\ ~Circular(release) /\ plan \in Seq(Files) /\ Once(plan)
      /\ ToSet(plan) \cap ToSet(applied) = {} /\ InTurn(release, plan, ToSet(applied))
      /\ ReleaseFiles(release) \subseteq ToSet(plan) \cup ToSet(applied)
  BY <1>3 DEF Planned
<1>5. /\ release' = release /\ running' = running /\ plan # <<>>
      /\ applied' = Append(applied, h) /\ plan' = Tail(plan)
  BY <1>1 DEF Apply
<1>6. /\ applied \in Seq(Files) /\ AppliedOnce /\ DOMAIN applied = 1 .. l
      /\ release \in Manifests
  BY <1>2 DEF MigInv
<1>7. /\ applied' \in Seq(Files) /\ Len(applied') = l + 1 /\ DOMAIN applied' = 1 .. l + 1
      /\ applied'[l + 1] = h /\ \A i \in 1 .. l : applied'[i] = applied[i]
  BY <1>2, <1>3, <1>5, <1>6
<1>8. /\ plan' \in Seq(Files) /\ Len(plan') = n - 1 /\ DOMAIN plan' = 1 .. n - 1
      /\ DOMAIN plan = 1 .. n /\ \A i \in 1 .. n - 1 : plan'[i] = plan[i + 1]
  BY <1>2, <1>4, <1>5
<1>9. ToSet(applied') = ToSet(applied) \cup {h}
  BY <1>6, <1>7 DEF ToSet
<1>10. Once(plan')
  <2>1. SUFFICES ASSUME NEW i \in 1 .. n - 1, NEW j \in 1 .. n - 1, plan'[i] = plan'[j]
                 PROVE  i = j
    BY <1>8 DEF Once
  <2>2. plan[i + 1] = plan[j + 1] /\ i + 1 \in 1 .. n /\ j + 1 \in 1 .. n
    BY <1>8, <2>1
  <2> QED BY <1>2, <1>4, <2>2 DEF Once
<1>11. ToSet(plan') = ToSet(plan) \ {h}
  <2>1. ASSUME NEW x \in ToSet(plan') PROVE x \in ToSet(plan) /\ x # h
    <3>1. PICK i \in 1 .. n - 1 : x = plan[i + 1]
      BY <1>8 DEF ToSet
    <3>2. i + 1 \in 1 .. n /\ i + 1 # 1 /\ 1 \in 1 .. n
      BY <1>3
    <3>3. plan[i + 1] # plan[1]
      BY <1>2, <1>4, <3>2 DEF Once
    <3> QED BY <1>3, <1>8, <3>1, <3>2, <3>3 DEF ToSet
  <2>2. ASSUME NEW x \in ToSet(plan), x # h PROVE x \in ToSet(plan')
    <3>1. PICK i \in 1 .. n : x = plan[i]
      BY <1>8 DEF ToSet
    <3>2. i - 1 \in 1 .. n - 1 /\ (i - 1) + 1 = i
      BY <1>3, <2>2, <3>1
    <3>3. plan'[i - 1] = x
      BY <1>8, <3>1, <3>2
    <3> QED BY <1>8, <3>2, <3>3 DEF ToSet
  <2> QED BY <2>1, <2>2
<1>12. InTurn(release, plan', ToSet(applied'))
  <2>1. SUFFICES ASSUME NEW p \in 1 .. n - 1, NEW f \in Before(release, plan'[p]),
                        f \notin ToSet(applied'), ~\E q \in 1 .. p - 1 : plan'[q] = f
                 PROVE  FALSE
    BY <1>8 DEF InTurn
  <2>2. p + 1 \in 1 .. n /\ plan'[p] = plan[p + 1]
    BY <1>8
  <2>3. PICK q \in 1 .. p : plan[q] = f
    <3>1. f \in ToSet(applied) \/ \E q \in 1 .. (p + 1) - 1 : plan[q] = f
      BY <1>2, <1>4, <2>1, <2>2 DEF InTurn
    <3> QED BY <1>9, <2>1, <3>1
  <2>4. q # 1
    BY <1>3, <1>9, <2>1, <2>3
  <2>5. q - 1 \in 1 .. p - 1 /\ q - 1 \in 1 .. n - 1 /\ (q - 1) + 1 = q
    BY <2>2, <2>3, <2>4
  <2>6. plan'[q - 1] = f
    BY <1>8, <2>3, <2>5
  <2> QED BY <2>1, <2>5, <2>6
<1>13. Planned'
  <2>1. ReleaseFiles(release)' = ReleaseFiles(release) /\ Circular(release)' = Circular(release)
        /\ InTurn(release, plan, ToSet(applied))' = InTurn(release, plan', ToSet(applied'))
    BY <1>5
  <2> QED BY <1>4, <1>5, <1>8, <1>9, <1>10, <1>11, <1>12, <2>1 DEF Planned
<1>14. AppliedOnce'
  <2>1. /\ \A i, j \in 1 .. l : applied[i] = applied[j] => i = j
        /\ \A i \in 1 .. l : \A k \in 1 .. applied[i][2] - 1 :
              \E j \in 1 .. i - 1 : applied[j] = <<applied[i][1], k>>
    BY <1>6 DEF AppliedOnce
  <2>2. \A i \in 1 .. l : applied[i] # h /\ applied'[i] # h
    BY <1>3, <1>6, <1>7 DEF ToSet
  <2>3. \A i \in 1 .. l + 1 : i \in 1 .. l \/ i = l + 1
    OBVIOUS
  <2>4. ASSUME NEW i \in 1 .. l + 1, NEW j \in 1 .. l + 1, applied'[i] = applied'[j]
        PROVE  i = j
    <3>1. CASE i \in 1 .. l /\ j \in 1 .. l
      BY <1>7, <2>1, <2>4, <3>1
    <3>2. CASE i = l + 1 /\ j = l + 1
      BY <3>2
    <3>3. CASE i = l + 1 /\ j \in 1 .. l
      BY <1>7, <2>2, <2>4, <3>3
    <3>4. CASE i \in 1 .. l /\ j = l + 1
      BY <1>7, <2>2, <2>4, <3>4
    <3> QED BY <2>3, <3>1, <3>2, <3>3, <3>4
  <2>5. ASSUME NEW i \in 1 .. l + 1, NEW k \in 1 .. applied'[i][2] - 1
        PROVE  \E j \in 1 .. i - 1 : applied'[j] = <<applied'[i][1], k>>
    <3>1. CASE i = l + 1
      <4>1. <<h[1], k>> \in Before(release, h)
        BY <1>7, <2>5, <3>1 DEF Before
      <4>2. PICK j \in 1 .. l : applied[j] = <<h[1], k>>
        BY <1>3, <1>6, <4>1 DEF ToSet
      <4> QED BY <1>7, <3>1, <4>2
    <3>2. CASE i \in 1 .. l
      <4>1. PICK j \in 1 .. i - 1 : applied[j] = <<applied[i][1], k>>
        BY <1>7, <2>1, <2>5, <3>2
      <4>2. j \in 1 .. l
        BY <3>2, <4>1
      <4> QED BY <1>7, <3>2, <4>1, <4>2
    <3> QED BY <2>3, <3>1, <3>2
  <2> QED BY <1>7, <2>4, <2>5 DEF AppliedOnce
<1> QED BY <1>3, <1>5, <1>6, <1>7, <1>13, <1>14 DEF MigInv

LEMMA MigStep ==
    ASSUME MigrationsAssumption, MigInv, [MigNext]_migVars
    PROVE  MigInv'
<1>1. CASE Start
  BY <1>1, StartKeeps
<1>2. CASE Apply
  BY <1>2, ApplyKeeps
<1>3. CASE Halt
  <2>1. release' = release /\ applied' = applied /\ running' = FALSE
    BY <1>3 DEF Halt
  <2> QED BY <2>1 DEF MigInv, AppliedOnce
<1>4. CASE \E r \in Manifests : Upgrade(r)
  <2>1. release' \in Manifests /\ applied' = applied /\ running' = running /\ ~running
    BY <1>4 DEF Upgrade
  <2> QED BY <2>1 DEF MigInv, AppliedOnce
<1>5. CASE UNCHANGED migVars
  BY <1>5 DEF migVars, MigInv, AppliedOnce, Planned
<1> QED BY <1>1, <1>2, <1>3, <1>4, <1>5 DEF MigNext

LEMMA MigImplies ==
    ASSUME MigrationsAssumption, MigInv
    PROVE  AppliedOnce /\ CircularIsRefused /\ NothingIsLeft
<1>1. AppliedOnce
  BY DEF MigInv
<1>2. CircularIsRefused
  BY DEF MigInv, Planned, CircularIsRefused
<1>3. ASSUME running, plan = <<>> PROVE UpToDate
  <2>1. ReleaseFiles(release) \subseteq ToSet(plan) \cup ToSet(applied)
    BY <1>3 DEF MigInv, Planned
  <2>2. ToSet(plan) = {}
    BY <1>3 DEF ToSet
  <2> QED BY <2>1, <2>2 DEF ReleaseFiles, UpToDate, Nodes
<1> QED BY <1>1, <1>2, <1>3 DEF NothingIsLeft

LEMMA MigMoves ==
    ASSUME MigrationsAssumption, MigInv, [MigNext]_migVars
    PROVE  DependenciesFirst /\ (release' # release => KnotIsRefused(release'))
<1>1. ASSUME Apply, NEW m \in release.deps[Head(plan)[1]]
      PROVE  ToSet(FilesOf(release, m)) \subseteq ToSet(applied)
  <2>1. ToSet(FilesOf(release, m)) \subseteq Before(release, Head(plan))
    BY <1>1 DEF Before
  <2> QED BY <1>1, <2>1, NextInTurn
<1>2. release' \in Manifests
  BY MigStep DEF MigInv
<1>3. KnotIsRefused(release')
  BY <1>2, Releases, CircularIs
<1> QED BY <1>1, <1>3 DEF DependenciesFirst

\* However often starts die half way and whatever releases bring: a file is
\* applied once, after those of its module that come before it and after all of
\* the modules that its own module names; a release starts exactly when its
\* modules do not wait for each other; and a start that comes to its end has
\* left nothing out (runMigrations and topologicalSort of database/migrator.ts).
THEOREM Migrated == MigrationsAssumption /\ MigSpec => MigrationsApplyOnce
<1> SUFFICES ASSUME MigrationsAssumption PROVE MigSpec => MigrationsApplyOnce
  OBVIOUS
<1>1. MigInit => MigInv
  BY MigInitInv
<1>2. MigInit => KnotIsRefused(release)
  BY Releases, CircularIs DEF MigInit
<1>3. MigInv /\ [MigNext]_migVars => MigInv'
  BY MigStep
<1>4. MigInv => AppliedOnce /\ CircularIsRefused /\ NothingIsLeft
  BY MigImplies
<1>5. MigInv /\ [MigNext]_migVars
          => [DependenciesFirst /\ (release' # release => KnotIsRefused(release'))]_migVars
  BY MigMoves
<1> QED BY <1>1, <1>2, <1>3, <1>4, <1>5, PTL DEF MigSpec, MigrationsApplyOnce

(***************************************************************************)
(* The restore of an operator's data.                                      *)
(***************************************************************************)
RowRecords ==
    [table : Tables, id : Nat \ {0}, key : Mailboxes \cup (Nat \X PortfolioIds) \cup (Nat \X Nat),
     parent : Nat, live : BOOLEAN]

\* What is in the database and in the exports.
AllRows == {r \in RowRecords : r \in data \/ \E e \in DOMAIN exports : r \in RowsOf(exports[e])}

\* The rows of one id are of one thing.
Alike(r, s) == r.id = s.id /\ r.table = s.table /\ r.key = s.key /\ r.parent = s.parent
OneMeaning(S) == \A r, s \in S : r.id = s.id => Alike(r, s)

\* Users have no parent, the key of a grant names its user, and that of a place
\* the place itself.
Shaped(r) ==
    /\ r.table = UsersTable => r.parent = NoParent
    /\ r.table = AccessTable => r.key[1] = r.parent
    /\ r.table \in {PropertiesTable, UnitsTable} => r.key = <<r.id, r.id>>

KnownRows ==
    /\ OneMeaning(AllRows)
    /\ \A r \in AllRows : Shaped(r) /\ r.id < nextId

OneEach(S) == \A r, s \in S : r.id = s.id => r = s
NewestLives(S) ==
    \A r, s \in S :
        r.table = UsersTable /\ s.table = UsersTable /\ r.key = s.key /\ r.live => s.id <= r.id

SoundRows(S) ==
    /\ S \subseteq RowRecords
    /\ OneEach(S) /\ NewestLives(S) /\ ForeignKeys(S) /\ UniqueKeys(S)

RestoreInv ==
    /\ nextId \in Nat \ {0}
    /\ exports \in Seq(Seq(RowRecords))
    /\ KnownRows
    /\ SoundRows(data)
    /\ \A e \in DOMAIN exports : SoundRows(RowsOf(exports[e])) /\ InOrder(exports[e])

(***************************************************************************)
(* One statement, and all of them.                                         *)
(***************************************************************************)
\* What k statements have done.
Progressed(export, mode, old, k, now) ==
    /\ \A r \in now : r \in old \/ \E i \in 1 .. k : r = export[i]
    /\ OneEach(now) /\ ForeignKeys(now) /\ UniqueKeys(now)
    /\ \A i \in 1 .. k : export[i].live => export[i] \in now
    /\ mode = "merge" =>
          \A i \in 1 .. k : \A r, s \in now :
              /\ export[i].table = UsersTable /\ r.table = UsersTable /\ s.table = UsersTable
              /\ r.key = export[i].key /\ s.key = export[i].key
              => r = s
    /\ mode = "clean_slate" => now = {export[i] : i \in 1 .. k}

\* The rows that an upsert leaves.
Remains(r, row, mode) ==
    /\ ~ (r.table = row.table /\ r.id = row.id)
    /\ mode = "merge" => ~ (r.table = UsersTable /\ row.table = UsersTable /\ r.key = row.key
                            /\ r.id # row.id)

LEMMA UpsertDoes ==
    ASSUME NEW row, NEW mode \in Modes, NEW state, Upsert(row, mode, state).ok = TRUE
    PROVE  /\ state.ok = TRUE
           /\ ForeignKeys(Upsert(row, mode, state).db) /\ UniqueKeys(Upsert(row, mode, state).db)
           /\ Upsert(row, mode, state).db = {r \in state.db : Remains(r, row, mode)} \cup {row}
<1> DEFINE room == Cleared(row, mode, state.db)
           after == {r \in room : ~(r.table = row.table /\ r.id = row.id)} \cup {row}
<1>1. {r \in room : ~(r.table = row.table /\ r.id = row.id)}
      = {r \in state.db : Remains(r, row, mode)}
  BY DEF Cleared, NaturalKeys, Remains, Modes
<1> HIDE DEF room
<1>2. /\ state.ok /\ ForeignKeys(room) /\ ForeignKeys(after) /\ UniqueKeys(after)
      /\ Upsert(row, mode, state) = Done(after)
  <2>1. Failed.ok = FALSE
    BY DEF Failed
  <2> HIDE DEF after
  <2>2. Upsert(row, mode, state) =
          IF state.ok /\ ForeignKeys(room) /\ ForeignKeys(after) /\ UniqueKeys(after)
          THEN Done(after) ELSE Failed
    BY DEF Upsert, room, after
  <2> QED BY <2>1, <2>2
<1>3. Done(after).db = after
  BY DEF Done
<1> QED BY <1>1, <1>2, <1>3

\* An export, and the rows that it is restored over.
Restorable(export, old) ==
    /\ export \in Seq(RowRecords) /\ old \subseteq RowRecords
    /\ SoundRows(RowsOf(export)) /\ InOrder(export)
    /\ SoundRows(old)
    /\ \A r \in old : \A i \in 1 .. Len(export) : r.id = export[i].id => Alike(r, export[i])

LEMMA ExportRows ==
    ASSUME NEW export, NEW old, Restorable(export, old)
    PROVE  /\ Len(export) \in Nat /\ DOMAIN export = 1 .. Len(export)
           /\ \A i \in 1 .. Len(export) : export[i] \in RowRecords /\ export[i] \in RowsOf(export)
           /\ \A r \in RowsOf(export) : \E i \in 1 .. Len(export) : r = export[i]
  BY DEF Restorable, RowsOf

\* Of the rows restored before this one, none makes room for it that was live.
LEMMA LiveStay ==
    ASSUME NEW export, NEW old, Restorable(export, old), NEW mode \in Modes,
           NEW k \in 1 .. Len(export), NEW i \in 1 .. k - 1, export[i].live,
           export[i] # export[k]
    PROVE  Remains(export[i], export[k], mode)
<1>1. i \in 1 .. Len(export) /\ i \in DOMAIN export /\ k \in DOMAIN export /\ i < k
  BY ExportRows
<1>2. /\ export[i] \in RowRecords /\ export[k] \in RowRecords
      /\ export[i] \in RowsOf(export) /\ export[k] \in RowsOf(export)
  BY <1>1, ExportRows
<1>3. export[i].id # export[k].id
  BY <1>2 DEF Restorable, SoundRows, OneEach
<1>4. ASSUME export[i].table = UsersTable, export[k].table = UsersTable,
             export[i].key = export[k].key
      PROVE  FALSE
  <2>1. export[i].id < export[k].id
    BY <1>1, <1>2, <1>4 DEF Restorable, InOrder, Precedes, UsersTable
  <2>2. export[k].id <= export[i].id
    BY <1>2, <1>4 DEF Restorable, SoundRows, NewestLives
  <2> QED BY <2>1, <2>2, <1>2 DEF RowRecords
<1> QED BY <1>3, <1>4 DEF Remains

LEMMA StatementDoes ==
    ASSUME NEW export, NEW old, Restorable(export, old), NEW mode \in Modes,
           NEW k \in 1 .. Len(export), NEW state, Progressed(export, mode, old, k - 1, state.db),
           Upsert(export[k], mode, state).ok = TRUE
    PROVE  Progressed(export, mode, old, k, Upsert(export[k], mode, state).db)
<1> DEFINE row == export[k]
           now == state.db
           next == Upsert(row, mode, state).db
<1>1. /\ next = {r \in now : Remains(r, row, mode)} \cup {row}
      /\ ForeignKeys(next) /\ UniqueKeys(next)
  BY UpsertDoes
<1>2. /\ Len(export) \in Nat /\ k \in 1 .. k /\ \A i \in 1 .. k - 1 : i \in 1 .. k
      /\ \A i \in 1 .. k : i \in 1 .. k - 1 \/ i = k
      /\ \A i \in 1 .. k : i \in 1 .. Len(export)
  BY ExportRows
<1>3. \A i \in 1 .. Len(export) : export[i] \in RowRecords /\ export[i] \in RowsOf(export)
  BY ExportRows
<1> HIDE DEF next, now, row
<1>4. ASSUME NEW r \in now PROVE r \in old \/ \E i \in 1 .. k - 1 : r = export[i]
  BY <1>4 DEF Progressed, now
<1>5. ASSUME NEW r \in next PROVE r \in old \/ \E i \in 1 .. k : r = export[i]
  BY <1>1, <1>2, <1>4 DEF row
\* A row with the same id is in the same table.
<1>6. ASSUME NEW r \in now, Remains(r, row, mode) PROVE r.id # row.id
  <2>1. CASE r \in old
    <3>1. r.id = export[k].id => Alike(r, export[k])
      BY <2>1, <1>2 DEF Restorable
    <3> QED BY <3>1, <1>6 DEF Remains, Alike, row
  <2>2. CASE \E i \in 1 .. k - 1 : r = export[i]
    <3>1. r \in RowsOf(export) /\ row \in RowsOf(export)
      BY <2>2, <1>2, <1>3 DEF row
    <3>2. r.id = row.id => r = row
      BY <3>1 DEF Restorable, SoundRows, OneEach
    <3> QED BY <3>2, <1>6 DEF Remains
  <2> QED BY <2>1, <2>2, <1>4
<1>7. OneEach(next)
  <2>1. OneEach(now)
    BY DEF Progressed, now
  <2> QED BY <1>1, <1>6, <2>1 DEF OneEach
<1>8. ASSUME NEW i \in 1 .. k, export[i].live PROVE export[i] \in next
  <2>1. CASE export[i] = row
    BY <2>1, <1>1
  <2>2. CASE export[i] # row
    <3>1. i \in 1 .. k - 1
      BY <2>2, <1>2 DEF row
    <3>2. export[i] \in now
      BY <3>1, <1>8 DEF Progressed, now
    <3>3. Remains(export[i], row, mode)
      BY <3>1, <2>2, <1>8, LiveStay DEF row
    <3> QED BY <3>2, <3>3, <1>1
  <2> QED BY <2>1, <2>2
<1>9. ASSUME mode = "merge", NEW i \in 1 .. k, NEW r \in next, NEW s \in next,
             export[i].table = UsersTable, r.table = UsersTable, s.table = UsersTable,
             r.key = export[i].key, s.key = export[i].key
      PROVE  r = s
  <2>1. CASE export[i].key = row.key /\ row.table = UsersTable
    <3>1. ASSUME NEW q \in next, q.table = UsersTable, q.key = row.key PROVE q = row
      <4>1. CASE q \in now /\ Remains(q, row, mode)
        BY <4>1, <3>1, <2>1, <1>9 DEF Remains
      <4> QED BY <4>1, <1>1, <3>1
    <3> QED BY <3>1, <2>1, <1>9
  <2>2. CASE ~ (export[i].key = row.key /\ row.table = UsersTable)
    <3>1. i \in 1 .. k - 1 /\ r # row /\ s # row
      BY <2>2, <1>9, <1>2 DEF row
    <3>2. r \in now /\ s \in now
      BY <3>1, <1>1
    <3> QED BY <3>1, <3>2, <1>9 DEF Progressed, now
  <2> QED BY <2>1, <2>2
<1>10. ASSUME mode = "clean_slate" PROVE next = {export[i] : i \in 1 .. k}
  <2>1. now = {export[i] : i \in 1 .. k - 1}
    BY <1>10 DEF Progressed, now
  <2>2. ASSUME NEW r \in now, r # row PROVE Remains(r, row, mode)
    <3>1. r \in RowsOf(export) /\ row \in RowsOf(export)
      BY <2>1, <1>2, <1>3 DEF row
    <3>2. r.id # row.id
      BY <3>1, <2>2 DEF Restorable, SoundRows, OneEach
    <3> QED BY <3>2, <1>10 DEF Remains
  <2>3. next = now \cup {row}
    BY <2>2, <1>1
  <2>4. now \cup {row} = {export[i] : i \in 1 .. k}
    BY <2>1, <1>2 DEF row
  <2> QED BY <2>3, <2>4
<1> QED BY <1>1, <1>5, <1>7, <1>8, <1>9, <1>10 DEF Progressed, next, row

\* Before the first statement.
LEMMA BeginningDoes ==
    ASSUME NEW export, NEW old, Restorable(export, old), NEW mode \in Modes, NEW state,
           state = IF mode = "clean_slate" THEN AllEmptied(old) ELSE Done(old), state.ok = TRUE
    PROVE  Progressed(export, mode, old, 0, state.db)
<1>1. CASE mode = "clean_slate"
  <2>1. state.db = {}
    <3>1. Done({r \in old : FALSE}) = Done({})
      BY DEF Done
    <3>2. ASSUME NEW t, NEW q, Emptied(t, q).ok = TRUE
          PROVE  q.ok = TRUE /\ Emptied(t, q).db = {r \in q.db : r.table # t}
      BY <3>2 DEF Emptied, Done, Failed
    <3> DEFINE first == Emptied(PropertiesTable, Done(old))
               second == Emptied(UnitsTable, first)
               third == Emptied(AccessTable, second)
    <3>3. state = Emptied(UsersTable, third)
      BY <1>1 DEF AllEmptied
    <3> HIDE DEF first, second, third
    <3>4. third.ok = TRUE /\ state.db = {r \in third.db : r.table # UsersTable}
      BY <3>2, <3>3
    <3>5. second.ok = TRUE /\ third.db = {r \in second.db : r.table # AccessTable}
      BY <3>2, <3>4 DEF third
    <3>6. first.ok = TRUE /\ second.db = {r \in first.db : r.table # UnitsTable}
      BY <3>2, <3>5 DEF second
    <3>7. first.db = {r \in Done(old).db : r.table # PropertiesTable}
      BY <3>2, <3>6 DEF first
    <3>8. first.db = {r \in old : r.table # PropertiesTable}
      BY <3>7 DEF Done
    <3>9. \A r \in old : r.table \in {PropertiesTable, UnitsTable, AccessTable, UsersTable}
      BY DEF Restorable, RowRecords, Tables
    <3> QED BY <3>4, <3>5, <3>6, <3>8, <3>9
  <2> QED BY <2>1, <1>1 DEF Progressed, OneEach, ForeignKeys, UniqueKeys
<1>2. CASE mode = "merge"
  <2>1. state.db = old
    BY <1>2 DEF Done
  <2> QED BY <2>1, <1>2 DEF Progressed, Restorable, SoundRows
<1> QED BY <1>1, <1>2 DEF Modes

\* h has the rows after each of the statements.
Replays(h, export, mode, old) ==
    /\ h[0] = IF mode = "clean_slate" THEN AllEmptied(old) ELSE Done(old)
    /\ \A k \in 1 .. Len(export) : h[k] = Upsert(export[k], mode, h[k - 1])
    /\ Replayed(export, mode, old) = h[Len(export)]

LEMMA ReplayUnfolds ==
    ASSUME NEW export, NEW old, Restorable(export, old), NEW mode \in Modes
    PROVE  \E h : Replays(h, export, mode, old)
<1> DEFINE n == Len(export)
           first == IF mode = "clean_slate" THEN AllEmptied(old) ELSE Done(old)
           Rec(h) == h = [k \in 0 .. n |-> IF k = 0 THEN first
                                           ELSE Upsert(export[k], mode, h[k - 1])]
           h == CHOOSE h : Rec(h)
           S == [db : SUBSET RowRecords, ok : BOOLEAN]
           step == [p \in (1 .. n) \X S |-> Upsert(export[p[1]], mode, p[2])]
<1>1. /\ n \in Nat /\ \A k \in 1 .. n : k - 1 \in 0 .. n /\ k \in 0 .. n /\ k # 0
      /\ \A k \in 1 .. n : export[k] \in RowRecords
  BY ExportRows
<1>2. Replayed(export, mode, old) = h[n]
  BY DEF Replayed
<1> HIDE DEF n
<1>3. ASSUME NEW d \in SUBSET RowRecords PROVE Done(d) \in S
  BY <1>3 DEF Done
<1>4. Failed \in S
  BY DEF Failed
<1>5. first \in S
  <2>1. old \subseteq RowRecords
    BY DEF Restorable
  <2>2. ASSUME NEW t, NEW q \in S PROVE Emptied(t, q) \in S
    <3>1. {r \in q.db : r.table # t} \in SUBSET RowRecords
      OBVIOUS
    <3> HIDE DEF S
    <3> QED BY <3>1, <1>3, <1>4 DEF Emptied
  <2> HIDE DEF S
  <2> QED BY <2>1, <2>2, <1>3 DEF AllEmptied
<1>6. ASSUME NEW row \in RowRecords, NEW q \in S PROVE Upsert(row, mode, q) \in S
  <2> DEFINE room == Cleared(row, mode, q.db)
             d == {r \in room : ~(r.table = row.table /\ r.id = row.id)} \cup {row}
  <2>1. d \in SUBSET RowRecords
    BY DEF Cleared
  <2>2. Upsert(row, mode, q) = Done(d) \/ Upsert(row, mode, q) = Failed
    BY DEF Upsert
  <2> HIDE DEF S, d
  <2> QED BY <2>1, <2>2, <1>3, <1>4
<1>7. step \in [(1 .. n) \X S -> S]
  <2> HIDE DEF S
  <2> QED BY <1>1, <1>6
<1>8. PICK g : IsBuilt(g, S, n, first, step)
  <2> HIDE DEF step, S, first
  <2> QED BY <1>1, <1>5, <1>7, BuiltUp
<1>9. Rec(g)
  <2>1. /\ g \in [0 .. n -> S] /\ g[0] = first
        /\ \A k \in 1 .. n : g[k] = step[<<k, g[k - 1]>>]
    BY <1>8 DEF IsBuilt
  <2>2. \A k \in 1 .. n : g[k] = Upsert(export[k], mode, g[k - 1])
    <3> HIDE DEF S
    <3> QED BY <1>1, <2>1
  <2>3. g = [k \in 0 .. n |-> g[k]]
    <3> HIDE DEF S, step, first
    <3> QED BY <2>1
  <2>4. \A k \in 0 .. n : k = 0 \/ k \in 1 .. n
    BY <1>1
  <2> HIDE DEF S, step, first
  <2> QED BY <2>1, <2>2, <2>3, <2>4
<1>10. Rec(h)
  <2> HIDE DEF Rec
  <2> QED BY <1>9
<1>11. h[0] = first /\ \A k \in 1 .. n : h[k] = Upsert(export[k], mode, h[k - 1])
  <2> HIDE DEF h, first
  <2> QED BY <1>1, <1>10
<1> HIDE DEF h
<1> QED BY <1>2, <1>11 DEF Replays, n

\* What a restore that succeeds has done.
LEMMA StatementsDo ==
    ASSUME NEW export, NEW old, Restorable(export, old), NEW mode \in Modes,
           Replayed(export, mode, old).ok = TRUE
    PROVE  Progressed(export, mode, old, Len(export), Replayed(export, mode, old).db)
<1>1. PICK h : Replays(h, export, mode, old)
  BY ReplayUnfolds
<1> DEFINE n == Len(export)
           T == {k \in 0 .. n : h[k].ok = TRUE => Progressed(export, mode, old, k, h[k].db)}
<1>2. n \in Nat
  BY ExportRows
<1>3. 0 \in T
  <2>1. h[0] = IF mode = "clean_slate" THEN AllEmptied(old) ELSE Done(old)
    BY <1>1 DEF Replays
  <2>2. h[0].ok = TRUE => Progressed(export, mode, old, 0, h[0].db)
    BY <2>1, BeginningDoes
  <2> QED BY <2>2, <1>2
<1>4. ASSUME NEW k \in 1 .. n, k - 1 \in T PROVE k \in T
  <2>1. h[k] = Upsert(export[k], mode, h[k - 1])
    BY <1>1 DEF Replays
  <2>2. ASSUME h[k].ok = TRUE PROVE Progressed(export, mode, old, k, h[k].db)
    <3> DEFINE before == h[k - 1]
    <3>1. Upsert(export[k], mode, before).ok = TRUE
      BY <2>1, <2>2
    <3>2. k - 1 \in 0 .. n /\ k \in 1 .. Len(export)
      BY <1>2
    <3> HIDE DEF before
    <3>3. before.ok = TRUE
      BY <3>1, UpsertDoes
    <3>4. Progressed(export, mode, old, k - 1, before.db)
      BY <3>3, <1>4 DEF before
    <3>5. Progressed(export, mode, old, k, Upsert(export[k], mode, before).db)
      BY <3>1, <3>2, <3>4, StatementDoes
    <3>6. h[k] = Upsert(export[k], mode, before)
      BY <2>1 DEF before
    <3> QED BY <3>5, <3>6
  <2>3. k \in 0 .. n
    BY <1>2
  <2>4. h[k].ok = TRUE => Progressed(export, mode, old, k, h[k].db)
    BY <2>2
  <2> QED BY <2>3, <2>4
<1>5. n \in T
  <2> HIDE DEF T
  <2>1. 0 .. n \subseteq T
    BY <1>2, <1>3, <1>4, HandedOn
  <2> QED BY <2>1, <1>2
<1> QED BY <1>1, <1>5 DEF Replays

Restores(export, mode, old, now) ==
    /\ SoundRows(now)
    /\ now \subseteq old \cup RowsOf(export)
    /\ {r \in RowsOf(export) : r.live} \subseteq now
    /\ mode = "clean_slate" => now = RowsOf(export)

LEMMA RestoreDoes ==
    ASSUME NEW export, NEW old, Restorable(export, old), NEW mode \in Modes,
           Replayed(export, mode, old).ok = TRUE
    PROVE  Restores(export, mode, old, Replayed(export, mode, old).db)
<1> DEFINE now == Replayed(export, mode, old).db
<1>1. Progressed(export, mode, old, Len(export), now)
  BY StatementsDo
<1> HIDE DEF now
<1>2. /\ \A i \in 1 .. Len(export) : export[i] \in RowsOf(export) /\ export[i] \in RowRecords
      /\ \A r \in RowsOf(export) : \E i \in 1 .. Len(export) : r = export[i]
  BY ExportRows
<1>3. now \subseteq old \cup RowsOf(export)
  BY <1>1, <1>2 DEF Progressed
<1>4. {r \in RowsOf(export) : r.live} \subseteq now
  BY <1>1, <1>2 DEF Progressed
<1>5. mode = "clean_slate" => now = RowsOf(export)
  <2>1. DOMAIN export = 1 .. Len(export)
    BY ExportRows
  <2> QED BY <1>1, <2>1 DEF Progressed, RowsOf
<1>6. NewestLives(now)
  <2>1. CASE mode = "clean_slate"
    BY <2>1, <1>5 DEF Restorable, SoundRows
  <2>2. CASE mode = "merge"
    <3> SUFFICES ASSUME NEW r \in now, NEW s \in now, r.table = UsersTable,
                        s.table = UsersTable, r.key = s.key, r.live
                 PROVE  s.id <= r.id
      BY DEF NewestLives
    <3>1. CASE r \in old /\ s \in old
      BY <3>1 DEF Restorable, SoundRows, NewestLives
    <3>2. CASE ~ (r \in old /\ s \in old)
      <4>1. PICK i \in 1 .. Len(export) : r = export[i] \/ s = export[i]
        BY <3>2, <1>3, <1>2
      <4>2. r = s
        BY <4>1, <2>2, <1>1 DEF Progressed
      <4>3. r \in RowRecords
        BY <1>3, <1>2 DEF Restorable
      <4> QED BY <4>2, <4>3 DEF RowRecords
    <3> QED BY <3>1, <3>2
  <2> QED BY <2>1, <2>2 DEF Modes
<1>7. now \subseteq RowRecords
  BY <1>3, <1>2 DEF Restorable
<1>8. Restores(export, mode, old, now)
  BY <1>1, <1>3, <1>4, <1>5, <1>6, <1>7 DEF SoundRows, Progressed, Restores
<1> QED BY <1>8 DEF now

(***************************************************************************)
(* The steps.                                                              *)
(***************************************************************************)
\* Rows that mean what known rows mean.
LEMMA KnownFrom ==
    ASSUME RestoreInv, nextId' = nextId,
           \A r \in AllRows' : \E s \in AllRows : Alike(r, s)
    PROVE  KnownRows'
<1>1. OneMeaning(AllRows)'
  <2> SUFFICES ASSUME NEW r \in AllRows', NEW s \in AllRows', r.id = s.id PROVE Alike(r, s)
    BY DEF OneMeaning
  <2>1. PICK p \in AllRows : Alike(r, p)
    OBVIOUS
  <2>2. PICK q \in AllRows : Alike(s, q)
    OBVIOUS
  <2>3. Alike(p, q)
    <3>1. p.id = q.id
      BY <2>1, <2>2 DEF Alike
    <3> QED BY <3>1 DEF RestoreInv, KnownRows, OneMeaning
  <2> QED BY <2>1, <2>2, <2>3 DEF Alike
<1>2. \A r \in AllRows' : Shaped(r) /\ r.id < nextId'
  BY DEF RestoreInv, KnownRows, Alike, Shaped
<1> QED BY <1>1, <1>2 DEF KnownRows

\* A new row beside what there was.
LEMMA KnownWith ==
    ASSUME RestoreInv, nextId' = nextId + 1, UNCHANGED exports, NEW row,
           row \in RowRecords, row.id = nextId, Shaped(row),
           \A r \in data' : r \in data \/ r = row
    PROVE  KnownRows'
<1>1. \A r \in AllRows' : r \in AllRows \/ r = row
  BY DEF AllRows
<1>2. \A r \in AllRows : Shaped(r) /\ r.id < nextId /\ r.id \in Nat
  BY DEF RestoreInv, KnownRows, AllRows, RowRecords
<1>3. OneMeaning(AllRows)'
  <2> SUFFICES ASSUME NEW r \in AllRows', NEW s \in AllRows', r.id = s.id PROVE Alike(r, s)
    BY DEF OneMeaning
  <2>1. CASE r \in AllRows /\ s \in AllRows
    BY <2>1 DEF RestoreInv, KnownRows, OneMeaning
  <2>2. CASE r \notin AllRows \/ s \notin AllRows
    <3>1. r = s
      BY <2>2, <1>1, <1>2 DEF RestoreInv
    <3> QED BY <3>1 DEF Alike
  <2> QED BY <2>1, <2>2
<1>4. \A r \in AllRows' : Shaped(r) /\ r.id < nextId'
  BY <1>1, <1>2 DEF RestoreInv
<1> QED BY <1>3, <1>4 DEF KnownRows

LEMMA DataKnown ==
    ASSUME RestoreInv
    PROVE  /\ \A r \in data : /\ r \in AllRows /\ r \in RowRecords /\ Shaped(r)
                              /\ r.id < nextId /\ r.id \in Nat \ {0}
           /\ nextId \in Nat \ {0}
  BY DEF RestoreInv, SoundRows, KnownRows, AllRows, RowRecords

LEMMA AddUserStep == ASSUME RestoreInv, NEW email \in Mailboxes, AddUser(email) PROVE RestoreInv'
<1> DEFINE row == NewRow(UsersTable, nextId, email, NoParent)
<1>1. /\ UniqueKeys(data \cup {row}) /\ data' = data \cup {row}
      /\ nextId' = nextId + 1 /\ UNCHANGED exports
  BY DEF AddUser
<1>2. /\ row \in RowRecords /\ row.table = UsersTable /\ row.id = nextId /\ row.key = email
      /\ row.parent = NoParent /\ row.live = TRUE
  BY DataKnown DEF NewRow, RowRecords, Tables, NoParent
<1> HIDE DEF row
<1>3. KnownRows'
  <2>1. Shaped(row)
    BY <1>2 DEF Shaped, PropertiesTable, UnitsTable, AccessTable, UsersTable
  <2> QED BY <1>1, <1>2, <2>1, KnownWith
<1>4. SoundRows(data)'
  <2>1. SoundRows(data)
    BY DEF RestoreInv
  <2>2. OneEach(data)'
    BY <1>1, <1>2, <2>1, DataKnown DEF SoundRows, OneEach
  <2>3. NewestLives(data)'
    <3> SUFFICES ASSUME NEW r \in data', NEW s \in data', r.table = UsersTable,
                        s.table = UsersTable, r.key = s.key, r.live
                 PROVE  s.id <= r.id
      BY DEF NewestLives
    <3>1. CASE r \in data /\ s \in data
      BY <3>1, <2>1 DEF SoundRows, NewestLives
    <3>2. CASE r = row
      BY <3>2, <1>1, <1>2, DataKnown
    <3>3. CASE r \in data /\ s = row
      <4>1. Clashes(r, s)
        BY <3>3, <1>2, DataKnown DEF Clashes
      <4> QED BY <4>1, <1>1 DEF UniqueKeys
    <3> QED BY <3>1, <3>2, <3>3, <1>1
  <2>4. ForeignKeys(data)'
    BY <1>1, <1>2, <2>1 DEF SoundRows, ForeignKeys, Named
  <2>5. UniqueKeys(data)'
    BY <1>1
  <2> QED BY <1>1, <1>2, <2>1, <2>2, <2>3, <2>4, <2>5 DEF SoundRows
<1> QED BY <1>1, <1>3, <1>4 DEF RestoreInv

LEMMA RemoveUserStep == ASSUME RestoreInv, NEW u \in data, RemoveUser(u) PROVE RestoreInv'
<1> DEFINE row == [u EXCEPT !.live = FALSE]
<1>1. /\ data' = (data \ {u}) \cup {row} /\ nextId' = nextId /\ UNCHANGED exports
      /\ u.table = UsersTable
  BY DEF RemoveUser
<1>2. row \in RowRecords /\ Alike(row, u) /\ row.live = FALSE
  BY DataKnown DEF RowRecords, Alike
<1> HIDE DEF row
<1>3. SoundRows(data)
  BY DEF RestoreInv
<1>4. KnownRows'
  <2>1. \A r \in AllRows' : r \in AllRows \/ r = row
    BY <1>1 DEF AllRows
  <2>2. u \in AllRows
    BY DataKnown
  <2>3. \A r \in AllRows' : \E s \in AllRows : Alike(r, s)
    BY <2>1, <2>2, <1>2 DEF Alike
  <2> QED BY <2>3, <1>1, KnownFrom
<1>5. SoundRows(data)'
  <2>1. \A r \in data' : r # row => r \in data /\ r # u
    BY <1>1
  <2>2. \A r \in data : r.id = u.id => r = u
    BY <1>3 DEF SoundRows, OneEach
  <2>3. OneEach(data)'
    BY <2>1, <2>2, <1>2, <1>3 DEF SoundRows, OneEach, Alike
  <2>4. NewestLives(data)'
    BY <2>1, <1>2, <1>3 DEF SoundRows, NewestLives, Alike
  <2>5. ForeignKeys(data)'
    <3> SUFFICES ASSUME NEW r \in data' PROVE Named(r, data')
      BY DEF ForeignKeys
    <3>1. \E q \in data : r.parent = q.parent /\ r.table = q.table
      BY <2>1, <1>2 DEF Alike
    <3>2. \/ r.parent = NoParent
          \/ \E s \in data : s.table = ParentTable(r.table) /\ s.id = r.parent
      BY <3>1, <1>3 DEF SoundRows, ForeignKeys, Named
    <3>3. ASSUME NEW s \in data, s.table = ParentTable(r.table), s.id = r.parent
          PROVE  Named(r, data')
      <4>1. CASE s = u
        <5>1. row \in data' /\ row.table = ParentTable(r.table) /\ row.id = r.parent
          BY <4>1, <3>3, <1>1, <1>2 DEF Alike
        <5> QED BY <5>1 DEF Named
      <4>2. CASE s # u
        BY <4>2, <3>3, <1>1 DEF Named
      <4> QED BY <4>1, <4>2
    <3> QED BY <3>2, <3>3 DEF Named
  <2>6. UniqueKeys(data)'
    BY <2>1, <1>2, <1>3 DEF SoundRows, UniqueKeys, Clashes
  <2> QED BY <1>1, <1>2, <1>3, <2>3, <2>4, <2>5, <2>6 DEF SoundRows
<1> QED BY <1>1, <1>4, <1>5 DEF RestoreInv

LEMMA GrantStep ==
    ASSUME RestoreInv, NEW u \in data, NEW p \in PortfolioIds, SetUserPortfolioAccess(u, p)
    PROVE  RestoreInv'
<1> DEFINE row == NewRow(AccessTable, nextId, <<u.id, p>>, u.id)
<1>1. /\ data' = {r \in data : ~ (r.table = AccessTable /\ r.parent = u.id)} \cup {row}
      /\ nextId' = nextId + 1 /\ UNCHANGED exports /\ u.table = UsersTable
  BY DEF SetUserPortfolioAccess
<1>2. /\ row \in RowRecords /\ row.table = AccessTable /\ row.id = nextId
      /\ row.key = <<u.id, p>> /\ row.parent = u.id /\ row.live = TRUE
  BY DataKnown DEF NewRow, RowRecords, Tables
<1> HIDE DEF row
<1>3. SoundRows(data)
  BY DEF RestoreInv
<1>4. \A r \in data : r.table \in {PropertiesTable, UsersTable} => r \in data'
  BY <1>1 DEF PropertiesTable, UsersTable, AccessTable
<1>5. KnownRows'
  <2>1. Shaped(row)
    BY <1>2 DEF Shaped, PropertiesTable, UnitsTable, UsersTable, AccessTable
  <2> QED BY <1>1, <1>2, <2>1, KnownWith
<1>6. SoundRows(data)'
  <2>1. \A r \in data' : r # row => r \in data /\ (r.table = AccessTable => r.parent # u.id)
    BY <1>1
  <2>2. OneEach(data)'
    BY <2>1, <1>2, <1>3, DataKnown DEF SoundRows, OneEach
  <2>3. NewestLives(data)'
    BY <2>1, <1>2, <1>3 DEF SoundRows, NewestLives, UsersTable, AccessTable
  <2>4. ForeignKeys(data)'
    <3>1. u \in data'
      BY <1>1, <1>4
    <3>2. \A r \in data : Named(r, data) => Named(r, data')
      BY <1>4 DEF Named, ParentTable
    <3>3. Named(row, data')
      BY <3>1, <1>1, <1>2 DEF Named, ParentTable, AccessTable, UnitsTable
    <3> QED BY <3>2, <3>3, <2>1, <1>3 DEF SoundRows, ForeignKeys
  <2>5. UniqueKeys(data)'
    <3> SUFFICES ASSUME NEW r \in data', NEW s \in data', Clashes(r, s) PROVE FALSE
      BY DEF UniqueKeys
    <3>1. ASSUME NEW q \in data', q # row, q.table = AccessTable, q.key = row.key PROVE FALSE
      <4>1. q \in data /\ q.parent # u.id
        BY <3>1, <2>1
      <4>2. q.key[1] = q.parent
        BY <3>1, <4>1, DataKnown DEF Shaped, UsersTable, AccessTable
      <4> QED BY <3>1, <4>1, <4>2, <1>2
    <3>2. r.table = s.table /\ r.key = s.key /\ r.id # s.id
      BY DEF Clashes
    <3>3. CASE r = row \/ s = row
      BY <3>1, <3>2, <3>3, <1>2
    <3>4. CASE r # row /\ s # row
      BY <3>4, <2>1, <1>3 DEF SoundRows, UniqueKeys
    <3> QED BY <3>3, <3>4
  <2> QED BY <1>1, <1>2, <1>3, <2>2, <2>3, <2>4, <2>5 DEF SoundRows
<1> QED BY <1>1, <1>5, <1>6, DataKnown DEF RestoreInv

\* A place has a key of its own.
LEMMA PlaceStep ==
    ASSUME RestoreInv, NEW table \in {PropertiesTable, UnitsTable}, NEW parent \in Nat,
           Named(NewRow(table, nextId, <<nextId, nextId>>, parent), data), AddPlace(table, parent)
    PROVE  RestoreInv'
<1> DEFINE row == NewRow(table, nextId, <<nextId, nextId>>, parent)
<1>1. data' = data \cup {row} /\ nextId' = nextId + 1 /\ UNCHANGED exports /\ Named(row, data)
  BY DEF AddPlace
<1>2. /\ row \in RowRecords /\ row.table = table /\ row.id = nextId
      /\ row.key = <<nextId, nextId>>
  BY DataKnown DEF NewRow, RowRecords, Tables
<1> HIDE DEF row
<1>3. SoundRows(data)
  BY DEF RestoreInv
<1>4. table # UsersTable /\ table # AccessTable
  BY DEF PropertiesTable, UnitsTable, AccessTable, UsersTable
<1>5. KnownRows'
  <2>1. Shaped(row)
    BY <1>2, <1>4 DEF Shaped
  <2> QED BY <1>1, <1>2, <2>1, KnownWith
<1>6. SoundRows(data)'
  <2>1. \A r \in data' : r # row => r \in data
    BY <1>1
  <2>2. OneEach(data)'
    BY <2>1, <1>2, <1>3, DataKnown DEF SoundRows, OneEach
  <2>3. NewestLives(data)'
    BY <2>1, <1>2, <1>3, <1>4 DEF SoundRows, NewestLives
  <2>4. ForeignKeys(data)'
    BY <1>1, <1>3 DEF SoundRows, ForeignKeys, Named
  <2>5. UniqueKeys(data)'
    <3>1. ASSUME NEW q \in data, q.table = table PROVE q.key # row.key
      <4>1. q.key = <<q.id, q.id>> /\ q.id < nextId /\ q.id \in Nat /\ nextId \in Nat
        BY <3>1, DataKnown DEF Shaped
      <4> QED BY <4>1, <1>2
    <3> QED BY <3>1, <2>1, <1>2, <1>3 DEF SoundRows, UniqueKeys, Clashes
  <2> QED BY <1>1, <1>2, <1>3, <2>2, <2>3, <2>4, <2>5 DEF SoundRows
<1> QED BY <1>1, <1>5, <1>6, DataKnown DEF RestoreInv

LEMMA AddPropertyStep == ASSUME RestoreInv, AddProperty PROVE RestoreInv'
<1>1. Named(NewRow(PropertiesTable, nextId, <<nextId, nextId>>, NoParent), data)
  BY DEF Named, NewRow
<1> QED BY <1>1, PlaceStep DEF AddProperty, NoParent

LEMMA AddUnitStep == ASSUME RestoreInv, NEW p \in data, AddUnit(p) PROVE RestoreInv'
<1>1. p.table = PropertiesTable /\ AddPlace(UnitsTable, p.id) /\ p.id \in Nat
  BY DataKnown DEF AddUnit
<1>2. Named(NewRow(UnitsTable, nextId, <<nextId, nextId>>, p.id), data)
  BY <1>1 DEF Named, NewRow, ParentTable
<1> QED BY <1>1, <1>2, PlaceStep

\* An export has the rows of the database.
LEMMA ExportStep == ASSUME RestoreInv, CreateOperatorExport PROVE RestoreInv'
<1>1. PICK n \in 0 .. nextId - 1 : \E export \in [1 .. n -> data] :
          InOrder(export) /\ RowsOf(export) = data /\ exports' = Append(exports, export)
  BY DEF CreateOperatorExport
<1>2. PICK export \in [1 .. n -> data] :
          InOrder(export) /\ RowsOf(export) = data /\ exports' = Append(exports, export)
  BY <1>1
<1>3. data' = data /\ nextId' = nextId
  BY DEF CreateOperatorExport
<1> DEFINE Q == Seq(RowRecords)
<1>4. export \in Q
  <2>1. n \in Nat /\ data \subseteq RowRecords
    BY DataKnown
  <2> QED BY <2>1
<1>5. exports \in Seq(Q)
  BY DEF RestoreInv
<1> HIDE DEF Q
<1>6. PICK m \in Nat : m = Len(exports)
  BY <1>5
<1>7. /\ exports' \in Seq(Q) /\ DOMAIN exports = 1 .. m /\ DOMAIN exports' = 1 .. m + 1
      /\ \A e \in 1 .. m : exports'[e] = exports[e]
      /\ exports'[m + 1] = export
  BY <1>2, <1>4, <1>5, <1>6
<1>8. \A e \in DOMAIN exports' : \/ e \in DOMAIN exports /\ exports'[e] = exports[e]
                                 \/ exports'[e] = export
  BY <1>7
<1>9. KnownRows'
  <2>1. \A r \in AllRows' : r \in AllRows
    BY <1>2, <1>3, <1>8 DEF AllRows
  <2>2. \A r \in AllRows' : \E s \in AllRows : Alike(r, s)
    BY <2>1 DEF Alike
  <2> QED BY <2>2, <1>3, KnownFrom
<1>10. \A e \in DOMAIN exports' : SoundRows(RowsOf(exports'[e])) /\ InOrder(exports'[e])
  BY <1>2, <1>8 DEF RestoreInv
<1> QED BY <1>3, <1>7, <1>9, <1>10 DEF RestoreInv, Q

LEMMA IsRestorable ==
    ASSUME RestoreInv, NEW e \in DOMAIN exports
    PROVE  Restorable(exports[e], data) /\ \A r \in RowsOf(exports[e]) : r \in AllRows
<1> DEFINE Q == Seq(RowRecords)
<1>1. exports[e] \in Q
  <2>1. exports \in Seq(Q)
    BY DEF RestoreInv
  <2> HIDE DEF Q
  <2> QED BY <2>1
<1>2. SoundRows(RowsOf(exports[e])) /\ InOrder(exports[e]) /\ SoundRows(data)
  BY DEF RestoreInv
<1>3. \A r \in RowsOf(exports[e]) : r \in AllRows
  BY <1>2 DEF AllRows, SoundRows
<1>4. \A i \in 1 .. Len(exports[e]) : exports[e][i] \in RowsOf(exports[e])
  BY <1>1 DEF RowsOf
<1>5. \A r \in data : \A i \in 1 .. Len(exports[e]) :
          r.id = exports[e][i].id => Alike(r, exports[e][i])
  BY <1>3, <1>4, DataKnown DEF RestoreInv, KnownRows, OneMeaning
<1> QED BY <1>1, <1>2, <1>3, <1>5, DataKnown DEF Restorable

LEMMA RestoreStep ==
    ASSUME RestoreInv, NEW e \in DOMAIN exports, NEW mode \in Modes, RestoreOperatorData(e, mode)
    PROVE  /\ RestoreInv'
           /\ IF outcome'.ok THEN /\ {r \in RowsOf(exports[e]) : r.live} \subseteq data'
                                  /\ mode = "clean_slate" => data' = RowsOf(exports[e])
              ELSE data' = data
<1> DEFINE result == Replayed(exports[e], mode, data)
<1>1. /\ data' = IF result.ok THEN result.db ELSE data
      /\ outcome'.ok = result.ok /\ nextId' = nextId /\ UNCHANGED exports
  BY DEF RestoreOperatorData
<1>2. Restorable(exports[e], data) /\ \A r \in RowsOf(exports[e]) : r \in AllRows
  BY IsRestorable
<1>3. result.ok = TRUE => Restores(exports[e], mode, data, result.db)
  BY <1>2, RestoreDoes
<1> HIDE DEF result
<1>4. SoundRows(data)' /\ \A r \in data' : r \in data \/ r \in RowsOf(exports[e])
  BY <1>1, <1>3 DEF RestoreInv, Restores
<1>5. KnownRows'
  <2>1. \A r \in AllRows' : r \in AllRows
    BY <1>1, <1>2, <1>4, DataKnown DEF AllRows
  <2>2. \A r \in AllRows' : \E s \in AllRows : Alike(r, s)
    BY <2>1 DEF Alike
  <2> QED BY <2>2, <1>1, KnownFrom
<1>6. RestoreInv'
  BY <1>1, <1>4, <1>5 DEF RestoreInv
<1> QED BY <1>1, <1>3, <1>6 DEF Restores

LEMMA RestoreNextStep == RestoreInv /\ [RestoreNext]_orVars => RestoreInv'
<1> SUFFICES ASSUME RestoreInv, [RestoreNext]_orVars PROVE RestoreInv'
  OBVIOUS
<1>1. ASSUME UNCHANGED orVars PROVE RestoreInv'
  BY <1>1 DEF RestoreInv, orVars, KnownRows, AllRows
<1> QED BY <1>1, AddUserStep, RemoveUserStep, GrantStep, AddPropertyStep, AddUnitStep,
           ExportStep, RestoreStep DEF RestoreNext

LEMMA RestoreInitial == RestoreInit => RestoreInv
  BY DEF RestoreInit, RestoreInv, KnownRows, AllRows, OneMeaning, SoundRows, OneEach,
     NewestLives, ForeignKeys, UniqueKeys

\* A restore takes place as a whole or not at all, leaves the live rows of the
\* export as they were exported, and nothing else on a clean slate; whatever is
\* restored over whatever, ids keep their meaning and the newest user of an
\* address is the live one (backup/backend/service.ts), for any number of users,
\* grants, properties, units and exports.
THEOREM DataRestored == RestoreSpec => RestoresWhole
<1>1. RestoreInv => RestoreTypeOK /\ IdsKeepMeaning /\ NewestIsLive
  <2> SUFFICES ASSUME RestoreInv PROVE RestoreTypeOK /\ IdsKeepMeaning /\ NewestIsLive
    OBVIOUS
  <2>1. RestoreTypeOK
    BY DataKnown DEF RestoreInv, SoundRows, OneEach, RestoreTypeOK, RowRecords
  <2>2. IdsKeepMeaning
    BY IsRestorable, DataKnown DEF RestoreInv, KnownRows, OneMeaning, Alike, IdsKeepMeaning
  <2>3. NewestIsLive
    BY DEF RestoreInv, SoundRows, NewestLives, NewestIsLive
  <2> QED BY <2>1, <2>2, <2>3
<1>2. RestoreInv => TakesPlaceAsAWhole /\ CleanSlateIsTheExport
  <2> SUFFICES ASSUME RestoreInv PROVE TakesPlaceAsAWhole /\ CleanSlateIsTheExport
    OBVIOUS
  <2>1. TakesPlaceAsAWhole
    BY RestoreStep DEF TakesPlaceAsAWhole
  <2>2. CleanSlateIsTheExport
    BY RestoreStep DEF CleanSlateIsTheExport, Modes
  <2> QED BY <2>1, <2>2
<1> QED BY <1>1, <1>2, RestoreInitial, RestoreNextStep, PTL DEF RestoreSpec, RestoresWhole

(***************************************************************************)
(* Amenities of properties and units.                                      *)
(***************************************************************************)
TagRecords == [unit : UnitIds, id : AmenityIds, excluded : BOOLEAN]

AmenitiesInv ==
    /\ amenities \subseteq everAmenities
    /\ propertyTags \in [PropertyIds -> SUBSET AmenityIds]
    /\ unitTags \subseteq TagRecords
    /\ \A t, q \in unitTags : t.unit = q.unit /\ t.id = q.id => t = q
    /\ TagsAreShown /\ OneRecord

LEMMA SameTag ==
    ASSUME NEW t \in TagRecords, NEW q \in TagRecords, t.unit = q.unit, t.id = q.id,
           t.excluded = q.excluded
    PROVE  t = q
  BY DEF TagRecords

\* The rows that a unit gets are its own, and name an amenity once.
OwnRow(t, u, chosen, excluded) ==
    /\ t \in TagRecords /\ t.unit = u
    /\ \/ t.excluded = TRUE /\ t.id \in excluded
       \/ /\ t.excluded = FALSE
          /\ t.id \in chosen /\ t.id \notin excluded /\ t.id \notin Inherited(u)

LEMMA RowsOfUnit ==
    ASSUME NEW u \in UnitIds, NEW chosen \in SUBSET AmenityIds, NEW excluded \in SUBSET AmenityIds,
           NEW t \in TagRows(u, chosen, excluded)
    PROVE  OwnRow(t, u, chosen, excluded)
<1>1. CASE t \in [unit : {u}, id : excluded, excluded : {TRUE}]
  BY <1>1 DEF TagRecords, OwnRow
<1>2. CASE t \in [unit : {u}, id : (chosen \ Inherited(u)) \ excluded, excluded : {FALSE}]
  BY <1>2 DEF TagRecords, OwnRow
<1> QED BY <1>1, <1>2 DEF TagRows

\* The rows of one unit are replaced by rows that name an amenity once.
LEMMA UnitRowsReplaced ==
    ASSUME AmenitiesInv, NEW u \in UnitIds, NEW fresh,
           \A t \in fresh : t \in TagRecords /\ t.unit = u /\ t.id \in amenities \cup definitions,
           \A t, q \in fresh : t.id = q.id => t = q,
           unitTags' = (unitTags \ TagsOf(u)) \cup fresh,
           UNCHANGED <<tables, propertyTags, syndications>>
    PROVE  AmenitiesInv'
<1>1. \A t \in unitTags' : t \in fresh \/ (t \in unitTags /\ t.unit # u)
  BY DEF TagsOf
<1>2. \A t \in unitTags : t \in TagRecords /\ t.id \in amenities \cup definitions
  BY DEF AmenitiesInv, TagsAreShown
<1>3. \A t \in unitTags' : t \in TagRecords /\ t.id \in amenities \cup definitions
  BY <1>1, <1>2
<1>4. \A t, q \in unitTags' : t.unit = q.unit /\ t.id = q.id => t = q
  BY <1>1 DEF AmenitiesInv
<1> QED BY <1>3, <1>4 DEF AmenitiesInv, tables, TagsAreShown, OneRecord

LEMMA AmenitiesStep ==
    ASSUME AmenitiesInv, [AMNext]_amVars
    PROVE  AmenitiesInv'
<1>1. ASSUME NEW a \in AmenityIds, CreateAmenity(a) \/ Define(a) PROVE AmenitiesInv'
  BY <1>1 DEF AmenitiesInv, CreateAmenity, Define, tables, tags, TagsAreShown, OneRecord
<1>2. ASSUME NEW a \in AmenityIds, DeleteAmenity(a) PROVE AmenitiesInv'
  <2>1. /\ amenities' = amenities \ {a} /\ unitTags' = {t \in unitTags : t.id # a}
        /\ propertyTags' = [p \in PropertyIds |-> propertyTags[p] \ {a}]
        /\ UNCHANGED <<everAmenities, definitions, syndications>>
    BY <1>2 DEF DeleteAmenity
  <2> QED BY <2>1 DEF AmenitiesInv, TagsAreShown, OneRecord
<1>3. ASSUME NEW p \in PropertyIds, NEW chosen \in SUBSET AmenityIds,
             SetPropertyAmenities(p, chosen) \/ SavePropertyTags(p, chosen)
      PROVE  AmenitiesInv'
  <2>1. /\ UNCHANGED <<tables, unitTags, syndications>>
        /\ chosen \subseteq amenities \cup definitions
        /\ propertyTags' = propertyTags \/ propertyTags' = [propertyTags EXCEPT ![p] = chosen]
    BY <1>3 DEF SetPropertyAmenities, SavePropertyTags
  <2> QED BY <2>1 DEF AmenitiesInv, tables, TagsAreShown, OneRecord
<1>4. ASSUME NEW u \in UnitIds, NEW chosen \in SUBSET AmenityIds, SetUnitAmenities(u, chosen)
      PROVE  AmenitiesInv'
  <2> DEFINE fresh == [unit : {u}, id : chosen, excluded : {FALSE}]
  <2>1. /\ \A t \in fresh : t \in TagRecords /\ t.unit = u /\ t.id \in amenities
        /\ \A t \in fresh : t.excluded = FALSE
    BY <1>4 DEF SetUnitAmenities, TagRecords
  <2>2. /\ unitTags' = (unitTags \ TagsOf(u)) \cup fresh
        /\ UNCHANGED <<tables, propertyTags, syndications>>
    BY <1>4 DEF SetUnitAmenities
  <2> HIDE DEF fresh
  <2>3. \A t, q \in fresh : t.id = q.id => t = q
    BY <2>1, SameTag
  <2> QED BY <2>1, <2>2, <2>3, UnitRowsReplaced
<1>5. ASSUME NEW u \in UnitIds, NEW chosen \in SUBSET AmenityIds,
             NEW excluded \in SUBSET AmenityIds, SaveUnitTags(u, chosen, excluded)
      PROVE  AmenitiesInv'
  <2> DEFINE fresh == TagRows(u, chosen, excluded)
  <2>1. /\ chosen \subseteq definitions /\ excluded \subseteq definitions
        /\ UNCHANGED <<tables, propertyTags, syndications>>
        /\ unitTags' = unitTags \/ unitTags' = (unitTags \ TagsOf(u)) \cup fresh
    BY <1>5 DEF SaveUnitTags
  <2>2. \A t \in fresh : /\ t \in TagRecords /\ t.unit = u
                         /\ t.excluded = TRUE \/ t.excluded = FALSE
                         /\ t.excluded = TRUE <=> t.id \in excluded
                         /\ t.id \in chosen \cup excluded
    <3>1. \A t \in fresh : OwnRow(t, u, chosen, excluded)
      BY RowsOfUnit
    <3> HIDE DEF fresh
    <3> QED BY <3>1 DEF OwnRow
  <2>3. /\ \A t \in fresh : t \in TagRecords /\ t.unit = u /\ t.id \in amenities \cup definitions
        /\ \A t, q \in fresh : t.id = q.id => t = q
    <3> HIDE DEF fresh
    <3>1. \A t, q \in fresh : t.id = q.id => t.excluded = q.excluded
      BY <2>2
    <3> QED BY <2>1, <2>2, <3>1, SameTag
  <2>4. CASE unitTags' = unitTags
    BY <2>1, <2>4 DEF AmenitiesInv, tables, TagsAreShown, OneRecord
  <2> HIDE DEF fresh
  <2> QED BY <2>1, <2>3, <2>4, UnitRowsReplaced
<1>6. ASSUME NEW owner \in Advertised, NEW id \in Records, UpsertMarketingSyndication(owner, id)
      PROVE  AmenitiesInv'
  BY <1>6 DEF UpsertMarketingSyndication, SyndicationsOf, AmenitiesInv, tables, tags,
     TagsAreShown, OneRecord
<1>7. ASSUME UNCHANGED amVars PROVE AmenitiesInv'
  BY <1>7 DEF AmenitiesInv, amVars, tables, tags, TagsAreShown, OneRecord
<1> QED BY <1>1, <1>2, <1>3, <1>4, <1>5, <1>6, <1>7 DEF AMNext, UseCatalog, UseEditor, Advertise

LEMMA AmenitiesInitial == AMInit => AmenitiesInv
  BY DEF AMInit, AmenitiesInv, TagsAreShown, OneRecord

\* No tag outlives the amenity it names, a unit has one row for an amenity, one
\* marketing record answers for a property or a unit, and saving a unit does not
\* make what it inherits its own (properties/backend/repository.ts, amenities.ts),
\* for any number of properties, units and amenities.
THEOREM TagsKept == AMSpec => TagsAgree
<1>1. AmenitiesInv => TagsAreShown /\ OneRowPerTag /\ OneRecord
  <2> SUFFICES ASSUME AmenitiesInv PROVE OneRowPerTag
    BY DEF AmenitiesInv
  <2> SUFFICES ASSUME NEW u \in UnitIds, NEW a, a \in AddedTags(u), a \in ExcludedTags(u)
               PROVE  FALSE
    BY DEF OneRowPerTag
  <2>1. PICK t \in unitTags : t.unit = u /\ t.id = a /\ ~ t.excluded
    BY DEF AddedTags, TagsOf
  <2>2. PICK q \in unitTags : q.unit = u /\ q.id = a /\ q.excluded
    BY DEF ExcludedTags, TagsOf
  <2> QED BY <2>1, <2>2 DEF AmenitiesInv
<1>2. AmenitiesInv /\ [AMNext]_amVars => [SavingKeepsInheritance]_amVars
  <2> SUFFICES ASSUME NEW u \in UnitIds, NEW chosen \in SUBSET AmenityIds,
                      NEW excluded \in SUBSET AmenityIds,
                      SaveUnitTags(u, chosen, excluded), unitTags' # unitTags,
                      NEW a, a \in AddedTags(u)', a \in Inherited(u)
               PROVE  FALSE
    BY DEF SavingKeepsInheritance
  <2>1. unitTags' = (unitTags \ TagsOf(u)) \cup TagRows(u, chosen, excluded)
    BY DEF SaveUnitTags
  <2>2. PICK t \in unitTags' : t.unit = u /\ t.id = a /\ ~ t.excluded
    BY DEF AddedTags, TagsOf
  <2>3. t \in TagRows(u, chosen, excluded)
    BY <2>1, <2>2 DEF TagsOf
  <2>4. OwnRow(t, u, chosen, excluded)
    BY <2>3, RowsOfUnit
  <2> QED BY <2>2, <2>4 DEF OwnRow
<1> QED BY <1>1, <1>2, AmenitiesInitial, AmenitiesStep, PTL DEF AMSpec, TagsAgree
=============================================================================
