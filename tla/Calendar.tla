------------------------------ MODULE Calendar ------------------------------
(***************************************************************************)
(* Dates that recur: computeNextIntervalDate of ap.ts and                  *)
(* computeNextDueDate of maintenance.  A date is a month, counted from the *)
(* January of some year, and a day of it; every year has 365 days.         *)
(***************************************************************************)
EXTENDS Integers, FiniteSetsExt, TLAPS

MonthLengths == <<31, 28, 31, 30, 31, 30, 31, 31, 30, 31, 30, 31>>
DaysIn(month) == MonthLengths[(month % 12) + 1]

Dates == {date \in [month : Nat, day : 1 .. 31] : date.day <= DaysIn(date.month)}
Date(month, day) == [month |-> month, day |-> day]

\* The days of a year before each of its months, a date as a number of days,
\* and the date of such a number.
BeforeMonth == <<0, 31, 59, 90, 120, 151, 181, 212, 243, 273, 304, 334>>
DaysBefore(month) == 365 * (month \div 12) + BeforeMonth[(month % 12) + 1]
DayNumber(date) == DaysBefore(date.month) + date.day
MonthOfDay(rest) ==
    CHOOSE m \in 0 .. 11 : BeforeMonth[m + 1] <= rest /\ rest < BeforeMonth[m + 1] + MonthLengths[m + 1]
DateOf(number) ==
    LET rest == (number - 1) % 365
        m == MonthOfDay(rest)
    IN  Date(12 * ((number - 1) \div 365) + m, rest + 1 - BeforeMonth[m + 1])
NotAfter(a, b) == DayNumber(a) <= DayNumber(b)

\* The day is clamped to the length of the month.
AddMonths(date, n) ==
    Date(date.month + n, Min({date.day, DaysIn(date.month + n)}))

\* Milliseconds are added: over any number of months.
AddDays(date, n) == DateOf(DayNumber(date) + n)

\* The target month of a seasonal task, this year or the next.
NextSeason(date, target) ==
    LET month == date.month - (date.month % 12) + target
        later == IF target <= date.month % 12 THEN month + 12 ELSE month
    IN  Date(later, Min({date.day, DaysIn(later)}))

\* Intervals in months; weeks are not among them.
MonthsOf == [monthly |-> 1, quarterly |-> 3, semi_annually |-> 6, annually |-> 12,
             month |-> 1, quarter |-> 3, year |-> 12]

(***************************************************************************)
(* What the proofs of schedules and recurring bills need of dates.         *)
(***************************************************************************)
\* A month is one of the twelve of a year.
LEMMA MonthOfYear ==
    ASSUME NEW m \in Nat
    PROVE  /\ m % 12 \in 0 .. 11 /\ m \div 12 \in Nat
           /\ m = 12 * (m \div 12) + (m % 12)
<1>1. m % 12 \in 0 .. 11  OBVIOUS
<1>2. m \div 12 \in Nat  OBVIOUS
<1>3. m = 12 * (m \div 12) + (m % 12)  OBVIOUS
<1> QED  BY <1>1, <1>2, <1>3

\* The two tables agree: a month begins where the one before it ends.
LEMMA MonthTables ==
    ASSUME NEW i \in 0 .. 11
    PROVE  /\ MonthLengths[i + 1] \in 28 .. 31
           /\ BeforeMonth[i + 1] \in 0 .. 334
           /\ BeforeMonth[i + 1] + MonthLengths[i + 1] =
                IF i = 11 THEN 365 ELSE BeforeMonth[i + 2]
<1>1. i \in {0, 1, 2, 3, 4, 5, 6, 7, 8, 9, 10, 11}  OBVIOUS
<1>2. CASE i \in {0, 1, 2, 3}  BY <1>2 DEF MonthLengths, BeforeMonth
<1>3. CASE i \in {4, 5, 6, 7}  BY <1>3 DEF MonthLengths, BeforeMonth
<1>4. CASE i \in {8, 9, 10, 11}  BY <1>4 DEF MonthLengths, BeforeMonth
<1> QED  BY <1>1, <1>2, <1>3, <1>4

\* Months of a year begin in order.
LEMMA MonthsInOrder ==
    ASSUME NEW i \in 0 .. 11, NEW j \in 0 .. 11, i < j
    PROVE  BeforeMonth[i + 1] + MonthLengths[i + 1] <= BeforeMonth[j + 1]
<1>1. j \in {1, 2, 3, 4, 5, 6, 7, 8, 9, 10, 11}  OBVIOUS
<1>2. \A k \in 0 .. 10 : BeforeMonth[k + 1] + MonthLengths[k + 1] <= BeforeMonth[k + 2]
  <2> SUFFICES ASSUME NEW k \in 0 .. 10
               PROVE  BeforeMonth[k + 1] + MonthLengths[k + 1] <= BeforeMonth[k + 2]
    OBVIOUS
  <2>1. k \in 0 .. 11 /\ k # 11  OBVIOUS
  <2> HIDE DEF BeforeMonth, MonthLengths
  <2>2. BeforeMonth[k + 1] + MonthLengths[k + 1] = BeforeMonth[k + 2]  BY <2>1, MonthTables
  <2>3. BeforeMonth[k + 1] \in 0 .. 334 /\ MonthLengths[k + 1] \in 28 .. 31  BY <2>1, MonthTables
  <2> QED  BY <2>2, <2>3
<1>3. \A k \in 0 .. 11 : /\ BeforeMonth[k + 1] \in 0 .. 334
                         /\ MonthLengths[k + 1] \in 28 .. 31
  BY MonthTables
<1> QED  BY <1>1, <1>2, <1>3, SMTT(60) DEF BeforeMonth

\* Every month has a day.
LEMMA DaysInBounds ==
    ASSUME NEW month \in Nat
    PROVE  DaysIn(month) \in 28 .. 31 /\ DaysBefore(month) \in Nat
<1>1. month % 12 \in 0 .. 11 /\ month \div 12 \in Nat  OBVIOUS
<1>2. MonthLengths[(month % 12) + 1] \in 28 .. 31 /\ BeforeMonth[(month % 12) + 1] \in 0 .. 334
  BY <1>1, MonthTables
<1> QED  BY <1>1, <1>2 DEF DaysIn, DaysBefore

\* A month ends before a later one begins.
LEMMA LaterMonth ==
    ASSUME NEW a \in Nat, NEW b \in Nat, a < b
    PROVE  DaysBefore(a) + DaysIn(a) <= DaysBefore(b)
<1> DEFINE i == a % 12
           j == b % 12
           y == a \div 12
           z == b \div 12
<1>1. i \in 0 .. 11 /\ j \in 0 .. 11 /\ y \in Nat /\ z \in Nat
  OBVIOUS
<1>2. a = 12 * y + i /\ b = 12 * z + j  OBVIOUS
<1>3. y < z \/ (y = z /\ i < j)
  <2> HIDE DEF i, j, y, z
  <2> QED  BY <1>1, <1>2
<1>4. /\ BeforeMonth[i + 1] \in 0 .. 334 /\ BeforeMonth[j + 1] \in 0 .. 334
      /\ MonthLengths[i + 1] \in 28 .. 31
      /\ BeforeMonth[i + 1] + MonthLengths[i + 1] = IF i = 11 THEN 365 ELSE BeforeMonth[i + 2]
  <2> HIDE DEF i, j, y, z
  <2> QED  BY <1>1, MonthTables
<1>5. BeforeMonth[i + 1] + MonthLengths[i + 1] <= 365
  <2> HIDE DEF i, j, y, z
  <2>1. CASE i = 11  BY <1>4, <2>1
  <2>2. CASE i # 11
    <3>1. i + 1 \in 0 .. 11  BY <1>1, <2>2
    <3>2. BeforeMonth[(i + 1) + 1] \in 0 .. 334  BY <3>1, MonthTables
    <3>3. (i + 1) + 1 = i + 2  BY <1>1
    <3> QED  BY <1>4, <2>2, <3>2, <3>3
  <2> QED  BY <2>1, <2>2
<1>6. CASE y < z
  <2> HIDE DEF i, j, y, z
  <2>1. DaysBefore(a) = 365 * y + BeforeMonth[i + 1]  BY DEF DaysBefore, i, y
  <2>2. DaysBefore(b) = 365 * z + BeforeMonth[j + 1]  BY DEF DaysBefore, j, z
  <2>3. DaysIn(a) = MonthLengths[i + 1]  BY DEF DaysIn, i
  <2>4. 365 * y + 365 <= 365 * z  BY <1>1, <1>6
  <2> DEFINE bi == BeforeMonth[i + 1]
             bj == BeforeMonth[j + 1]
             li == MonthLengths[i + 1]
  <2>5. bi \in 0 .. 334 /\ bj \in 0 .. 334 /\ li \in 28 .. 31 /\ bi + li <= 365  BY <1>4, <1>5
  <2>6. DaysBefore(a) = 365 * y + bi /\ DaysBefore(b) = 365 * z + bj /\ DaysIn(a) = li
    BY <2>1, <2>2, <2>3
  <2> HIDE DEF bi, bj, li
  <2> QED  BY <1>1, <2>4, <2>5, <2>6
<1>7. CASE y = z /\ i < j
  <2> HIDE DEF i, j, y, z
  <2>1. BeforeMonth[i + 1] + MonthLengths[i + 1] <= BeforeMonth[j + 1]
    BY <1>1, <1>7, MonthsInOrder
  <2>2. DaysBefore(a) = 365 * y + BeforeMonth[i + 1]  BY DEF DaysBefore, i, y
  <2>3. DaysBefore(b) = 365 * y + BeforeMonth[j + 1]  BY <1>7 DEF DaysBefore, j, z
  <2>4. DaysIn(a) = MonthLengths[i + 1]  BY DEF DaysIn, i
  <2> DEFINE bi == BeforeMonth[i + 1]
             bj == BeforeMonth[j + 1]
             li == MonthLengths[i + 1]
  <2>5. bi \in 0 .. 334 /\ bj \in 0 .. 334 /\ li \in 28 .. 31 /\ bi + li <= bj  BY <1>4, <2>1
  <2>6. DaysBefore(a) = 365 * y + bi /\ DaysBefore(b) = 365 * y + bj /\ DaysIn(a) = li
    BY <2>2, <2>3, <2>4
  <2> HIDE DEF bi, bj, li
  <2> QED  BY <1>1, <2>5, <2>6
<1> QED  BY <1>3, <1>6, <1>7

\* Dates are ordered by their months first.
LEMMA LaterDate ==
    ASSUME NEW a \in Dates, NEW b \in Dates, a.month < b.month
    PROVE  DayNumber(a) < DayNumber(b)
<1>1. /\ a.month \in Nat /\ a.day \in 1 .. 31 /\ a.day <= DaysIn(a.month)
      /\ b.month \in Nat /\ b.day \in 1 .. 31
  BY DEF Dates
<1>2. DaysBefore(a.month) + DaysIn(a.month) <= DaysBefore(b.month)  BY <1>1, LaterMonth
<1>3. /\ DaysBefore(a.month) \in Nat /\ DaysIn(a.month) \in 28 .. 31
      /\ DaysBefore(b.month) \in Nat
  BY <1>1, DaysInBounds
<1> QED  BY <1>1, <1>2, <1>3 DEF DayNumber

\* A date has a number, counted from one.
LEMMA DayNumberType ==
    ASSUME NEW date \in Dates
    PROVE  DayNumber(date) \in Nat \ {0}
<1>1. date.month \in Nat /\ date.day \in 1 .. 31  BY DEF Dates
<1>2. DaysBefore(date.month) \in Nat  BY <1>1, DaysInBounds
<1> QED  BY <1>1, <1>2 DEF DayNumber

\* Every number is that of a date.
LEMMA DateOfNumber ==
    ASSUME NEW n \in Nat \ {0}
    PROVE  DateOf(n) \in Dates /\ DayNumber(DateOf(n)) = n
<1> DEFINE rest == (n - 1) % 365
           year == (n - 1) \div 365
           m == MonthOfDay(rest)
<1>1. rest \in 0 .. 364 /\ year \in Nat /\ n - 1 = 365 * year + rest  OBVIOUS
<1> HIDE DEF rest, year
<1>2. \E k \in 0 .. 11 : BeforeMonth[k + 1] <= rest /\ rest < BeforeMonth[k + 1] + MonthLengths[k + 1]
  <2>1. CASE rest < 120
    <3>1. rest < 31 \/ (31 <= rest /\ rest < 59) \/ (59 <= rest /\ rest < 90) \/ 90 <= rest
      BY <1>1
    <3> QED  BY <1>1, <2>1, <3>1 DEF BeforeMonth, MonthLengths
  <2>2. CASE 120 <= rest /\ rest < 243
    <3>1. rest < 151 \/ (151 <= rest /\ rest < 181) \/ (181 <= rest /\ rest < 212) \/ 212 <= rest
      BY <1>1
    <3> QED  BY <1>1, <2>2, <3>1 DEF BeforeMonth, MonthLengths
  <2>3. CASE 243 <= rest
    <3>1. rest < 273 \/ (273 <= rest /\ rest < 304) \/ (304 <= rest /\ rest < 334) \/ 334 <= rest
      BY <1>1
    <3> QED  BY <1>1, <2>3, <3>1 DEF BeforeMonth, MonthLengths
  <2> QED  BY <1>1, <2>1, <2>2, <2>3
<1>3. /\ m \in 0 .. 11
      /\ BeforeMonth[m + 1] <= rest /\ rest < BeforeMonth[m + 1] + MonthLengths[m + 1]
  BY <1>2 DEF MonthOfDay
<1> HIDE DEF m
<1>4. BeforeMonth[m + 1] \in 0 .. 334 /\ MonthLengths[m + 1] \in 28 .. 31  BY <1>3, MonthTables
<1> DEFINE month == 12 * year + m
           day == rest + 1 - BeforeMonth[m + 1]
<1>5. DateOf(n) = [month |-> month, day |-> day]  BY DEF DateOf, Date, rest, year, m
<1>6. month \in Nat /\ month % 12 = m /\ month \div 12 = year  BY <1>1, <1>3
<1>7. day \in 1 .. 31 /\ day <= MonthLengths[m + 1]
  <2> DEFINE before == BeforeMonth[m + 1]
             length == MonthLengths[m + 1]
  <2>1. /\ before \in 0 .. 334 /\ length \in 28 .. 31
        /\ before <= rest /\ rest < before + length
    BY <1>3, <1>4
  <2>2. day = rest + 1 - before  OBVIOUS
  <2> HIDE DEF before, length, day
  <2>3. day \in 1 .. 31 /\ day <= length  BY <1>1, <2>1, <2>2
  <2> QED  BY <2>3 DEF length
<1>8. DaysIn(month) = MonthLengths[m + 1] /\ DaysBefore(month) = 365 * year + BeforeMonth[m + 1]
  BY <1>6 DEF DaysIn, DaysBefore
<1>9. DateOf(n) \in Dates
  <2> HIDE DEF month, day
  <2> QED  BY <1>5, <1>6, <1>7, <1>8 DEF Dates
<1>10. DayNumber(DateOf(n)) = 365 * year + BeforeMonth[m + 1] + day
  <2> HIDE DEF month, day
  <2> QED  BY <1>5, <1>8 DEF DayNumber
<1> QED  BY <1>1, <1>4, <1>9, <1>10

\* Adding days adds them.
LEMMA AddDaysAdds ==
    ASSUME NEW date \in Dates, NEW n \in Nat
    PROVE  AddDays(date, n) \in Dates /\ DayNumber(AddDays(date, n)) = DayNumber(date) + n
<1>1. DayNumber(date) + n \in Nat \ {0}  BY DayNumberType
<1> QED  BY <1>1, DateOfNumber DEF AddDays

\* A day clamped to a month is one of its days.
LEMMA ClampedDate ==
    ASSUME NEW day \in 1 .. 31, NEW month \in Nat
    PROVE  Date(month, Min({day, DaysIn(month)})) \in Dates
<1>1. DaysIn(month) \in 28 .. 31  BY DaysInBounds
<1>2. Min({day, DaysIn(month)}) \in {day, DaysIn(month)} /\ Min({day, DaysIn(month)}) <= DaysIn(month)
  <2>1. \E x \in {day, DaysIn(month)} : \A y \in {day, DaysIn(month)} : x <= y  BY <1>1
  <2> QED  BY <2>1 DEF Min
<1>3. Min({day, DaysIn(month)}) \in 1 .. 31  BY <1>1, <1>2
<1> QED  BY <1>2, <1>3 DEF Date, Dates

\* Months are added whole, and the day is one of the month's.
LEMMA AddMonthsAdds ==
    ASSUME NEW date \in Dates, NEW n \in Nat \ {0}
    PROVE  /\ AddMonths(date, n) \in Dates /\ AddMonths(date, n).month = date.month + n
           /\ DayNumber(date) < DayNumber(AddMonths(date, n))
<1>1. date.month \in Nat /\ date.day \in 1 .. 31  BY DEF Dates
<1>2. AddMonths(date, n) \in Dates  BY <1>1, ClampedDate DEF AddMonths
<1>3. AddMonths(date, n).month = date.month + n  BY DEF AddMonths, Date
<1> QED  BY <1>1, <1>2, <1>3, LaterDate

\* The next season is in its month, one to twelve months away.
LEMMA NextSeasonIs ==
    ASSUME NEW date \in Dates, NEW target \in 0 .. 11
    PROVE  /\ NextSeason(date, target) \in Dates
           /\ NextSeason(date, target).month % 12 = target
           /\ NextSeason(date, target).month - date.month \in 1 .. 12
           /\ DayNumber(date) < DayNumber(NextSeason(date, target))
<1> DEFINE month == date.month - (date.month % 12) + target
           later == IF target <= date.month % 12 THEN month + 12 ELSE month
<1>1. date.month \in Nat /\ date.day \in 1 .. 31  BY DEF Dates
<1>2. PICK y \in Nat, i \in 0 .. 11 : date.month = 12 * y + i /\ date.month % 12 = i
  BY <1>1, MonthOfYear
<1>3. month = 12 * y + target  BY <1>2
<1>4. later \in Nat /\ later - date.month \in 1 .. 12 /\ later % 12 = target
  <2>1. CASE target <= i
    <3>1. later = 12 * (y + 1) + target  BY <1>2, <1>3, <2>1
    <3> HIDE DEF later, month
    <3> QED  BY <1>2, <2>1, <3>1
  <2>2. CASE ~(target <= i)
    <3>1. later = 12 * y + target  BY <1>2, <1>3, <2>2
    <3> HIDE DEF later, month
    <3> QED  BY <1>2, <2>2, <3>1
  <2> QED  BY <2>1, <2>2
<1>5. NextSeason(date, target) = Date(later, Min({date.day, DaysIn(later)}))  BY DEF NextSeason
<1> HIDE DEF later, month
<1>6. NextSeason(date, target) \in Dates  BY <1>1, <1>4, <1>5, ClampedDate
<1>7. NextSeason(date, target).month = later  BY <1>5 DEF Date
<1> QED  BY <1>1, <1>4, <1>6, <1>7, LaterDate
=============================================================================
