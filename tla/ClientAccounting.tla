--------------------------- MODULE ClientAccounting ---------------------------
(***************************************************************************)
(* The money of the owners whose portfolios are managed: contributions,    *)
(* draws, the cash a portfolio has for them, and management fees           *)
(* (modules/accounting/backend/client_accounting.ts), over the journal     *)
(* entries that rent, expenses, vendor checks and reversals leave.         *)
(*                                                                         *)
(* `Uses` says which operations are in use, so that a run can ask what     *)
(* each of them adds.                                                      *)
(***************************************************************************)
EXTENDS Integers, Sequences, FiniteSets, FiniteSetsExt, SequencesExt

CONSTANTS
    Properties, Portfolios, None,
    InitialPortfolio,   \* [Properties -> Portfolios]
    UnitsOf,            \* [Properties -> Nat]: the units of a property
    Amounts,            \* amounts of single operations
    Uses,               \* operations in use: a subset of Operations
    Rate,               \* a percentage fee is Rate tenths of the rent
    FlatFee,            \* what flat agreements say
    MaxEntries, MaxDay, \* bounds on the entries and the days
    MaxAgreements,      \* bound on the agreements
    DaysPerMonth

Operations == {"pay", "check", "reverse", "move", "backdate", "contribute", "draw", "fees",
               "whole"}         \* contributions and draws of a whole portfolio

ClientAccountingAssumption ==
    /\ None \notin Properties
    /\ InitialPortfolio \in [Properties -> Portfolios] /\ UnitsOf \in [Properties -> Nat]
    /\ Amounts \subseteq Nat \ {0} /\ Uses \subseteq Operations
    /\ Rate \in 0 .. 10 /\ FlatFee \in Nat
    /\ MaxEntries \in Nat /\ MaxDay \in Nat /\ MaxAgreements \in Nat /\ DaysPerMonth \in Nat \ {0}

VARIABLES
    today,
    portfolioOf,    \* the portfolio of a property
    entries,        \* journal entries: what they change in the operating bank
    contributions,  \* rows of client_capital_contributions: [portfolio, amount, date]
    distributions,  \* rows of client_distributions: the same
    agreements      \* rows of management_fee_agreements

caVars == <<today, portfolioOf, entries, contributions, distributions, agreements>>

Indices == DOMAIN entries

\* SUM over the rows of a table.
Total(f) ==
    LET running[i \in 0 .. Len(f)] == IF i = 0 THEN 0 ELSE running[i - 1] + f[i]
    IN  running[Len(f)]
Max0(n) == IF n > 0 THEN n ELSE 0

\* `property` is what the bank line says; `for` is what the money was for: a
\* property, or None and the portfolio.
Post(e) == Len(entries) < MaxEntries /\ entries' = Append(entries, e)
Entry(source, property, for, portfolio, in, out, date) ==
    [source |-> source, property |-> property, for |-> for, portfolio |-> portfolio,
     in |-> in, out |-> out, date |-> date, of |-> 0, agreement |-> 0, month |-> 0, fee |-> 0]
Dates(use) == IF use \in Uses THEN 1 .. today ELSE {today}

(***************************************************************************)
(* Rent, expenses, vendor checks and reversals.                            *)
(***************************************************************************)
ReceiveRent(p, amount) ==
    /\ Post(Entry("payment", p, p, portfolioOf[p], amount, 0, today))
    /\ UNCHANGED <<today, portfolioOf, contributions, distributions, agreements>>

PayExpense(p, amount) ==
    /\ "pay" \in Uses
    /\ Post(Entry("expense", p, p, portfolioOf[p], 0, amount, today))
    /\ UNCHANGED <<today, portfolioOf, contributions, distributions, agreements>>

\* A check pays bills of a property; its lines name none.
CreateVendorCheck(p, amount) ==
    /\ "check" \in Uses
    /\ Post(Entry("vendor_check", None, p, portfolioOf[p], 0, amount, today))
    /\ UNCHANGED <<today, portfolioOf, contributions, distributions, agreements>>

Reversed(i) == \E j \in Indices : entries[j].of = i
ReverseEntry(i) ==
    /\ "reverse" \in Uses
    /\ ~Reversed(i)
    /\ Post([entries[i] EXCEPT !.source = "reversal", !.in = entries[i].out,
                               !.out = entries[i].in, !.date = today, !.of = i])
    /\ UNCHANGED <<today, portfolioOf, contributions, distributions, agreements>>

MoveProperty(p, f) ==
    /\ "move" \in Uses
    /\ portfolioOf' = [portfolioOf EXCEPT ![p] = f]
    /\ UNCHANGED <<today, entries, contributions, distributions, agreements>>

(***************************************************************************)
(* What a portfolio has for its owners.                                    *)
(***************************************************************************)
OnLine(i, f, asOf) ==
    /\ entries[i].property # None /\ portfolioOf[entries[i].property] = f
    /\ entries[i].date <= asOf
RowsOf(rows, f, asOf) ==
    Total([i \in DOMAIN rows |->
             IF rows[i].portfolio = f /\ rows[i].date <= asOf THEN rows[i].amount ELSE 0])

Receipts(f, asOf) ==
    Total([i \in Indices |->
             IF OnLine(i, f, asOf) /\ entries[i].source # "client_contribution"
             THEN entries[i].in ELSE 0])
Disbursements(f, asOf) ==
    Total([i \in Indices |->
             IF OnLine(i, f, asOf) /\ entries[i].source # "client_draw"
             THEN entries[i].out ELSE 0])

AvailableForDistribution(f, asOf) ==
    Max0(Receipts(f, asOf) - Disbursements(f, asOf)
         + RowsOf(contributions, f, asOf) - RowsOf(distributions, f, asOf))

(***************************************************************************)
(* Contributions and distributions.  A property, where one is given, is    *)
(* one of the portfolio.                                                   *)
(***************************************************************************)
CreateCapitalContribution(f, property, amount, date) ==
    /\ "contribute" \in Uses
    /\ IF property = None THEN "whole" \in Uses ELSE portfolioOf[property] = f
    /\ Post(Entry("client_contribution", property, property, f, amount, 0, date))
    /\ contributions' = Append(contributions, [portfolio |-> f, amount |-> amount, date |-> date])
    /\ UNCHANGED <<today, portfolioOf, distributions, agreements>>

\* Wrong: the cash of all portfolios is there for each of them.
CreateDistributionFromAll(f, property, amount, date) ==
    /\ "draw" \in Uses
    /\ IF property = None THEN "whole" \in Uses ELSE portfolioOf[property] = f
    /\ amount <= MapThenSumSet(LAMBDA g : AvailableForDistribution(g, date), Portfolios)
    /\ Post(Entry("client_draw", property, property, f, 0, amount, date))
    /\ distributions' = Append(distributions, [portfolio |-> f, amount |-> amount, date |-> date])
    /\ UNCHANGED <<today, portfolioOf, contributions, agreements>>

CreateDistribution(f, property, amount, date) ==
    /\ "draw" \in Uses
    /\ IF property = None THEN "whole" \in Uses ELSE portfolioOf[property] = f
    /\ amount <= AvailableForDistribution(f, date)
    /\ Post(Entry("client_draw", property, property, f, 0, amount, date))
    /\ distributions' = Append(distributions, [portfolio |-> f, amount |-> amount, date |-> date])
    /\ UNCHANGED <<today, portfolioOf, contributions, agreements>>

(***************************************************************************)
(* Management fees.                                                        *)
(***************************************************************************)
\* One of a property keeps the portfolio the property has when it is made.
CreateManagementFeeAgreement(f, property, method) ==
    /\ "fees" \in Uses
    /\ Len(agreements) < MaxAgreements
    /\ property # None => portfolioOf[property] = f
    /\ agreements' = Append(agreements, [portfolio |-> f, property |-> property,
                                         method |-> method, live |-> TRUE])
    /\ UNCHANGED <<today, portfolioOf, entries, contributions, distributions>>

DeleteManagementFeeAgreement(a) ==
    /\ agreements[a].live
    /\ agreements' = [agreements EXCEPT ![a].live = FALSE]
    /\ UNCHANGED <<today, portfolioOf, entries, contributions, distributions>>

MonthOf(day) == (day - 1) \div DaysPerMonth
Covered(a) ==
    IF agreements[a].property # None THEN {agreements[a].property}
    ELSE {p \in Properties : portfolioOf[p] = agreements[a].portfolio}

CollectedRevenue(a, month) ==
    Max0(Total([i \in Indices |->
                  IF /\ entries[i].property \in Covered(a)
                     /\ entries[i].source = "payment"
                     /\ MonthOf(entries[i].date) = month
                  THEN entries[i].in - entries[i].out ELSE 0]))

\* Math.round: halves are rounded up.
Share(revenue) == (2 * revenue * Rate + 10) \div 20

CalculateManagementFee(a, month) ==
    CASE agreements[a].method = "percentage_collected_revenue" ->
            Share(CollectedRevenue(a, month))
      [] agreements[a].method = "flat_fee_per_unit" ->
            FlatFee * MapThenSumSet(LAMBDA p : UnitsOf[p], Covered(a))
      [] OTHER -> FlatFee

\* The entry debits 5070 and credits 2010: the bank is not touched.
PostManagementFee(a, month) ==
    /\ agreements[a].live
    /\ CalculateManagementFee(a, month) > 0
    /\ ~ \E i \in Indices : /\ entries[i].source = "management_fee"
                            /\ entries[i].agreement = a /\ entries[i].month = month
    /\ Post([Entry("management_fee", agreements[a].property, agreements[a].property,
                   agreements[a].portfolio, 0, 0, today)
             EXCEPT !.agreement = a, !.month = month, !.fee = CalculateManagementFee(a, month)])
    /\ UNCHANGED <<today, portfolioOf, contributions, distributions, agreements>>

NextDay ==
    /\ today < MaxDay
    /\ today' = today + 1
    /\ UNCHANGED <<portfolioOf, entries, contributions, distributions, agreements>>

(***************************************************************************)
(* The specification.                                                      *)
(***************************************************************************)
CAInit ==
    /\ today = 1 /\ portfolioOf = InitialPortfolio
    /\ entries = <<>> /\ contributions = <<>> /\ distributions = <<>> /\ agreements = <<>>

Methods == {"percentage_collected_revenue", "flat_fee_per_unit", "flat_monthly_fee"}
CANext ==
    \/ \E p \in Properties, amount \in Amounts :
          ReceiveRent(p, amount) \/ PayExpense(p, amount) \/ CreateVendorCheck(p, amount)
    \/ \E i \in Indices : ReverseEntry(i)
    \/ \E p \in Properties, f \in Portfolios : MoveProperty(p, f)
    \/ \E f \in Portfolios, p \in Properties \cup {None}, amount \in Amounts :
          \/ \E date \in 1 .. today : CreateCapitalContribution(f, p, amount, date)
          \/ \E date \in Dates("backdate") : CreateDistribution(f, p, amount, date)
    \/ \E f \in Portfolios, p \in Properties \cup {None}, method \in Methods :
          CreateManagementFeeAgreement(f, p, method)
    \/ \E a \in DOMAIN agreements :
          \/ DeleteManagementFeeAgreement(a)
          \/ \E month \in 0 .. MonthOf(today) : PostManagementFee(a, month)
    \/ NextDay
CASpec == CAInit /\ [][CANext]_caVars

(***************************************************************************)
(* Properties.                                                             *)
(***************************************************************************)
\* What the operating bank holds of a portfolio, whatever the lines say.
Belongs(i, f) == IF entries[i].for # None THEN portfolioOf[entries[i].for] = f
                 ELSE entries[i].portfolio = f
CashOf(f, asOf) ==
    Total([i \in Indices |->
             IF Belongs(i, f) /\ entries[i].date <= asOf
             THEN entries[i].in - entries[i].out ELSE 0])

\* getPortfolioCashSummary adds rows of two tables and lines of the journal;
\* together they are the cash of the portfolio on every day, after reversals
\* too, where every line names its property.
AvailableIsCash ==
    \A f \in Portfolios, d \in 1 .. today :
        (\A i \in Indices : entries[i].property # None) =>
            AvailableForDistribution(f, d) = Max0(CashOf(f, d))

\* Test client_accounting.test.ts: "enforces cash sufficiency on distributions".
\* A draw leaves its portfolio with no less than nothing.
DrawsAreCovered ==
    [][\A f \in Portfolios :
          Len(distributions') > Len(distributions) /\ Last(distributions').portfolio = f
              => CashOf(f, today)' >= 0]_caVars

\* docs/modules/accounting.md: "calculate operator earned revenue based on
\* collected rent percentages".  A fee that is posted when its month is over
\* is the share of the rent that was collected in it and not taken back.
RentKept(a, month) ==
    Total([i \in Indices |->
             IF /\ entries[i].property \in Covered(a) /\ entries[i].source = "payment"
                /\ entries[i].date \in month * DaysPerMonth + 1 .. (month + 1) * DaysPerMonth
                /\ ~Reversed(i)
             THEN entries[i].in ELSE 0])
FeesFollowRent ==
    [][\A i \in DOMAIN entries' \ Indices :
        LET e == entries'[i] IN
        e.source = "management_fee" /\ MonthOf(today) > e.month
            /\ agreements[e.agreement].method = "percentage_collected_revenue" =>
                e.fee = Share(RentKept(e.agreement, e.month))]_caVars

\* The same place: "posting monthly entries".  The rent of a property is charged
\* once a month.
ChargedOnce ==
    \A i, j \in Indices :
        /\ i # j
        /\ \A k \in {i, j} : /\ entries[k].source = "management_fee" /\ ~Reversed(k)
                             /\ agreements[entries[k].agreement].method
                                    = "percentage_collected_revenue"
        /\ entries[i].month = entries[j].month
        => Covered(entries[i].agreement) \cap Covered(entries[j].agreement) = {}
=============================================================================
