--------------------------- MODULE RecurringBills ----------------------------
(***************************************************************************)
(* Bills that recur: createRecurringBill and generateDueRecurringBills of  *)
(* modules/accounting/backend/ap.ts.  A pass reads the templates that are  *)
(* due and commits a transaction for each: the bill of AccountsPayable and *)
(* the next run date.  No request is served during a pass, but the process *)
(* may die between two templates.                                          *)
(***************************************************************************)
EXTENDS AccountsPayable, Calendar

CONSTANTS
    TemplateInputs,     \* the templates that users register
    MaxTemplates,       \* bound on their number
    RunDates            \* the dates as of which a pass is run

VARIABLES
    templates,          \* recurring_bills; a template is never deleted or changed
    pass,               \* the templates a pass in progress has still to look at
    generated           \* history: [template, due, bill] of every generated bill

RBVars == <<apVars, templates, pass, generated>>
NoLimit == 0

Units == {"week", "month", "quarter", "year"}
TemplateRows ==
    [bill : BillInputs, due : Dates, end : Dates, unit : Units, count : Nat \ {0},
     limited : BOOLEAN, remaining : Nat]

RecurringBillsAssumption ==
    /\ TemplateInputs \subseteq
         [bill : BillInputs, due : Dates, end : Dates, unit : Units, count : Nat \ {0},
          remaining : Nat]
    /\ RunDates \subseteq Dates

NextIntervalDate(date, unit, count) ==
    IF unit = "week" THEN AddDays(date, 7 * count)
    ELSE AddMonths(date, MonthsOf[unit] * count)

\* remaining_occurrences is NULL (NoLimit), or counts down to a template that
\* is over.
CreateRecurringBill(input) ==
    /\ Len(templates) < MaxTemplates
    /\ RefsLive(input.bill.lines)
    /\ templates' = Append(templates,
                           [bill |-> input.bill, due |-> input.due, end |-> input.end,
                            unit |-> input.unit, count |-> input.count,
                            limited |-> input.remaining # NoLimit,
                            remaining |-> input.remaining])
    /\ UNCHANGED <<apVars, pass, generated>>

IsDue(t, asOf) ==
    /\ NotAfter(templates[t].due, asOf)
    /\ NotAfter(templates[t].due, templates[t].end)
    /\ templates[t].limited => templates[t].remaining > 0

StartPass(asOf) ==
    /\ pass' = {t \in DOMAIN templates : IsDue(t, asOf)}
    /\ Len(bills) + Cardinality(pass') <= MaxBills
    /\ UNCHANGED <<apVars, templates, generated>>

Advanced(template) ==
    [template EXCEPT !.due = NextIntervalDate(@, template.unit, template.count),
                     !.remaining = IF template.limited THEN @ - 1 ELSE @]

\* createBill throws: what the lines name was deleted.
CanBill(t) == RefsLive(templates[t].bill.lines)

Recorded(t) ==
    generated' = Append(generated, [template |-> t, due |-> templates[t].due,
                                    bill |-> Len(bills) + 1])

BillTemplate(t) ==
    /\ CreateBill(templates[t].bill)
    /\ Recorded(t)
    /\ templates' = [templates EXCEPT ![t] = Advanced(@)]
    /\ pass' = pass \ {t}

\* Wrong: a template that fails is put forward to its next date.
SkipTemplate(t) ==
    /\ ~CanBill(t)
    /\ templates' = [templates EXCEPT ![t] = Advanced(@)]
    /\ pass' = pass \ {t}
    /\ UNCHANGED <<apVars, generated>>

\* The failure is reported and the template stays due.
FailTemplate(t) ==
    /\ ~CanBill(t)
    /\ pass' = pass \ {t}
    /\ UNCHANGED <<apVars, templates, generated>>

PassStep == \E t \in pass : BillTemplate(t) \/ FailTemplate(t)

Crash ==
    /\ pass # {}
    /\ pass' = {}
    /\ UNCHANGED <<apVars, templates, generated>>

(***************************************************************************)
(* The specification.                                                      *)
(***************************************************************************)
RBInit == APInit /\ templates = <<>> /\ pass = {} /\ generated = <<>>

\* What happens to the bills afterwards, and to what they name.
UseBills ==
    /\ \/ \E b \in DOMAIN bills : ApproveBill(b) \/ VoidBill(b)
       \/ \E r \in Refs : DeleteRef(r)
    /\ UNCHANGED <<templates, pass, generated>>

RBNext ==
    \/ /\ pass = {}
       /\ \/ \E input \in TemplateInputs : CreateRecurringBill(input)
          \/ \E asOf \in RunDates : StartPass(asOf)
          \/ UseBills
    \/ PassStep
    \/ Crash
RBSpec == RBInit /\ [][RBNext]_RBVars
FairRBSpec == RBSpec /\ WF_RBVars(PassStep)

(***************************************************************************)
(* Properties.                                                             *)
(***************************************************************************)
GeneratedBy(t) == {g \in DOMAIN generated : generated[g].template = t}

\* Templates keep real dates and never count below zero.
RBTypeOK ==
    /\ \A t \in DOMAIN templates :
          templates[t].due \in Dates /\ templates[t].remaining \in Nat
    /\ pass \subseteq DOMAIN templates

\* A template bills each of its dates once, whatever passes die and are run
\* again, and every generated bill is one of the table.
BilledOncePerDate ==
    /\ \A g, h \in DOMAIN generated :
          generated[g].template = generated[h].template /\ generated[g].due = generated[h].due
            => g = h
    /\ \A g \in DOMAIN generated :
          LET bill == bills[generated[g].bill]
          IN  bill.lines = templates[generated[g].template].bill.lines

\* A template bills no more often than it was registered for and no date
\* after its end: passes as of a later date do not run over.
WithinItsTerm ==
    \A t \in DOMAIN templates :
        /\ templates[t].limited =>
              \E input \in TemplateInputs :
                  /\ input.bill = templates[t].bill
                  /\ Cardinality(GeneratedBy(t)) <= input.remaining
        /\ \A g \in GeneratedBy(t) : NotAfter(generated[g].due, templates[t].end)

\* No date is left out: between the first date of a template and its next
\* one every period of its cadence has its bill, after failures too.
NoPeriodSkipped ==
    [][\A t \in DOMAIN templates :
          templates'[t].due # templates[t].due =>
            /\ \E g \in GeneratedBy(t)' :
                  g \notin DOMAIN generated /\ generated'[g].due = templates[t].due
            /\ templates[t].unit # "week" =>
                  templates'[t].due.month =
                    templates[t].due.month + MonthsOf[templates[t].unit] * templates[t].count]_RBVars

\* All of it: a date has one bill, though passes die half way and are run
\* again, a template keeps to its term, and no date is left out.
TemplatesKeepTerm ==
    [](RBTypeOK /\ BilledOncePerDate /\ WithinItsTerm) /\ NoPeriodSkipped

\* A pass ends.
PassEnds == pass # {} ~> pass = {}
=============================================================================
