---------------------------- MODULE MCMaintenance ----------------------------
(***************************************************************************)
(* The event bus and the jobs that recur, on small instances.  All parts   *)
(* but the last publish on one bus, so that what EventBus promises is      *)
(* checked of its users.  A behaviour keeps to one part:                   *)
(*                                                                         *)
(*   bus          events alone, more failures than the list keeps          *)
(*   expenses     orders completed again and again, and their expenses     *)
(*   policy       estimates under a spend policy and the cash of the books *)
(*   assignments  a plumber and a painter assigned to an order             *)
(*   schedules    schedules due at the end of months, and passes           *)
(*   templates    passes over bills that recur by the month and by the week *)
(***************************************************************************)
EXTENDS PreventativeMaintenance, TLC

CONSTANTS
    Parts,              \* the parts that the run looks at
    bank, trust, deposits_held, receivable, payable, rent_income, repairs,
    house, cabin, plumber, painter, NoWorkOrder

VARIABLES
    part, bills, checks, credits, actualCost, templates, billPass, billed

\* The books.
MCMapped ==
    [accounts_receivable |-> receivable, operating_bank |-> bank, trust_bank |-> trust,
     security_deposit |-> deposits_held, rent |-> rent_income, repairs |-> repairs]

(***************************************************************************)
(* Events: of the bus alone, and of work orders that cost something or not; *)
(* WorkOrders on its own is about the expenses of one order.               *)
(***************************************************************************)
Note == [topic |-> "lease.created", order |-> 0, property |-> house, cost |-> 0]
Completed(cost) == [topic |-> "work_order.completed", order |-> 1, property |-> house,
                    cost |-> cost]
MCEvents == {Completed(0), Completed(1), Completed(2)}
WorkEvents ==
    [topic : {"work_order.completed", "preventative_maintenance.due"}, order : Nat,
     property : {house, cabin, NoRef}, cost : Nat]

MCSpecialty == (plumber :> "plumbing") @@ (painter :> "painting")
MCContains == {<<"general contractor", "general">>}

Bus == INSTANCE EventBus WITH Events <- {Note}, MaxPublished <- 4

Policy == INSTANCE WorkOrders WITH
    Events <- WorkEvents, MaxPublished <- 1,
    Leases <- {house}, Refs <- {house, cabin}, MaxEntries <- 2, MaxTransactions <- 2,
    Inputs <- {[type |-> "payment", category |-> "rent", amount |-> 1, lease |-> house]},
    Properties <- {house, cabin}, Portfolio <- {house}, Threshold <- 1, Capital <- 1,
    Vendors <- {}, Categories <- {"plumbing"}, Statuses <- {"open", "assigned", "cancelled"},
    Costs <- {0, 1, 2}, MaxOrders <- 1

Assignments == INSTANCE WorkOrders WITH
    Events <- WorkEvents, MaxPublished <- 0,
    Leases <- {house}, Refs <- {house, plumber, painter}, Inputs <- {},
    MaxEntries <- 0, MaxTransactions <- 0,
    Properties <- {house}, Portfolio <- {house}, Threshold <- 0, Capital <- NoCapital,
    Vendors <- {plumber, painter}, Categories <- {"plumbing", "make_ready"},
    Statuses <- {"open", "assigned", "cancelled"}, Costs <- {0}, MaxOrders <- 1

(***************************************************************************)
(* Schedules and templates.                                                *)
(***************************************************************************)
Schedule(p, category, frequency, due) ==
    [property |-> p, category |-> category, frequency |-> frequency, season |-> 1,
     due |-> due, lead |-> 2, vendor |-> NoVendor, estimate |-> 2, active |-> TRUE,
     live |-> TRUE]

MCScheduleInputs ==
    {Schedule(house, "hvac", "monthly", Date(0, 31)),
     Schedule(cabin, "fire_safety", "weekly", Date(0, 25)),
     Schedule(house, "winterization", "seasonal", Date(0, 31))}
MCToday == {Date(0, 30), Date(2, 1)}

Schedules == INSTANCE PreventativeMaintenance WITH
    Events <- WorkEvents, MaxPublished <- 2,
    Leases <- {}, Refs <- {house, cabin}, Inputs <- {}, MaxEntries <- 0, MaxTransactions <- 0,
    Properties <- {house, cabin}, Portfolio <- {house}, Threshold <- 1, Capital <- NoCapital,
    Vendors <- {}, Categories <- {}, Statuses <- {}, Costs <- {}, MaxOrders <- 2

Bill(ref) == [vendor |-> plumber, wo |-> NoWorkOrder, status |-> "draft",
              lines |-> <<[account |-> repairs, amount |-> 1, ref |-> ref]>>]
Template(bill, due, unit, end, remaining) ==
    [bill |-> bill, due |-> due, end |-> end, unit |-> unit, count |-> 1,
     remaining |-> remaining]

Templates == INSTANCE RecurringBills WITH
    pass <- billPass, generated <- billed,
    Refs <- {house}, MaxEntries <- 2, Vendors <- {plumber}, PayableAccount <- payable,
    BankAccounts <- {bank}, WorkOrders <- {}, BillInputs <- {Bill(house), Bill(NoRef)},
    Edits <- {}, CreditInputs <- {}, CompletionCosts <- {},
    MaxBills <- 5, MaxChecks <- 0, MaxCredits <- 0, MaxAmount <- 0,
    TemplateInputs <-
        {Template(Bill(NoRef), Date(0, 31), "month", Date(6, 1), 3),
         Template(Bill(house), Date(0, 25), "week", Date(1, 3), 0)},
    MaxTemplates <- 2,
    RunDates <- {Date(0, 31), Date(2, 1), Date(11, 1)}

ASSUME /\ WorkOrdersAssumption /\ Bus!EventBusAssumption /\ Policy!WorkOrdersAssumption
       /\ Assignments!WorkOrdersAssumption /\ Assignments!TransactionsAssumption
       /\ Schedules!WorkOrdersAssumption /\ Schedules!PreventativeAssumption
       /\ Templates!PayablesAssumption /\ Templates!RecurringBillsAssumption

(***************************************************************************)
(* Behaviours.                                                             *)
(***************************************************************************)
bookVars == <<entries, liveRefs>>
workVars == <<transactions, busVars, orders, assigned, verified>>
scheduleVars == <<schedules, pass, generated>>
templateVars == <<bills, checks, credits, actualCost, templates, billPass, billed>>

MCInit ==
    /\ part \in Parts
    /\ CASE part = "assignments" -> Assignments!WOInit
         [] part = "schedules" -> Schedules!WOInit
         [] part = "policy" -> Policy!WOInit
         [] OTHER -> WOInit
    /\ schedules = <<>> /\ pass = {} /\ generated = <<>>
    /\ bills = <<>> /\ checks = <<>> /\ credits = <<>> /\ actualCost = <<>>
    /\ templates = <<>> /\ billPass = {} /\ billed = <<>>

MCNext ==
    /\ UNCHANGED part
    /\ \/ /\ part = "bus" /\ Bus!BusNext
          /\ UNCHANGED <<bookVars, transactions, orders, assigned, verified,
                         scheduleVars, templateVars>>
       \/ /\ \/ part = "expenses" /\ WONext
             \/ part = "policy" /\ Policy!WONext
             \/ part = "assignments" /\ Assignments!AssignmentNext
          /\ UNCHANGED <<scheduleVars, templateVars>>
       \/ part = "schedules" /\ Schedules!PMNext /\ UNCHANGED templateVars
       \/ part = "templates" /\ Templates!RBNext /\ UNCHANGED <<workVars, scheduleVars>>

\* The event loop gets to every emission that is scheduled, what a subscriber
\* awaits ends, and the loops of passes go on.
MCSpec ==
    /\ MCInit
    /\ [][MCNext]_<<part, bookVars, workVars, scheduleVars, templateVars>>
    /\ WF_busVars(part = "bus" /\ (Bus!EmitHandled \/ Bus!EmitFailed \/ Bus!EmitAwaiting))
    /\ \A n \in 1 .. 4 : WF_busVars(part = "bus" /\ n \in running /\ Bus!Resume(n))
    /\ WF_busVars(part = "expenses" /\ Deliver)
    /\ WF_scheduleVars(part = "schedules" /\ pass # {} /\ Schedules!PassStep)
    /\ WF_templateVars(part = "templates" /\ Templates!PassStep)

(***************************************************************************)
(* Properties: those of the parts, put together.                           *)
(***************************************************************************)
\* Orders have the columns of the schema.  A new estimate that the portfolio does
\* not allow or has no money for leaves no order in work, and a cancelled order
\* stays so unless it was done after all.
OrdersKeepPolicy ==
    /\ [](part = "expenses" => WOTypeOK)
    /\ [](part = "assignments" => Assignments!WOTypeOK)
    /\ [](part = "schedules" => Schedules!WOTypeOK)
    /\ [][part = "policy" => Policy!NewEstimatesFunded /\ Policy!CancelledStays]_<<bookVars, workVars>>

\* Events settle, completions are booked and passes end.
MaintenanceProceeds ==
    /\ part = "bus" => Bus!EventsSettle
    /\ part = "expenses" => CompletionsAreBooked
    /\ PassEnds /\ Templates!PassEnds
=============================================================================
