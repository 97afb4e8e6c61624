---------------------- MODULE PreventativeMaintenance ----------------------
(***************************************************************************)
(* Recurring upkeep: schedules that generate work orders, one by one       *)
(* (triggerPreventativeSchedule) or in a pass over all that are due        *)
(* (runPreventativeMaintenanceCheck) of                                    *)
(* modules/maintenance/backend/repository.ts.  The pass commits one        *)
(* transaction per schedule; no other request is served meanwhile, but the *)
(* process may die between two of them.                                    *)
(***************************************************************************)
EXTENDS WorkOrders, Calendar

CONSTANTS
    ScheduleInputs,     \* the schedules that users create
    MaxSchedules,       \* bound on their number
    Today               \* the dates on which a pass is run

VARIABLES
    schedules,          \* preventative_maintenance_schedules
    pass,               \* the schedules a pass in progress has still to look at
    generated           \* history: [schedule, due, order] of every generated order

PMVars == <<WOVars, schedules, pass, generated>>
RestOfOrders == <<TxVars, verified>>

\* A row of preventative_maintenance_schedules; the season is a month, the
\* first being 0.
Frequencies == {"weekly", "seasonal"} \cup DOMAIN MonthsOf
ScheduleRows ==
    [property : Properties, category : STRING, frequency : Frequencies, season : 0 .. 11,
     due : Dates, lead : Nat, vendor : Vendors \cup {NoVendor}, estimate : Nat,
     active : BOOLEAN, live : BOOLEAN]

PreventativeAssumption == ScheduleInputs \subseteq ScheduleRows /\ Today \subseteq Dates

(***************************************************************************)
(* Schedules.                                                              *)
(***************************************************************************)
ComputeNextDueDate(date, frequency, season) ==
    CASE frequency = "weekly" -> AddDays(date, 7)
      [] frequency \in DOMAIN MonthsOf -> AddMonths(date, MonthsOf[frequency])
      [] frequency = "seasonal" -> NextSeason(date, season)

CreateSchedule(input) ==
    /\ Len(schedules) < MaxSchedules
    /\ Owned(input.property, input.vendor)
    /\ schedules' = Append(schedules, [input EXCEPT !.active = TRUE])
    /\ UNCHANGED <<WOVars, pass, generated>>

\* Updates move the due date, pause and resume; the property stays.
UpdateSchedule(s, due, active) ==
    /\ schedules[s].live
    /\ Owned(schedules[s].property, schedules[s].vendor)
    /\ schedules' = [schedules EXCEPT ![s].due = due, ![s].active = active]
    /\ UNCHANGED <<WOVars, pass, generated>>

DeleteSchedule(s) ==
    /\ schedules[s].live
    /\ schedules' = [schedules EXCEPT ![s].live = FALSE]
    /\ UNCHANGED <<WOVars, pass, generated>>

(***************************************************************************)
(* Generation.                                                             *)
(***************************************************************************)
OrderCategory(category) ==
    IF category \in {"plumbing", "electrical", "hvac", "appliance", "structural",
                     "cosmetic", "pest", "other"} THEN category ELSE "other"

OrderOf(schedule) ==
    Order(schedule.property, OrderCategory(schedule.category), "open", schedule.vendor,
          schedule.estimate)

\* The new order is read back through its property: where that was deleted
\* the transaction is rolled back.  The spend policy is not asked, and the
\* vendor is not put down in work_order_vendors.
CanTrigger(s) ==
    /\ schedules[s].live
    /\ schedules[s].property \in liveRefs

Insert(s) ==
    /\ Len(orders) < MaxOrders
    /\ CanTrigger(s)
    /\ orders' = Append(orders, OrderOf(schedules[s]))
    /\ assigned' = Append(assigned, <<>>)
    /\ generated' = Append(generated, [schedule |-> s, due |-> schedules[s].due,
                                       order |-> Len(orders) + 1])

\* The two notices that follow one another have no subscriber but the one of
\* notifications; one event stands for both.
Notice == [topic |-> "preventative_maintenance.due", order |-> Len(orders) + 1,
           property |-> NoRef, cost |-> 0]

\* Wrong: the schedule is advanced by another transaction, which a stop of the
\* process can prevent.
TriggerInTwo(s) ==
    /\ Insert(s)
    /\ schedules' \in {schedules,
                       [schedules EXCEPT ![s].due =
                          ComputeNextDueDate(@, schedules[s].frequency, schedules[s].season)]}
    /\ Publish(Notice)
    /\ UNCHANGED RestOfOrders

Trigger(s) ==
    /\ Insert(s)
    /\ schedules' = [schedules EXCEPT ![s].due =
                       ComputeNextDueDate(@, schedules[s].frequency, schedules[s].season)]
    /\ Publish(Notice)
    /\ UNCHANGED RestOfOrders

TriggerByHand(s) == Trigger(s) /\ UNCHANGED pass

\* next_due_date less the lead days has come.
IsDue(s, today) ==
    /\ schedules[s].live /\ schedules[s].active
    /\ DayNumber(schedules[s].due) <= DayNumber(today) + schedules[s].lead

StartPass(today) ==
    /\ pass' = {s \in DOMAIN schedules : IsDue(s, today)}
    /\ Len(orders) + Cardinality(pass') <= MaxOrders
    /\ Len(published) + Cardinality(pass') <= MaxPublished
    /\ UNCHANGED <<WOVars, schedules, generated>>

\* The error of one schedule is logged.
PassFails(s) ==
    /\ ~CanTrigger(s)
    /\ pass' = pass \ {s}
    /\ UNCHANGED <<WOVars, schedules, generated>>

PassStep ==
    \E s \in pass : PassFails(s) \/ (Trigger(s) /\ pass' = pass \ {s})

Stop ==
    /\ pass' = {}
    /\ Restart
    /\ UNCHANGED <<schedules, generated>>

(***************************************************************************)
(* The specification.                                                      *)
(***************************************************************************)
PMInit == WOInit /\ schedules = <<>> /\ pass = {} /\ generated = <<>>

\* Users put a schedule off, and never back to a date it was generated for.
Later(s) == {date \in Today : DayNumber(date) >= DayNumber(schedules[s].due)}

ManageSchedules ==
    \/ \E input \in ScheduleInputs : CreateSchedule(input)
    \/ \E s \in DOMAIN schedules, due \in Today, active \in BOOLEAN :
          due \in Later(s) \cup {schedules[s].due} /\ UpdateSchedule(s, due, active)
    \/ \E s \in DOMAIN schedules : DeleteSchedule(s) \/ TriggerByHand(s)
    \/ \E today \in Today : StartPass(today)

RunOrders ==
    /\ Deliver \/ Books
    /\ UNCHANGED <<schedules, pass, generated>>

PMNext ==
    \/ pass = {} /\ (ManageSchedules \/ RunOrders)
    \/ pass # {} /\ PassStep
    \/ Stop
PMSpec == PMInit /\ [][PMNext]_PMVars
FairPMSpec == PMSpec /\ WF_PMVars(pass # {} /\ PassStep)

(***************************************************************************)
(* Properties.                                                             *)
(***************************************************************************)
\* Schedules keep real dates, however they are advanced.
PMTypeOK ==
    /\ \A s \in DOMAIN schedules : schedules[s].due \in Dates
    /\ pass \subseteq DOMAIN schedules

GeneratedBy(s) == {g \in DOMAIN generated : generated[g].schedule = s}

\* A due date generates one order, though schedules are triggered by hand, by
\* passes that die half way and by the passes after them.
DueDateGeneratesOnce ==
    \A g, h \in DOMAIN generated :
        generated[g].schedule = generated[h].schedule /\ generated[g].due = generated[h].due
          => g = h

\* Unless users move it, a schedule that recurs by the month generates an
\* order in every month of its cadence, none passed over because it is
\* shorter and none with two; a seasonal one generates in its month of the
\* year, within a year.
NoMonthSkipped ==
    [][\A s \in DOMAIN schedules :
          (\E g \in GeneratedBy(s)' : g \notin DOMAIN generated)
          => LET due == schedules[s].due
                 next == schedules'[s].due
             IN  CASE schedules[s].frequency \in DOMAIN MonthsOf ->
                        next.month = due.month + MonthsOf[schedules[s].frequency]
                   [] schedules[s].frequency = "seasonal" ->
                        /\ next.month % 12 = schedules[s].season
                        /\ next.month - due.month \in 1 .. 12
                   [] OTHER -> DayNumber(next) = DayNumber(due) + 7]_PMVars

\* A pass that ends has generated the order of every schedule that was due
\* and whose property is there, or the process stopped: the failure of one
\* schedule does not keep another from its order.
PassServesTheRest ==
    [][pass # {} /\ ~Stop =>
         \A s \in pass : s \notin pass' /\ CanTrigger(s) =>
            \E g \in GeneratedBy(s)' : g \notin DOMAIN generated]_PMVars

\* All of it: a date of a schedule generates one order, none is passed over,
\* and one schedule that fails does not keep another from its order.
DatesGenerateOnce ==
    [](PMTypeOK /\ DueDateGeneratesOnce) /\ NoMonthSkipped /\ PassServesTheRest

\* A pass ends.
PassEnds == pass # {} ~> pass = {}

\* docs/modules/maintenance.md: when a work order is created with an estimate
\* the spend policy checks it, so no new order is open that it would hold.
\* Refuted: see the README.
GeneratedOrdersAreFunded ==
    [][\A o \in DOMAIN orders' :
          o \notin DOMAIN orders /\ orders'[o].status = "open"
            => ~ShouldHold(orders'[o].property, orders'[o].estimate)]_PMVars
=============================================================================
