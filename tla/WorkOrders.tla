----------------------------- MODULE WorkOrders ------------------------------
(***************************************************************************)
(* The work orders of modules/maintenance/backend/repository.ts: their     *)
(* statuses, the vendors they are dispatched to, the spend policy that     *)
(* puts them on hold, and the expense that accounting posts when the event *)
(* of a completion reaches it.  The ledger is that of Transactions and the *)
(* events travel over EventBus; a request is served between two turns of   *)
(* the event loop, so it is one atomic action.                             *)
(***************************************************************************)
EXTENDS Transactions, EventBus

CONSTANTS
    Properties,         \* properties: what a line of the ledger may name
    Portfolio,          \* those that belong to the portfolio
    Threshold,          \* spend_threshold_cents of the portfolio, 0 for none
    Capital,            \* contributions less distributions, or NoCapital
    NoCapital,          \* no contribution or distribution was recorded
    Vendors,            \* contacts of type vendor
    NoVendor,
    Specialty,          \* vendor -> vendor_specialty
    Contains,           \* pairs of strings, the second part of the first
    Categories,         \* categories that users give an order
    Statuses,           \* statuses that users give an order
    Costs,              \* estimates and actual costs
    MaxOrders           \* bound on the number of orders

VARIABLES
    orders,             \* work_orders; a row's position is its id
    assigned,           \* work_order_vendors of each order, by assigned_at
    verified            \* the vendors with w9_received

orderVars == <<orders, assigned>>
WOVars == <<entries, liveRefs, transactions, busVars, orderVars, verified>>

AllStatuses == {"open", "assigned", "in_progress", "on_hold", "completed", "cancelled"}

WorkOrdersAssumption ==
    /\ Properties \cup Vendors \subseteq Refs
    /\ Portfolio \subseteq Properties
    /\ Threshold \in Nat /\ Costs \subseteq Nat
    /\ Statuses \subseteq AllStatuses
    /\ NoVendor \notin Vendors

(***************************************************************************)
(* Who may be dispatched.                                                  *)
(***************************************************************************)
Renamed == [pest_control |-> "pest", make_ready |-> "cosmetic",
            roofing |-> "structural", landscaping |-> "other"]

NormalizeCategory(c) == IF c \in DOMAIN Renamed THEN Renamed[c] ELSE c

Generalists == {"general contractor", "general repair", "handyman"}
Finishers   == {"make_ready", "turnkey", "cleaning", "painting", "general contractor",
                "landscaping"}
Overlap(a, b) == <<a, b>> \in Contains \/ <<b, a>> \in Contains

IsTradeCompatible(specialty, category) ==
    \/ category \in {specialty, NormalizeCategory(specialty)}
    \/ specialty \in Generalists
    \/ category \in {"cosmetic", "other"} /\ specialty \in Finishers
    \/ Overlap(specialty, category) \/ Overlap(NormalizeCategory(specialty), category)

Eligible(v, category) == v \in verified /\ IsTradeCompatible(Specialty[v], category)

(***************************************************************************)
(* The spend policy.                                                       *)
(***************************************************************************)
\* The lines of operating banks that name a live property of the portfolio.
OnOperatingBank(line) ==
    /\ line.account = Mapped["operating_bank"]
    /\ line.ref \in Portfolio \cap liveRefs
BankLines(i) == SelectSeq(entries[i].lines, OnOperatingBank)

HasBankLines == \E i \in DOMAIN entries : BankLines(i) # <<>>
NetBankCash == Total([i \in DOMAIN entries |-> Debits(BankLines(i)) - Credits(BankLines(i))])

FundsKnown == HasBankLines \/ Capital # NoCapital
AvailableFunds == Max({0, IF HasBankLines THEN NetBankCash ELSE Capital})

\* evaluateSpendPolicy.
ShouldHold(p, estimate) ==
    /\ estimate > 0
    /\ p \in Portfolio
    /\ \/ Threshold > 0 /\ estimate > Threshold
       \/ FundsKnown /\ estimate > AvailableFunds

\* Wrong: an order that is dispatched in the same request is let through.
StatusUnlessAssigned(status, p, estimate) ==
    IF status \notin {"assigned", "completed", "cancelled"} /\ ShouldHold(p, estimate)
    THEN "on_hold" ELSE status

StatusUnderPolicy(status, p, estimate) ==
    IF status \notin {"completed", "cancelled"} /\ ShouldHold(p, estimate)
    THEN "on_hold" ELSE status

(***************************************************************************)
(* Work orders.                                                            *)
(***************************************************************************)
Order(p, category, status, vendor, estimate) ==
    [property |-> p, category |-> category, status |-> status, vendor |-> vendor,
     estimate |-> estimate, cost |-> 0, live |-> TRUE]

\* getWorkOrderById joins the property.
Found(o) == orders[o].live /\ orders[o].property \in liveRefs
Owned(p, vendor) == p \in liveRefs /\ vendor \in {NoVendor} \cup (Vendors \cap liveRefs)

\* The vendor is also put down as primary, unless that is refused: the error
\* is swallowed and the order keeps the vendor.
CreateWorkOrder(p, category, status, vendor, estimate) ==
    /\ Len(orders) < MaxOrders
    /\ Owned(p, vendor)
    /\ orders' = Append(orders, Order(p, NormalizeCategory(category),
                                      StatusUnderPolicy(status, p, estimate), vendor, estimate))
    /\ assigned' = Append(assigned,
                          IF vendor # NoVendor /\ Eligible(vendor, NormalizeCategory(category))
                          THEN <<vendor>> ELSE <<>>)
    /\ UNCHANGED <<TxVars, busVars, verified>>

\* The estimate is looked at when it changes, against the property the
\* request leaves the order at.
UpdateWorkOrder(o, p, category, status, vendor, estimate, cost) ==
    /\ Found(o)
    /\ orders[o].status = "cancelled" => status = "cancelled"
    /\ Owned(p, vendor)
    /\ status = "assigned" /\ vendor # NoVendor
         => Eligible(vendor, NormalizeCategory(category))
    /\ orders' = [orders EXCEPT
         ![o].property = p, ![o].category = NormalizeCategory(category),
         ![o].status = IF estimate = orders[o].estimate THEN status
                       ELSE StatusUnderPolicy(status, p, estimate),
         ![o].vendor = vendor, ![o].estimate = estimate, ![o].cost = cost]
    /\ UNCHANGED <<TxVars, busVars, verified, assigned>>

Listed(v, s) == \E k \in DOMAIN s : s[k] = v
Once(s) == \A j, k \in DOMAIN s : s[j] = s[k] => j = k

\* An index keeps a vendor to one row of an order.
Without(s, v) ==
    IF Listed(v, s)
    THEN LET k == CHOOSE k \in DOMAIN s : s[k] = v
         IN  SubSeq(s, 1, k - 1) \o SubSeq(s, k + 1, Len(s))
    ELSE s

\* The role of primary asks for an eligible vendor; an order without vendor
\* takes any vendor that is.
AssignWorkOrderVendor(o, v, role) ==
    /\ orders[o].live /\ v \in liveRefs
    /\ role = "primary" => Eligible(v, orders[o].category)
    /\ assigned' = [assigned EXCEPT ![o] = Append(Without(@, v), v)]
    /\ orders' = IF orders[o].vendor = NoVendor /\ Eligible(v, orders[o].category)
                 THEN [orders EXCEPT ![o].vendor = v] ELSE orders
    /\ UNCHANGED <<TxVars, busVars, verified>>

\* Wrong: the order keeps its primary vendor.
RemoveFromListOnly(o, v) ==
    /\ Listed(v, assigned[o])
    /\ assigned' = [assigned EXCEPT ![o] = Without(@, v)]
    /\ UNCHANGED <<TxVars, busVars, orders, verified>>

\* The next vendor by assigned_at takes over.
RemoveWorkOrderVendor(o, v) ==
    /\ Listed(v, assigned[o])
    /\ assigned' = [assigned EXCEPT ![o] = Without(@, v)]
    /\ orders' = [orders EXCEPT ![o].vendor =
                    CASE @ # v -> @
                      [] @ = v /\ assigned'[o] # <<>> -> Head(assigned'[o])
                      [] OTHER -> NoVendor]
    /\ UNCHANGED <<TxVars, busVars, verified>>

Completion(o, cost) ==
    [topic |-> "work_order.completed", order |-> o, property |-> orders[o].property,
     cost |-> cost]

\* The route publishes after every call, whatever the status was.
CompleteWorkOrder(o, cost) ==
    /\ Found(o)
    /\ orders' = [orders EXCEPT ![o].status = "completed", ![o].cost = cost]
    /\ Publish(Completion(o, cost))
    /\ UNCHANGED <<TxVars, assigned, verified>>

DeleteWorkOrder(o) ==
    /\ orders[o].live
    /\ orders' = [orders EXCEPT ![o].live = FALSE]
    /\ UNCHANGED <<TxVars, busVars, assigned, verified>>

\* Contacts: the W-9 of a vendor is received or found missing.
SetVerified(v) ==
    /\ verified' = IF v \in verified THEN verified \ {v} ELSE verified \cup {v}
    /\ UNCHANGED <<TxVars, busVars, orderVars>>

(***************************************************************************)
(* The subscribers.                                                        *)
(***************************************************************************)
Reference(o) == [kind |-> "work_order", key |-> o, month |-> 0]

PostExpense(event) ==
    CreateTransaction("expense", "repairs", event.cost, event.property,
                      Reference(event.order), NoAccount)

NothingToDo(event) == event.topic # "work_order.completed" \/ event.cost <= 0

DeliverWithoutEffect ==
    /\ queue # <<>> /\ NothingToDo(published[Head(queue)])
    /\ EmitHandled
    /\ UNCHANGED <<TxVars, orderVars, verified>>

\* Wrong: the subscriber posts nothing.
DropExpense ==
    /\ queue # <<>> /\ ~NothingToDo(published[Head(queue)])
    /\ EmitHandled
    /\ UNCHANGED <<TxVars, orderVars, verified>>

\* Wrong: the event is emitted a second time.
DeliverExpenseTwice ==
    /\ queue # <<>> /\ ~NothingToDo(published[Head(queue)])
    /\ PostExpense(published[Head(queue)])
    /\ UNCHANGED <<busVars, liveRefs, orderVars, verified>>

DeliverExpense ==
    /\ queue # <<>> /\ ~NothingToDo(published[Head(queue)])
    /\ PostExpense(published[Head(queue)])
    /\ EmitHandled
    /\ UNCHANGED <<liveRefs, orderVars, verified>>

\* createTransaction throws: the property was deleted in the meantime.
DeliverDeadLetter ==
    /\ queue # <<>> /\ ~NothingToDo(published[Head(queue)])
    /\ published[Head(queue)].property \notin liveRefs
    /\ EmitFailed
    /\ UNCHANGED <<TxVars, orderVars, verified>>

Deliver == DeliverWithoutEffect \/ DeliverExpense \/ DeliverDeadLetter

\* The process stops and starts again: tables stay, the bus does not.
Restart == StopBus /\ UNCHANGED <<TxVars, orderVars, verified>>

(***************************************************************************)
(* The specification.                                                      *)
(***************************************************************************)
WOInit ==
    /\ TxInit /\ BusInit
    /\ orders = <<>> /\ assigned = <<>> /\ verified = {}

ManageVendors ==
    \/ \E o \in DOMAIN orders, v \in Vendors, role \in {"primary", "contractor"} :
          AssignWorkOrderVendor(o, v, role)
    \/ \E o \in DOMAIN orders, v \in Vendors : RemoveWorkOrderVendor(o, v)
    \/ \E v \in Vendors : SetVerified(v)

ManageOrders ==
    \/ \E p \in Properties, c \in Categories, s \in Statuses,
          v \in Vendors \cup {NoVendor}, e \in Costs : CreateWorkOrder(p, c, s, v, e)
    \/ \E o \in DOMAIN orders, p \in Properties, c \in Categories, s \in Statuses,
          v \in Vendors \cup {NoVendor}, e, a \in Costs : UpdateWorkOrder(o, p, c, s, v, e, a)
    \/ \E o \in DOMAIN orders, a \in Costs : CompleteWorkOrder(o, a)
    \/ \E o \in DOMAIN orders : DeleteWorkOrder(o)

Books ==
    /\ \/ \E input \in Inputs : CreateFromRequest(input)
       \/ DeleteReference
    /\ UNCHANGED <<busVars, orderVars, verified>>

WONext == ManageOrders \/ ManageVendors \/ Books \/ Deliver \/ Restart
WOSpec == WOInit /\ [][WONext]_WOVars

\* The event loop turns.
FairWOSpec == WOSpec /\ WF_WOVars(Deliver)

\* Users give orders their vendors through the assignments of vendors only.
OrdersWithoutVendors ==
    \/ \E p \in Properties, c \in Categories, s \in Statuses, e \in Costs :
          CreateWorkOrder(p, c, s, NoVendor, e)
    \/ \E o \in DOMAIN orders, p \in Properties, c \in Categories, s \in Statuses, e, a \in Costs :
          UpdateWorkOrder(o, p, c, s, orders[o].vendor, e, a)
    \/ \E o \in DOMAIN orders : DeleteWorkOrder(o)
AssignmentNext == OrdersWithoutVendors \/ ManageVendors \/ Books
AssignmentSpec == WOInit /\ [][AssignmentNext]_WOVars

(***************************************************************************)
(* Properties.                                                             *)
(***************************************************************************)
Completions(o) == {n \in DOMAIN published : /\ published[n].topic = "work_order.completed"
                                            /\ published[n].order = o}
ExpensesOf(o) == {t \in DOMAIN transactions : transactions[t].reference = Reference(o)}

\* Orders have the columns of the schema; categories are stored normalised.
WOTypeOK ==
    /\ TxTypeOK
    /\ Len(assigned) = Len(orders)
    /\ \A o \in DOMAIN orders :
          /\ orders[o].status \in AllStatuses
          /\ orders[o].category \notin DOMAIN Renamed
          /\ orders[o].vendor \in Vendors \cup {NoVendor}

\* However often an order is completed, the process stops and properties are
\* deleted: each completion with a cost that was handled is one expense of
\* its amount in the ledger, and no expense has another origin.
ExpensesMatchCompletions ==
    \A o \in DOMAIN orders, cost \in Costs \ {0} :
        Cardinality({t \in ExpensesOf(o) : transactions[t].amount = cost}) =
          Cardinality({n \in Completions(o) : /\ published[n].cost = cost
                                              /\ fates[n] = "handled"})

\* A completion with a cost is booked, unless the process stops or the
\* property is deleted before the event is delivered.
CompletionsAreBooked ==
    \A n \in 1 .. MaxPublished :
        (n \in DOMAIN fates /\ fates[n] = "waiting")
          ~> /\ n \in DOMAIN fates
             /\ \/ fates[n] = "lost"
                \/ fates[n] = "failed" /\ published[n].property \notin liveRefs
                \/ /\ fates[n] = "handled"
                   /\ published[n].cost > 0 => ExpensesOf(published[n].order) # {}

\* A new estimate that the portfolio does not allow, or has no money for,
\* leaves no order in work, whatever status and vendor the request asks for.
NewEstimatesFunded ==
    \A o \in DOMAIN orders' :
        /\ o \notin DOMAIN orders \/ orders[o].estimate # orders'[o].estimate
        /\ orders'[o].status \in {"open", "assigned", "in_progress"}
        => ~ShouldHold(orders'[o].property, orders'[o].estimate)

\* No request gives a cancelled order another status but the one of an order
\* that was done after all.
CancelledStays ==
    \A o \in DOMAIN orders :
        orders[o].status = "cancelled" => orders'[o].status \in {"cancelled", "completed"}

\* Where vendors are given through assignments, the primary vendor of an
\* order is one of the assigned, through re-assignments and removals, and a
\* vendor is listed once.
PrimaryIsAssigned ==
    \A o \in DOMAIN orders :
        /\ orders[o].vendor # NoVendor => Listed(orders[o].vendor, assigned[o])
        /\ Once(assigned[o])

\* The compliance safeguard of docs/modules/maintenance.md: only vendors with
\* a verified W-9 and the right trade are dispatched.
\* Refuted: see the README.
DispatchEligible ==
    [][\A o \in DOMAIN orders' :
          /\ orders'[o].status = "assigned" /\ orders'[o].vendor # NoVendor
          /\ o \in DOMAIN orders => orders[o].status # "assigned"
                                      \/ orders[o].vendor # orders'[o].vendor
          => Eligible(orders'[o].vendor, orders'[o].category)]_WOVars

\* The same document: dispatching is strictly prohibited on completed or
\* cancelled work orders.
\* Refuted: see the README.
DispatchFromDispatchable ==
    [][\A o \in DOMAIN orders :
          orders'[o].status = "assigned"
            => orders[o].status \notin {"completed", "cancelled"}]_WOVars

\* The same document: the event is published when the status of an order
\* transitions to completed, so an order that stays completed costs once.
\* Refuted: see the README.
PublishedPerTransition ==
    [][\A o \in DOMAIN orders :
          Completions(o)' # Completions(o) => orders[o].status # "completed"]_WOVars
=============================================================================
