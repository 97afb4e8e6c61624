---------------------------- MODULE RentalUnits ------------------------------
(***************************************************************************)
(* Portfolios, properties, buildings and units                             *)
(* (modules/properties/backend/repository.ts), and the status a unit gets  *)
(* from the leases that name it: the lease routes publish, the subscriber  *)
(* of modules/properties/backend/events.ts writes, an edit of the unit     *)
(* writes as well.  Soft-deleted rows stay in the tables; a read sees live *)
(* rows only, a foreign key sees them all.                                 *)
(***************************************************************************)
EXTENDS Naturals, Sequences

CONSTANTS
    Portfolios, Properties, Buildings, Units, Leases,
    None,       \* no portfolio, no building
    UnitStates, \* statuses that a user may give a unit, apart from vacant
    MaxQueue    \* bound: lease events that wait at once

VARIABLES
    properties, \* rows by property: [portfolio, live]
    buildings,  \* rows by building: [property, live]
    units,      \* rows by unit: [property, building, status, live]
    leases,     \* rows by lease: [unit, status]
    events,     \* lease events that were published and not delivered
    asked       \* history: the status last asked for, by unit

assets == <<properties, buildings, units>>
ruVars == <<properties, buildings, units, leases, events, asked>>

Statuses == {"vacant", "occupied", "turnover"} \cup UnitStates

ASSUME RentalUnitsAssumption ==
    /\ None \notin Portfolios \cup Buildings
    /\ MaxQueue \in Nat

RUInit ==
    /\ properties = [p \in {} |-> <<>>] /\ buildings = [b \in {} |-> <<>>]
    /\ units = [u \in {} |-> <<>>] /\ leases = [l \in {} |-> <<>>]
    /\ events = <<>> /\ asked = [u \in Units |-> "vacant"]

WithRow(f, x, y) == [z \in DOMAIN f \cup {x} |-> IF z = x THEN y ELSE f[z]]
Live(f, x) == x \in DOMAIN f /\ f[x].live

(***************************************************************************)
(* Properties and buildings                                                *)
(***************************************************************************)
CreateProperty(p, portfolio) ==
    /\ p \notin DOMAIN properties
    /\ properties' = WithRow(properties, p, [portfolio |-> portfolio, live |-> TRUE])
    /\ UNCHANGED <<buildings, units, leases, events, asked>>

UpdateProperty(p, portfolio) ==
    /\ Live(properties, p)
    /\ properties' = [properties EXCEPT ![p].portfolio = portfolio]
    /\ UNCHANGED <<buildings, units, leases, events, asked>>

\* Neither the buildings nor the units of the property are looked at.
DeleteProperty(p) ==
    /\ Live(properties, p)
    /\ properties' = [properties EXCEPT ![p].live = FALSE]
    /\ UNCHANGED <<buildings, units, leases, events, asked>>

CreateBuilding(b, p) ==
    /\ b \notin DOMAIN buildings /\ p \in DOMAIN properties
    /\ buildings' = WithRow(buildings, b, [property |-> p, live |-> TRUE])
    /\ UNCHANGED <<properties, units, leases, events, asked>>

\* Wrong: the units keep the building.
DeleteBuildingAlone(b) ==
    /\ Live(buildings, b)
    /\ buildings' = [buildings EXCEPT ![b].live = FALSE]
    /\ UNCHANGED <<properties, units, leases, events, asked>>

\* One transaction: the live units let go of the building, then it is deleted.
\* A second deletion changes units that name it, if there were any.
DeleteBuilding(b) ==
    /\ b \in DOMAIN buildings
    /\ units' = [u \in DOMAIN units |->
           IF units[u].live /\ units[u].building = b
           THEN [units[u] EXCEPT !.building = None] ELSE units[u]]
    /\ buildings' = [buildings EXCEPT ![b].live = FALSE]
    /\ UNCHANGED <<properties, leases, events, asked>>

(***************************************************************************)
(* Units                                                                   *)
(***************************************************************************)
Fits(building, p) ==
    \/ building = None
    \/ Live(buildings, building) /\ buildings[building].property = p

CreateUnit(u, p, building, status) ==
    /\ u \notin DOMAIN units /\ p \in DOMAIN properties
    /\ Fits(building, p)
    /\ units' = WithRow(units, u, [property |-> p, building |-> building,
                                status |-> status, live |-> TRUE])
    /\ asked' = [asked EXCEPT ![u] = status]
    /\ UNCHANGED <<properties, buildings, leases, events>>

\* Columns that are not given keep their value, and are checked with the rest.
MoveUnit(u, p, building) ==
    /\ Live(units, u) /\ p \in DOMAIN properties
    /\ Fits(building, p)
    /\ units' = [units EXCEPT ![u].property = p, ![u].building = building]
    /\ UNCHANGED <<properties, buildings, leases, events, asked>>

EditStatus(u, status) ==
    /\ Live(units, u) /\ Fits(units[u].building, units[u].property)
    /\ units' = [units EXCEPT ![u].status = status]
    /\ asked' = [asked EXCEPT ![u] = status]
    /\ UNCHANGED <<properties, buildings, leases, events>>

DeleteUnit(u) ==
    /\ Live(units, u)
    /\ units' = [units EXCEPT ![u].live = FALSE]
    /\ UNCHANGED <<properties, buildings, leases, events, asked>>

(***************************************************************************)
(* Leases and the events they publish                                      *)
(***************************************************************************)

CreateLease(l, u) ==
    /\ l \notin DOMAIN leases /\ u \in DOMAIN units
    /\ leases' = WithRow(leases, l, [unit |-> u, status |-> "draft"])
    /\ UNCHANGED <<properties, buildings, units, events, asked>>

StatusOf == [activated |-> "occupied", terminated |-> "turnover"]

\* POST /leases/:id/activate and /terminate, whatever the status was.
Announce(l, status, type) ==
    /\ l \in DOMAIN leases /\ Len(events) < MaxQueue
    /\ leases' = [leases EXCEPT ![l].status = status]
    /\ events' = Append(events, [type |-> type, unit |-> leases[l].unit])
    /\ asked' = IF Live(units, leases[l].unit)
                THEN [asked EXCEPT ![leases[l].unit] = StatusOf[type]] ELSE asked
    /\ UNCHANGED assets
Activate(l) == Announce(l, "active", "activated")
Terminate(l) == Announce(l, "terminated", "terminated")

\* PUT /leases/:id publishes nothing.
PutLease(l, status) ==
    /\ l \in DOMAIN leases
    /\ leases' = [leases EXCEPT ![l].status = status]
    /\ UNCHANGED <<properties, buildings, units, events, asked>>

\* Wrong: the newest event comes first.
DeliverLast ==
    /\ events # <<>>
    /\ LET event == events[Len(events)]
       IN  units' = IF Live(units, event.unit)
                    THEN [units EXCEPT ![event.unit].status = StatusOf[event.type]]
                    ELSE units
    /\ events' = SubSeq(events, 1, Len(events) - 1)
    /\ UNCHANGED <<properties, buildings, leases, asked>>

\* updateUnitStatus in the operator of the event; a deleted unit stays as it is.
Deliver ==
    /\ events # <<>>
    /\ LET event == Head(events)
       IN  units' = IF Live(units, event.unit)
                    THEN [units EXCEPT ![event.unit].status = StatusOf[event.type]]
                    ELSE units
    /\ events' = Tail(events)
    /\ UNCHANGED <<properties, buildings, leases, asked>>

ManageAssets ==
    \/ \E p \in Properties, portfolio \in Portfolios \cup {None} :
           CreateProperty(p, portfolio) \/ UpdateProperty(p, portfolio)
    \/ \E p \in Properties : DeleteProperty(p)
    \/ \E b \in Buildings, p \in Properties : CreateBuilding(b, p)
    \/ \E b \in Buildings : DeleteBuilding(b)
    \/ \E u \in Units, p \in Properties, b \in Buildings \cup {None} :
           \/ MoveUnit(u, p, b)
           \/ \E status \in {"vacant"} \cup UnitStates : CreateUnit(u, p, b, status)
    \/ \E u \in Units : DeleteUnit(u)
Announcements ==
    \/ \E l \in Leases, u \in Units : CreateLease(l, u)
    \/ \E l \in Leases : Activate(l) \/ Terminate(l) \/ PutLease(l, "active")
    \/ Deliver
Edits == \E u \in Units, status \in UnitStates : EditStatus(u, status)

RUNext == ManageAssets \/ Announcements \/ Edits
RUSpec == RUInit /\ [][RUNext]_ruVars

\* Units are edited while no event waits, and events are delivered.
Unhurried == Edits /\ events = <<>>
DeliveryNext == ManageAssets \/ Announcements \/ Unhurried
DeliverySpec == RUInit /\ [][DeliveryNext]_ruVars /\ WF_ruVars(Deliver)

(***************************************************************************)
(* Properties                                                              *)
(***************************************************************************)
\* Rows name rows that exist; the rows of the tables are of their types.
RUTypeOK ==
    /\ DOMAIN properties \subseteq Properties
    /\ DOMAIN buildings \subseteq Buildings
    /\ DOMAIN units \subseteq Units
    /\ DOMAIN leases \subseteq Leases
    /\ \A p \in DOMAIN properties :
           properties[p] \in [portfolio : Portfolios \cup {None}, live : BOOLEAN]
    /\ \A b \in DOMAIN buildings :
           buildings[b] \in [property : DOMAIN properties, live : BOOLEAN]
    /\ \A u \in DOMAIN units :
           units[u] \in [property : DOMAIN properties, building : Buildings \cup {None},
                         status : Statuses, live : BOOLEAN]
    /\ \A l \in DOMAIN leases :
           leases[l] \in [unit : DOMAIN units, status : {"draft", "active", "terminated"}]
    /\ events \in Seq([type : DOMAIN StatusOf, unit : DOMAIN units])
    /\ asked \in [Units -> Statuses]

\* The building of a live unit is live and stands on the property of the unit,
\* whichever of the three was moved or deleted, in whatever order
\* (createUnit, updateUnit, deleteBuilding).
BuildingsAgree ==
    \A u \in DOMAIN units :
        units[u].live /\ units[u].building # None =>
            /\ Live(buildings, units[u].building)
            /\ buildings[units[u].building].property = units[u].property

\* Once the events of leases are delivered, a unit has the status that was
\* asked for last, by an event or an edit (events.ts, updateUnitStatus).
SettledStatus ==
    events = <<>> =>
        \A u \in DOMAIN units : units[u].live => units[u].status = asked[u]

\* A unit whose lease was activated is occupied, or something else was asked
\* of it meanwhile, in the end (publish, then the subscriber).
ActivationArrives ==
    \A u \in Units :
        (asked[u] = "occupied" /\ Live(units, u)) ~>
            (~Live(units, u) \/ units[u].status = "occupied" \/ asked[u] # "occupied")
==============================================================================
