----------------------------- MODULE Amenities -------------------------------
(***************************************************************************)
(* The amenities of properties and units.  The module has two catalogs     *)
(* over the same junction tables: amenities, with the API of               *)
(* modules/properties/backend/repository.ts, and amenity_definitions, with *)
(* the tag editor (backend/amenities.ts, frontend/pages/amenities.ts).  A  *)
(* junction row refers to amenities (migration 0003) in both.  Marketing   *)
(* settings are kept one record per property or unit.                      *)
(***************************************************************************)

CONSTANTS
    PropertyIds, UnitIds, PropertyOf,
    AmenityIds, \* ids that amenities and definitions get
    Shared,     \* ids that the demo data gives to both catalogs
    Records     \* ids of marketing records

VARIABLES
    amenities,      \* live rows of amenities
    everAmenities,  \* rows of amenities, deleted ones included
    definitions,    \* live rows of amenity_definitions: nothing deletes one
    propertyTags,   \* live rows of property_amenities
    unitTags,       \* live rows of unit_amenities: [unit, id, excluded]
    syndications,   \* marketing records: [id, owner]
    refused         \* history: submissions of the editor that failed

tables == <<amenities, everAmenities, definitions>>
tags == <<propertyTags, unitTags>>
amVars == <<tables, tags, syndications, refused>>

Advertised == PropertyIds \cup UnitIds

AmenitiesAssumption ==
    /\ PropertyOf \in [UnitIds -> PropertyIds]
    /\ Shared \subseteq AmenityIds
    /\ PropertyIds \cap UnitIds = {}

AMInit ==
    /\ amenities = Shared /\ everAmenities = Shared /\ definitions = Shared
    /\ propertyTags = [p \in PropertyIds |-> {}] /\ unitTags = {}
    /\ syndications = {} /\ refused = {}

TagsOf(u) == {t \in unitTags : t.unit = u}
AddedTags(u) == {t.id : t \in {t \in TagsOf(u) : ~t.excluded}}
ExcludedTags(u) == {t.id : t \in {t \in TagsOf(u) : t.excluded}}

(***************************************************************************)
(* The catalog API                                                         *)
(***************************************************************************)
CreateAmenity(a) ==
    /\ a \notin everAmenities \cup definitions
    /\ amenities' = amenities \cup {a}
    /\ everAmenities' = everAmenities \cup {a}
    /\ UNCHANGED <<definitions, tags, syndications, refused>>

\* One transaction: the row, then the junction rows that name it.
DeleteAmenity(a) ==
    /\ a \in amenities
    /\ amenities' = amenities \ {a}
    /\ propertyTags' = [p \in PropertyIds |-> propertyTags[p] \ {a}]
    /\ unitTags' = {t \in unitTags : t.id # a}
    /\ UNCHANGED <<everAmenities, definitions, syndications, refused>>

SetPropertyAmenities(p, chosen) ==
    /\ chosen \subseteq amenities
    /\ propertyTags' = [propertyTags EXCEPT ![p] = chosen]
    /\ UNCHANGED <<tables, unitTags, syndications, refused>>

\* The rows of the unit are replaced, exclusions included.
SetUnitAmenities(u, chosen) ==
    /\ chosen \subseteq amenities
    /\ unitTags' = (unitTags \ TagsOf(u))
                       \cup [unit : {u}, id : chosen, excluded : {FALSE}]
    /\ UNCHANGED <<tables, propertyTags, syndications, refused>>

\* getUnitAmenities of the catalog: what GET /units/:unit_id/amenities lists.
ListedTags(u) == (AddedTags(u) \cup ExcludedTags(u)) \cap amenities

(***************************************************************************)
(* The tag editor                                                          *)
(***************************************************************************)
\* ensureDefaults of an operator without definitions, and custom tags.
Define(a) ==
    /\ a \notin everAmenities \cup definitions
    /\ definitions' = definitions \cup {a}
    /\ UNCHANGED <<amenities, everAmenities, tags, syndications, refused>>

\* Any row of amenities satisfies the foreign key, a deleted one as well.
RowsAccepted(ids) == ids \subseteq everAmenities

\* What the page can submit: its boxes are the definitions, which nothing
\* removes.  The handler itself does not look.
SavePropertyTags(p, chosen) ==
    /\ chosen \subseteq definitions
    /\ IF RowsAccepted(chosen)
       THEN /\ propertyTags' = [propertyTags EXCEPT ![p] = chosen]
            /\ UNCHANGED refused
       ELSE /\ refused' = refused \cup {p}
            /\ UNCHANGED propertyTags
    /\ UNCHANGED <<tables, unitTags, syndications>>

\* What the editor shows of a unit: its property's tags without those it
\* excludes, and its own.
Inherited(u) == propertyTags[PropertyOf[u]] \cap definitions
Active(u) == (Inherited(u) \ ExcludedTags(u)) \cup (AddedTags(u) \cap definitions)

\* Wrong: every tag that is chosen is saved.
TagRowsWithInherited(u, chosen, excluded) ==
    [unit : {u}, id : chosen, excluded : {FALSE}]
        \cup [unit : {u}, id : excluded, excluded : {TRUE}]

\* The page leaves out what the unit inherits; an excluded tag is not added.
TagRows(u, chosen, excluded) ==
    [unit : {u}, id : (chosen \ Inherited(u)) \ excluded, excluded : {FALSE}]
        \cup [unit : {u}, id : excluded, excluded : {TRUE}]

\* The page may be older than the tags of the property, so what it excludes
\* need not be inherited any more.
SaveUnitTags(u, chosen, excluded) ==
    /\ chosen \cup excluded \subseteq definitions
    /\ LET rows == TagRows(u, chosen, excluded)
       IN  IF RowsAccepted({t.id : t \in rows})
           THEN /\ unitTags' = (unitTags \ TagsOf(u)) \cup rows
                /\ UNCHANGED refused
           ELSE /\ refused' = refused \cup {u}
                /\ UNCHANGED unitTags
    /\ UNCHANGED <<tables, propertyTags, syndications>>

(***************************************************************************)
(* Marketing settings                                                      *)
(***************************************************************************)
SyndicationsOf(owner) == {r \in syndications : r.owner = owner}

\* An existing record is updated in place, which this model does not see.
UpsertMarketingSyndication(owner, id) ==
    /\ ~\E r \in syndications : r.id = id
    /\ SyndicationsOf(owner) = {}
    /\ syndications' = syndications \cup {[id |-> id, owner |-> owner]}
    /\ UNCHANGED <<tables, tags, refused>>

UseCatalog ==
    \/ \E a \in AmenityIds : CreateAmenity(a) \/ DeleteAmenity(a)
    \/ \E p \in PropertyIds, chosen \in SUBSET AmenityIds : SetPropertyAmenities(p, chosen)
    \/ \E u \in UnitIds, chosen \in SUBSET AmenityIds : SetUnitAmenities(u, chosen)
UseEditor ==
    \/ \E a \in AmenityIds : Define(a)
    \/ \E p \in PropertyIds, chosen \in SUBSET AmenityIds : SavePropertyTags(p, chosen)
    \/ \E u \in UnitIds, chosen, excluded \in SUBSET AmenityIds : SaveUnitTags(u, chosen, excluded)
Advertise ==
    \E owner \in Advertised, id \in Records : UpsertMarketingSyndication(owner, id)

AMNext == UseCatalog \/ UseEditor \/ Advertise
AMSpec == AMInit /\ [][AMNext]_amVars

(***************************************************************************)
(* Properties.                                                             *)
(***************************************************************************)
\* A junction row is shown by one of the catalogs: none outlives the amenity
\* it names, whoever wrote it (deleteAmenity, setPropertyAmenities).
TagsAreShown ==
    /\ \A p \in PropertyIds : propertyTags[p] \subseteq amenities \cup definitions
    /\ \A t \in unitTags : t.id \in amenities \cup definitions

\* The unique index of unit_amenities: a unit has one row for an amenity, it
\* does not add and exclude the same.
OneRowPerTag == \A u \in UnitIds : AddedTags(u) \cap ExcludedTags(u) = {}

\* One record answers for a property or a unit (upsertMarketingSyndication).
OneRecord == \A r, s \in syndications : r.owner = s.owner => r = s

\* Tags that a property loses, its units lose, save those they add themselves:
\* saving a unit with what it inherits does not make it the unit's own
\* (frontend/pages/amenities.ts).
SavingKeepsInheritance ==
    \A u \in UnitIds, chosen, excluded \in SUBSET AmenityIds :
        SaveUnitTags(u, chosen, excluded) /\ unitTags' # unitTags
            => AddedTags(u)' \cap Inherited(u) = {}

\* Tags are shown by a catalog, a unit does not add and exclude the same, and
\* one marketing record answers for a property or a unit; saving a unit does
\* not make what it inherits its own.
TagsAgree ==
    /\ [](TagsAreShown /\ OneRowPerTag /\ OneRecord)
    /\ [][SavingKeepsInheritance]_amVars

\* A tag of amenity_definitions can be given to a property and to a unit: the
\* editor's submissions succeed (docs/modules/properties.md).
\* Refuted: see the README.
EditorSaves == refused = {}

\* What GET /properties/units/:unit_id/amenities lists includes what the unit
\* inherits (docs/modules/properties.md).
\* Refuted: see the README.
ListIncludesInherited == \A u \in UnitIds : Active(u) \subseteq ListedTags(u)

\* A unit that excludes an amenity is not listed with it.
\* Refuted: see the README.
ListRespectsExclusions == \A u \in UnitIds : ExcludedTags(u) \cap ListedTags(u) = {}
==============================================================================
