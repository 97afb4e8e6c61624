---------------------------- MODULE CustomFields ----------------------------
(***************************************************************************)
(* User-defined fields of the entities: sections, definitions, and the     *)
(* values an entity keeps (core/custom-fields.ts).  A write merges the     *)
(* values given with the values kept and formats all of them again under   *)
(* the definitions of the moment, so a value is read under definitions     *)
(* that may be younger than it is.                                         *)
(***************************************************************************)
EXTENDS Naturals, FiniteSets

CONSTANTS
    EntityTypes, Entities,
    TypeOf,             \* the type of each entity
    Sections, NoSection,
    Defs, Names,        \* identifiers of definitions, and field names
    Types,              \* the data types used
    Given,              \* values that callers send
    OptionSets,         \* lists of options that definitions get
    Dates, EpochDay,    \* words that are dates, and the day of small timestamps
    ParseFloat          \* the amounts of the words that begin with one

VARIABLES
    section,            \* custom_field_sections
    def,                \* custom_field_definitions
    stored              \* the custom_fields of each entity, {} before it is created

fieldVars == <<section, def, stored>>

\* A JSON value and what String() makes of it: a word, or a numeral "#".  Lists
\* have one item or none.
Value(k, w, n) == [kind |-> k, word |-> w, num |-> n]
Text(w) == Value("string", w, 0)
Numeral(n) == Value("string", "#", n)
Number(n) == Value("number", "#", n)
Unbounded == Value("number", "Infinity", 0)
Flag(b) == Value("boolean", IF b THEN "true" ELSE "false", 0)
EmptyList == Value("array", "", 0)
ListOf(v) == Value("array", v.word, v.num)
Object == Value("object", "[object Object]", 0)
Null == Value("null", "", 0)
Wrong == Value("error", "", 0)

Dropped(v) == v \in {Null, Text("")}
Empty(v) == Dropped(v) \/ v = Text(" ")

\* JSON has no infinite numbers.
Saved(v) == IF v = Unbounded THEN Null ELSE v

CustomFieldsAssumption ==
    /\ TypeOf \in [Entities -> EntityTypes] /\ NoSection \notin Sections
    /\ Types \subseteq {"string", "number", "currency", "boolean", "date", "select"}
    /\ Dates \cap {"", " ", "#", "true", "false"} = {} /\ EpochDay \in Dates
    /\ DOMAIN ParseFloat \cap {"", " ", "#", "true", "false", "Infinity"} = {}
    /\ \A o \in OptionSets : o # {} /\ \A v \in o : ~Empty(v) /\ v.kind = "string"

NoDef == [state |-> "none", entity |-> "", name |-> "", type |-> "", required |-> FALSE,
          options |-> {}, section |-> NoSection]
NotCreated == [n \in {""} |-> Null]

CFInit ==
    /\ section = [s \in Sections |-> [state |-> "none", entity |-> ""]]
    /\ def = [d \in Defs |-> NoDef]
    /\ stored = [e \in Entities |-> NotCreated]

(***************************************************************************)
(* Formatting.                                                             *)
(***************************************************************************)
\* String(value).trim()
AsText(v) == Value("string", IF v.word = " " THEN "" ELSE v.word, v.num)

\* Number(value): blanks are zero and a boolean is zero or one.
AsNumber(v) ==
    CASE v.kind = "boolean" -> Number(IF v = Flag(TRUE) THEN 1 ELSE 0)
      [] v.word = "#" -> Number(v.num)
      [] v.word \in {"", " "} -> Number(0)
      [] OTHER -> Wrong

\* A number is an amount in cents, and what parseFloat reads of the text of
\* anything else is an amount in dollars.
AsMoney(v) ==
    CASE v.kind = "number" -> v
      [] v.word = "#" -> Number(100 * v.num)
      [] v.word \in DOMAIN ParseFloat -> Number(100 * ParseFloat[v.word])
      [] v.word = "Infinity" -> Unbounded
      [] OTHER -> Wrong

AsFlag(v) == Flag(v \in {Flag(TRUE), Number(1), Numeral(1), Text("true"), Text("on")})

\* normalizeDateValue: a positive timestamp, or a text that is a date.
AsDate(v) ==
    CASE v.kind = "number" /\ v.num > 0 -> Text(EpochDay)
      [] v.kind = "string" /\ v.word \in Dates -> v
      [] OTHER -> Wrong

AsOption(v, options) == IF AsText(v) \in options THEN AsText(v) ELSE Wrong

Format(d, v) ==
    CASE d.type = "string" -> AsText(v)
      [] d.type = "number" -> AsNumber(v)
      [] d.type = "currency" -> AsMoney(v)
      [] d.type = "boolean" -> AsFlag(v)
      [] d.type = "date" -> AsDate(v)
      [] d.type = "select" -> AsOption(v, d.options)

Live(t) == {d \in Defs : def[d].state = "live" /\ def[d].entity = t}
DefsOf(t, n) == {d \in Live(t) : def[d].name = n}

\* validateAndFormat: blanks are dropped, and keys without a definition kept.
Formatted(t, fields) ==
    [n \in {m \in DOMAIN fields : ~Dropped(fields[m])} |->
        IF DefsOf(t, n) = {} THEN fields[n]
        ELSE Format(def[CHOOSE d \in DefsOf(t, n) : TRUE], fields[n])]

Written(fields) == [n \in DOMAIN fields |-> Saved(fields[n])]

Valid(t, fields) ==
    /\ \A d \in Live(t) :
          def[d].required => /\ def[d].name \in DOMAIN fields
                             /\ ~Empty(fields[def[d].name])
    /\ \A n \in DOMAIN Formatted(t, fields) : Formatted(t, fields)[n] # Wrong

\* Wrong: an edit replaces the fields of the entity.
Replaced(old, new) == new

\* prepareForWrite merges what is given into what is kept.
Merged(old, new) ==
    [n \in DOMAIN old \cup DOMAIN new |-> IF n \in DOMAIN new THEN new[n] ELSE old[n]]

(***************************************************************************)
(* Sections and definitions.                                               *)
(***************************************************************************)
CreateSection(s, t) ==
    /\ section[s].state = "none"
    /\ section' = [section EXCEPT ![s] = [state |-> "live", entity |-> t]]
    /\ UNCHANGED <<def, stored>>

\* The section and the references to it go in one transaction.
DeleteSection(s) ==
    /\ section[s].state = "live"
    /\ section' = [section EXCEPT ![s].state = "deleted"]
    /\ def' = [d \in Defs |->
          IF def[d].state = "live" /\ def[d].section = s
          THEN [def[d] EXCEPT !.section = NoSection] ELSE def[d]]
    /\ UNCHANGED stored

SectionFits(s, t) == s \in Sections => section[s].state = "live" /\ section[s].entity = t

\* A live definition of that name is a conflict; options are for selects.
CreateDefinition(d, t, n, type, required, options, s) ==
    /\ def[d] = NoDef /\ SectionFits(s, t)
    /\ DefsOf(t, n) = {}
    /\ def' = [def EXCEPT ![d] =
          [state |-> "live", entity |-> t, name |-> n, type |-> type, required |-> required,
           options |-> IF type = "select" THEN options ELSE {}, section |-> s]]
    /\ UNCHANGED <<section, stored>>

\* The name and the type stay; entities are not looked at.
UpdateDefinition(d, required, options, s) ==
    /\ def[d].state = "live"
    /\ s # def[d].section => SectionFits(s, def[d].entity)
    /\ def' = [def EXCEPT ![d] = [@ EXCEPT !.required = required, !.section = s,
                  !.options = IF def[d].type = "select" THEN options ELSE @]]
    /\ UNCHANGED <<section, stored>>

\* The values that entities keep under its name stay.
DeleteDefinition(d) ==
    /\ def[d].state = "live"
    /\ def' = [def EXCEPT ![d].state = "deleted"]
    /\ UNCHANGED <<section, stored>>

(***************************************************************************)
(* Entities.                                                               *)
(***************************************************************************)
Created(e) == stored[e] # NotCreated

\* A created entity may give no fields at all; required ones are then missing.
CreateEntity(e, fields) ==
    /\ ~Created(e) /\ Valid(TypeOf[e], fields)
    /\ stored' = [stored EXCEPT ![e] = Written(Formatted(TypeOf[e], fields))]
    /\ UNCHANGED <<section, def>>

\* An imported item is formatted by the import and again when it is written.
ImportEntity(e, fields) ==
    LET once == Formatted(TypeOf[e], fields) IN
    /\ ~Created(e) /\ Valid(TypeOf[e], fields) /\ Valid(TypeOf[e], once)
    /\ stored' = [stored EXCEPT ![e] = Written(Formatted(TypeOf[e], once))]
    /\ UNCHANGED <<section, def>>

UpdateFields(e, fields) ==
    LET all == Merged(stored[e], fields) IN
    /\ Created(e) /\ Valid(TypeOf[e], all)
    /\ stored' = [stored EXCEPT ![e] = Written(Formatted(TypeOf[e], all))]
    /\ UNCHANGED <<section, def>>

Payloads == UNION {[ns -> Given] : ns \in SUBSET Names}

CFNext ==
    \/ \E s \in Sections : DeleteSection(s) \/ \E t \in EntityTypes : CreateSection(s, t)
    \/ \E d \in Defs, required \in BOOLEAN, options \in OptionSets, s \in Sections \cup {NoSection} :
          \/ UpdateDefinition(d, required, options, s)
          \/ \E t \in EntityTypes, n \in Names, type \in Types :
                CreateDefinition(d, t, n, type, required, options, s)
    \/ \E d \in Defs : DeleteDefinition(d)
    \/ \E e \in Entities, fields \in Payloads :
          CreateEntity(e, fields) \/ ImportEntity(e, fields) \/ UpdateFields(e, fields)

CFSpec == CFInit /\ [][CFNext]_fieldVars

(***************************************************************************)
(* Properties.                                                             *)
(***************************************************************************)
\* Definitions have a type; a select has options; no error is ever kept, nor
\* what JSON cannot say.
CFTypeOK ==
    /\ section \in [Sections -> [state : {"none", "live", "deleted"}, entity : EntityTypes \cup {""}]]
    /\ \A d \in Defs :
          def[d] # NoDef =>
             /\ def[d].state \in {"live", "deleted"} /\ def[d].entity \in EntityTypes
             /\ def[d].name \in Names /\ def[d].type \in Types
             /\ def[d].type = "select" <=> def[d].options # {}
             /\ def[d].section \in Sections \cup {NoSection}
    /\ \A e \in Entities :
          Created(e) => /\ DOMAIN stored[e] \subseteq Names
                        /\ \A n \in Names \cap DOMAIN stored[e] : stored[e][n] \notin {Wrong, Unbounded}

\* A live definition stands in a live section of its own type of entity, or
\* in none, whatever is created, moved and deleted in between.
SectionsAgree ==
    \A d \in Defs : def[d].state = "live" => SectionFits(def[d].section, def[d].entity)

\* The fields of an entity are found by name: two live definitions of a type
\* never share one, though deleted ones may have had it.
OneDefinitionPerName == \A t \in EntityTypes, n \in Names : Cardinality(DefsOf(t, n)) <= 1

\* What a write leaves can be written again: formatting it once more changes
\* nothing and drops no more than blanks, and it is valid under the definitions
\* of the moment unless the write itself left a required field blank.
WritesAreStable ==
    \A e \in Entities :
       stored'[e] # stored[e] =>
          LET t == TypeOf[e]  now == stored'[e]  again == Formatted(t, now) IN
          /\ \A n \in DOMAIN now : ~Dropped(now[n]) => n \in DOMAIN again /\ again[n] = now[n]
          /\ \/ Valid(t, now)
             \/ \E d \in Live(t) : /\ def[d].required /\ def[d].name \in DOMAIN now
                                   /\ Dropped(now[def[d].name])

\* A required field has a value after every write.
\* Refuted: see the README.
RequiredIsKept ==
    [][\A e \in Entities, fields \in Payloads :
          CreateEntity(e, fields) => Valid(TypeOf[e], stored'[e])]_fieldVars

\* An edit of an entity that is valid as it stands changes nothing but the
\* fields it names.
EditsAddUp ==
    \A e \in Entities, fields \in Payloads :
       UpdateFields(e, fields) =>
          LET old == stored[e] IN
          Valid(TypeOf[e], old) =>
             \A n \in DOMAIN old \ DOMAIN fields :
                \/ n \in DOMAIN stored'[e] /\ stored'[e][n] = old[n]
                \/ Empty(old[n])
                \/ \E d \in DefsOf(TypeOf[e], n) : Format(def[d], old[n]) # old[n]

\* An import gives what the creation of the entity would have given.
ImportsAgree ==
    \A e \in Entities, fields \in Payloads :
       ~Created(e) /\ ImportEntity(e, fields) =>
          /\ Valid(TypeOf[e], fields)
          /\ \A n \in DOMAIN fields :
                LET once == Formatted(TypeOf[e], fields) IN
                n \in DOMAIN once /\ ~Empty(once[n]) =>
                   n \in DOMAIN stored'[e] /\ stored'[e][n] = Saved(once[n])

\* What was entered under a deleted definition is kept as it was by edits of
\* other fields.
\* Refuted: see the README.
ValuesAreRetained ==
    [][\A e \in Entities, fields \in Payloads :
          UpdateFields(e, fields) =>
             \A d \in Defs :
                LET n == def[d].name IN
                /\ def[d].state = "deleted" /\ def[d].entity = TypeOf[e]
                /\ n \in DOMAIN stored[e] \ DOMAIN fields /\ ~Empty(stored[e][n])
                => n \in DOMAIN stored'[e] /\ stored'[e][n] = stored[e][n]]_fieldVars

\* A boolean field is given true or false.
\* Refuted: see the README.
BooleansAreStrict ==
    [][\A e \in Entities, fields \in Payloads :
          CreateEntity(e, fields) =>
             \A n \in DOMAIN fields :
                /\ \E d \in DefsOf(TypeOf[e], n) : def[d].type = "boolean"
                /\ ~Dropped(fields[n])
                => fields[n] \in {Flag(TRUE), Flag(FALSE)}]_fieldVars
=============================================================================
