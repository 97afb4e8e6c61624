------------------------------ MODULE MCRecords -------------------------------
(***************************************************************************)
(* Who may enter and what is kept for them, on small instances: users and  *)
(* their sessions, the buildings and units they let, custom fields,        *)
(* attached files and their archives, and the threads of conversations.    *)
(* A behaviour keeps to one part:                                          *)
(*                                                                         *)
(*   sessions     logins, setups and new passwords wait at the same time   *)
(*   operators    operators come and go while users are created            *)
(*   hierarchy    properties, buildings and units moved and deleted        *)
(*   status       two units of a property and the events of two leases     *)
(*   definitions  three definitions and two sections of two types          *)
(*   values       one field, defined again with every type                 *)
(*   edits        two fields that are edited one at a time                 *)
(*   files        two uploads and a backup; anything may be cut off        *)
(*   archives     three files, blocks of two bytes, paths that are cut     *)
(*   threads      two threads of the staff or of two contacts              *)
(***************************************************************************)
EXTENDS Team, RentalUnits, Attachments, Conversations, Integers, SequencesExt, TLC

CONSTANTS
    Parts,              \* the parts that the run looks at
    ann, bob, p1, u1, u2, l1, l2, s1, s2, d1, d2, d3, e1, none

VARIABLES
    part,
    section, def, fields,
    entries, archive, offset, unpacked, tar

\* Team on its own is about sessions: one address, and new passwords.
Operators == INSTANCE Team WITH
    Emails <- {ann, bob}, Passwords <- {"old"}, Slugs <- {"acme"}, SetupMode <- "multi",
    TeamRoles <- {"owner"}, MaxOperators <- 2, MaxUsers <- 2, MaxWaiting <- 2, MaxVersion <- 1

(***************************************************************************)
(* Assets.  RentalUnits on its own is about units that are moved between   *)
(* two buildings of two properties; here they are let, and held for        *)
(* maintenance.                                                            *)
(***************************************************************************)
Status == INSTANCE RentalUnits WITH
    Portfolios <- {}, Properties <- {p1}, Buildings <- {}, Units <- {u1, u2},
    Leases <- {l1, l2}, UnitStates <- {"maintenance_hold"}, MaxQueue <- 2

(***************************************************************************)
(* Fields: values of every kind, blanks and what looks like something else. *)
(***************************************************************************)
Dates == {"2026-01-31", "1970-01-01"}
ParseFloat == ("2026-01-31" :> 2026) @@ ("1970-01-01" :> 1970)
Shape == INSTANCE CustomFields WITH
    EntityTypes <- {}, Entities <- {}, TypeOf <- <<>>, Sections <- {}, NoSection <- none,
    Defs <- {}, Names <- {}, Types <- {}, Given <- {}, OptionSets <- {}, Dates <- Dates,
    ParseFloat <- ParseFloat, EpochDay <- "1970-01-01", stored <- fields
Red == Shape!Text("red")
Few == {Red, Shape!Numeral(2), Shape!Flag(TRUE)}
Some == {Red, Shape!Numeral(1), Shape!EmptyList}
Everything ==
    Few \cup {Shape!Null, Shape!Text(""), Shape!Text(" "), Shape!Text("on"),
              Shape!Text("2026-01-31"), Shape!Text("Infinity"), Shape!Numeral(1),
              Shape!Number(2), Shape!Number(0), Shape!Unbounded, Shape!Flag(FALSE),
              Shape!EmptyList, Shape!ListOf(Red), Shape!ListOf(Shape!Numeral(2)), Shape!Object}
Reds == {{Red}, {Red, Shape!Numeral(2)}}

Definitions == INSTANCE CustomFields WITH
    EntityTypes <- {"unit", "lease"}, Entities <- {}, TypeOf <- <<>>,
    Sections <- {s1, s2}, NoSection <- none, Defs <- {d1, d2, d3}, Names <- {"grade"},
    Types <- {"number", "select"}, Given <- Few, OptionSets <- {{Red}}, Dates <- Dates,
    ParseFloat <- ParseFloat, EpochDay <- "1970-01-01", stored <- fields
Values == INSTANCE CustomFields WITH
    EntityTypes <- {"unit"}, Entities <- {e1}, TypeOf <- (e1 :> "unit"),
    Sections <- {}, NoSection <- none, Defs <- {d1, d2}, Names <- {"grade"},
    Types <- {"string", "number", "currency", "boolean", "date", "select"},
    Given <- Everything, OptionSets <- Reds, Dates <- Dates,
    ParseFloat <- ParseFloat, EpochDay <- "1970-01-01", stored <- fields
FieldEdits == INSTANCE CustomFields WITH
    EntityTypes <- {"unit"}, Entities <- {e1}, TypeOf <- (e1 :> "unit"),
    Sections <- {}, NoSection <- none, Defs <- {d1, d2}, Names <- {"grade", "fee"},
    Types <- {"string", "currency", "boolean"}, Given <- Some, OptionSets <- Reds,
    Dates <- Dates, ParseFloat <- ParseFloat, EpochDay <- "1970-01-01", stored <- fields

Archives == INSTANCE TarArchives WITH
    Block <- 2, NameMax <- 2, PrefixMax <- 3, MaxEntries <- 2, MaxTotal <- 5, MaxFiles <- 3,
    Paths <- {<<"a">>, <<"a", "b">>, <<"a", "/", "b">>, <<"a", "b", "/", "b">>,
              <<"a", "/", "b", "/", "a">>, <<"a", "b", "a", "b">>},
    Contents <- SeqOf({<<"zero">>}, 3) \cup {<<<<"x">>>>, <<<<"x">>, <<"zero">>>>}

ASSUME /\ TeamAssumption /\ Operators!TeamAssumption
       /\ Status!RentalUnitsAssumption
       /\ Definitions!CustomFieldsAssumption /\ Values!CustomFieldsAssumption
       /\ FieldEdits!CustomFieldsAssumption /\ AttachmentsAssumption
       /\ Archives!TarAssumption /\ ConversationsAssumption

(***************************************************************************)
(* Behaviours.                                                             *)
(***************************************************************************)
fieldVars == <<section, def, fields>>
tarVars == <<entries, archive, offset, unpacked, tar>>

MCInit ==
    /\ part \in Parts
    /\ TeamInit
    /\ IF part = "status" THEN Status!RUInit ELSE RUInit
    /\ CASE part = "definitions" -> Definitions!CFInit
         [] part = "values" -> Values!CFInit
         [] part = "edits" -> FieldEdits!CFInit
         [] OTHER -> Shape!CFInit
    /\ AtInit /\ (part = "files" \/ database.quota = 3)
    /\ Archives!TarInit
    /\ CVInit

MCNext ==
    /\ UNCHANGED part
    /\ \/ /\ \/ part = "sessions" /\ TeamNext
             \/ part = "operators" /\ Operators!TeamNext
          /\ UNCHANGED <<ruVars, fieldVars, atVars, tarVars, convVars>>
       \/ /\ \/ part = "hierarchy" /\ RUNext
             \/ part = "status" /\ Status!DeliveryNext
          /\ UNCHANGED <<teamVars, fieldVars, atVars, tarVars, convVars>>
       \/ /\ \/ part = "definitions" /\ Definitions!CFNext
             \/ part = "values" /\ Values!CFNext
             \/ part = "edits" /\ FieldEdits!CFNext
          /\ UNCHANGED <<teamVars, ruVars, atVars, tarVars, convVars>>
       \/ part = "files" /\ AtNext
          /\ UNCHANGED <<teamVars, ruVars, fieldVars, tarVars, convVars>>
       \/ part = "archives" /\ Archives!TarNext
          /\ UNCHANGED <<teamVars, ruVars, fieldVars, atVars, convVars>>
       \/ part = "threads" /\ CVNext
          /\ UNCHANGED <<teamVars, ruVars, fieldVars, atVars, tarVars>>

\* The events of leases are delivered.
MCSpec ==
    /\ MCInit
    /\ [][MCNext]_<<part, teamVars, ruVars, fieldVars, atVars, tarVars, convVars>>
    /\ WF_ruVars(part = "status" /\ Status!Deliver)

(***************************************************************************)
(* Properties: those of the parts, put together.                           *)
(***************************************************************************)
\* One setup founds the platform and users are told apart, whichever requests
\* waited at the same time.  A live definition stands in a live section of its
\* own type or in none, and is alone with its name.  The database that a restore
\* overwrites is whole somewhere, unless the restore removed its WAL, and what an
\* archive gives back is what was packed.
RecordsAgree ==
    /\ part = "sessions" => TeamTypeOK /\ OneFounding
    /\ part = "operators" => Operators!TeamTypeOK /\ Operators!OneFounding
    /\ part = "definitions" => /\ Definitions!CFTypeOK /\ Definitions!SectionsAgree
                               /\ Definitions!OneDefinitionPerName
    /\ part = "values" => Values!CFTypeOK
    /\ part = "files" => NothingLost
    /\ part = "archives" => Archives!UnpacksWhatWasPacked /\ Archives!RefusedByLimitsOnly

\* Records agree.  What a write of fields leaves can be written again, blanks of
\* required fields aside; an import gives what a creation gives; an edit changes
\* nothing but the fields it names; no upload takes an operator above the quota
\* in force; and the activation of a lease reaches its unit.
WritesAddUp ==
    /\ []RecordsAgree
    /\ [][/\ part = "values" => Values!WritesAreStable /\ Values!ImportsAgree
          /\ part = "edits" => FieldEdits!EditsAddUp]_fieldVars
    /\ QuotaEnforced
    /\ Status!ActivationArrives
=============================================================================
