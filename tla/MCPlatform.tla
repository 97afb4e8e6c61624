----------------------------- MODULE MCPlatform -------------------------------
(***************************************************************************)
(* What the modules stand on, on small instances: the transactions of the  *)
(* database, its migrations, its backups and the restore of an operator's  *)
(* data.  A behaviour keeps to one part:                                   *)
(*                                                                         *)
(*   caught    nested calls whose errors callers may catch                 *)
(*   disk      nested calls, and errors that end the transaction           *)
(*   graphs    every graph of dependencies between three modules           *)
(*   growing   releases that grow, and starts that die half way            *)
(*   backups   backups and retention over three days, with crashes         *)
(*   upkeep    fewer of them, and whether they come to an end              *)
(*   restores  an export of two users, or of a property with its unit,     *)
(*             restored over later changes                                 *)
(*   again     two exports of the users with one address, over each other  *)
(*   slate     one export, a property with a unit                          *)
(***************************************************************************)
EXTENDS NestedTransactions, Backups, Migrations, OperatorRestore, Integers, TLC

CONSTANTS
    Parts,              \* the parts that the run looks at
    email, other, east, west

VARIABLE part

Disk == INSTANCE NestedTransactions WITH CallersCatch <- FALSE

(***************************************************************************)
(* Releases: every graph of three modules, with and without files; and     *)
(* releases of two modules that grow: more files, a new dependency, a      *)
(* module that had no files before.                                        *)
(***************************************************************************)
Upwards(a, b) == a < b
Downwards(a, b) == a > b
ListedUp(g) == [m \in DOMAIN g |-> SetToSortSeq(g[m], Upwards)]
ListedDown(g) == [m \in DOMAIN g |-> SetToSortSeq(g[m], Downwards)]

AllGraphs ==
    UNION {{[files |-> (0 :> 1) @@ f, deps |-> (0 :> {}) @@ g, listed |-> (0 :> <<>>) @@ list] :
               f \in [1 .. 3 -> {0, 1}], list \in {ListedUp(g), ListedDown(g)}} :
           g \in [1 .. 3 -> SUBSET (1 .. 3)]}

Manifest(first, second, firstDeps, secondDeps) ==
    [files |-> <<first, second, 0>> @@ (0 :> 1),
     deps |-> <<firstDeps, secondDeps, {}>> @@ (0 :> {}),
     listed |-> ListedUp(<<firstDeps, secondDeps, {}>>) @@ (0 :> <<>>)]
\* Its modules depend on each other.
Knot == Manifest(3, 2, {2}, {1})
Releases == {Manifest(1, 1, {}, {}), Manifest(2, 1, {2}, {}), Manifest(2, 0, {2}, {0}),
             Manifest(2, 2, {2}, {}), Manifest(3, 2, {2}, {0}), Knot}
AllReleases == AllGraphs \cup Releases

Graphs == INSTANCE Migrations WITH Manifests <- AllGraphs, MaxUpgrades <- 0
Growing == INSTANCE Migrations WITH Manifests <- Releases

Upkeep == INSTANCE Backups WITH MaxRecords <- 2, MaxDays <- 2

Again == INSTANCE OperatorRestore WITH
    Mailboxes <- {email}, MaxIds <- 5, MaxPlaces <- 0, MaxExports <- 2
Slate == INSTANCE OperatorRestore WITH
    Mailboxes <- {}, PortfolioIds <- {}, MaxIds <- 2

ASSUME /\ NestedAssumption /\ Disk!NestedAssumption
       /\ MigrationsAssumption
       /\ BackupsAssumption /\ Upkeep!BackupsAssumption
       /\ \A r \in Releases : Circular(r) <=> r = Knot

(***************************************************************************)
(* Behaviours.                                                             *)
(***************************************************************************)
MCInit ==
    /\ part \in Parts
    /\ NTInit
    /\ CASE part = "graphs" -> Graphs!MigInit
         [] part = "growing" -> Growing!MigInit
         [] OTHER -> Growing!MigInit /\ release = Manifest(1, 1, {}, {})
    /\ BackupsInit
    /\ RestoreInit

MCNext ==
    /\ UNCHANGED part
    /\ \/ /\ \/ part = "caught" /\ NTNext
             \/ part = "disk" /\ Disk!NTNext
          /\ UNCHANGED <<migVars, bkVars, orVars>>
       \/ /\ \/ part = "graphs" /\ Graphs!MigNext
             \/ part = "growing" /\ Growing!MigNext
          /\ UNCHANGED <<ntVars, bkVars, orVars>>
       \/ /\ \/ part = "backups" /\ BackupsNext
             \/ part = "upkeep" /\ Upkeep!BackupsNext
          /\ UNCHANGED <<ntVars, migVars, orVars>>
       \/ /\ \/ part = "restores" /\ RestoreNext
             \/ part = "again" /\ Again!RestoreNext
             \/ part = "slate" /\ Slate!RestoreNext
          /\ UNCHANGED <<ntVars, migVars, bkVars>>

\* The process is started again whenever it stops (Knot cannot start: the
\* assumption above) and a file does not fail for ever; turns go on; streams
\* and workers report in the end.
MCSpec ==
    /\ MCInit
    /\ [][MCNext]_<<part, ntVars, migVars, bkVars, orVars>>
    /\ WF_running(part = "growing" /\ ~running /\ release # Knot /\ running' = TRUE)
    /\ SF_migVars(part = "growing" /\ Apply)
    /\ WF_bkVars(part = "upkeep" /\ Upkeep!TurnStep)
    /\ \A n \in 1 .. 2 : SF_bkVars(/\ part = "upkeep" /\ n \in hashing
                                   /\ Upkeep!HashDone(n) \/ Upkeep!HashFails(n))
    /\ SF_bkVars(part = "upkeep" /\ Upkeep!VacuumEnds)

(***************************************************************************)
(* Properties: those of the parts, put together.                           *)
(***************************************************************************)
\* The database catches up with its release, and scheduled maintenance ends.
PlatformProceeds ==
    /\ <>[](part = "growing" => CaughtUp)
    /\ part = "upkeep" => Upkeep!MaintenanceEnds
=============================================================================
