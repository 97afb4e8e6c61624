------------------------------ MODULE Migrations ------------------------------
(***************************************************************************)
(* findMigrations, topologicalSort and runMigrations of                    *)
(* database/migrator.ts: every start of the process applies the files that *)
(* no start has applied before, in the order of the dependencies that the  *)
(* modules declare.  A file is the number of its module and its own.       *)
(***************************************************************************)
EXTENDS Naturals, Sequences, FiniteSets, SequencesExt

CONSTANTS
    Modules,            \* how many directories there are under modules/
    Manifests,          \* what a release may hold: functions of 0 .. Modules, the number of
                        \* files, the dependencies, and these as the manifest lists them
    MaxUpgrades         \* bound on the number of upgrades

Core == 0
Nodes == 0 .. Modules

VARIABLES
    release,            \* the release that is installed
    applied,            \* _migrations, in the order of the records
    plan,               \* what the running process has yet to apply
    running,
    upgrades            \* the releases installed so far

migVars == <<release, applied, plan, running, upgrades>>

MigrationsAssumption ==
    /\ Modules \in Nat /\ MaxUpgrades \in Nat
    /\ \A r \in Manifests :
          /\ r.files \in [Nodes -> Nat] /\ r.deps \in [Nodes -> SUBSET Nodes]
          /\ r.deps[Core] = {}
          /\ r.listed \in [Nodes -> Seq(Nodes)]
          /\ \A m \in Nodes : ToSet(r.listed[m]) = r.deps[m] /\ IsInjective(r.listed[m])

(***************************************************************************)
(* The order.                                                              *)
(***************************************************************************)
\* The elements of a sequence that are in a set (filter).
Among(s, S) ==
    LET kept[k \in 0 .. Len(s)] ==
            IF k = 0 THEN <<>>
            ELSE IF s[k] \in S THEN Append(kept[k - 1], s[k]) ELSE kept[k - 1]
    IN  kept[Len(s)]

WithFiles(r) == {m \in Nodes : r.files[m] > 0}

\* Only modules that have files bring in what they depend on.
Dependents(r, m) == {n \in WithFiles(r) : m \in r.deps[n]}
InDegree(r, m) == IF m \in WithFiles(r) THEN Cardinality(r.deps[m]) ELSE 0

\* Directories are read in the order of their names, the core's before them.
Ascending(S) == Among([k \in 1 .. Modules + 1 |-> k - 1], S)

\* A module enters the graph when it or a module that depends on it is met.
Entering(r, m) ==
    IF m \in WithFiles(r) THEN <<m>> \o Among(r.listed[m], r.deps[m] \ {m}) ELSE <<>>

GraphNodes(r) ==
    LET entered[k \in 0 .. Modules + 1] ==
            IF k = 0 THEN <<>>
            ELSE entered[k - 1]
                 \o Among(Entering(r, k - 1), Nodes \ ToSet(entered[k - 1]))
    IN  entered[Modules + 1]

FilesOf(r, m) == [i \in 1 .. r.files[m] |-> <<m, i>>]

\* One module leaves the queue and releases those that waited for it alone.
Dequeue(r, s) ==
    IF s.queue = <<>> THEN s
    ELSE LET m == Head(s.queue)
             waits == [n \in Nodes |-> IF n \in Dependents(r, m) THEN s.waits[n] - 1
                                       ELSE s.waits[n]]
             ready == {n \in Dependents(r, m) : waits[n] = 0}
         IN  [queue |-> Tail(s.queue) \o Ascending(ready),
              waits |-> waits, done |-> Append(s.done, m)]

FirstInLine(r) ==
    [queue |-> Among(GraphNodes(r), {m \in Nodes : InDegree(r, m) = 0}),
     waits |-> [m \in Nodes |-> InDegree(r, m)], done |-> <<>>]

\* Kahn's algorithm.
ModuleOrder(r) ==
    LET kahn[k \in 0 .. Modules + 1] ==
            IF k = 0 THEN FirstInLine(r) ELSE Dequeue(r, kahn[k - 1])
    IN  kahn[Modules + 1].done

Circular(r) == Len(ModuleOrder(r)) < Len(GraphNodes(r))

TopologicalSort(r) ==
    LET order == ModuleOrder(r)
        sorted[k \in 0 .. Len(order)] ==
            IF k = 0 THEN <<>> ELSE sorted[k - 1] \o FilesOf(r, order[k])
    IN  sorted[Len(order)]

(***************************************************************************)
(* The process.                                                            *)
(***************************************************************************)
\* Wrong: a start goes on after as many files as were applied.
StartByCount ==
    /\ ~running
    /\ ~Circular(release)
    /\ plan' = SubSeq(TopologicalSort(release), Len(applied) + 1, Len(TopologicalSort(release)))
    /\ running' = TRUE
    /\ UNCHANGED <<release, applied, upgrades>>

\* What was applied is read once; a circular dependency stops the process.
Start ==
    /\ ~running
    /\ ~Circular(release)
    /\ LET sorted == TopologicalSort(release)
       IN  plan' = Among(sorted, ToSet(sorted) \ ToSet(applied))
    /\ running' = TRUE
    /\ UNCHANGED <<release, applied, upgrades>>

\* The statements of a file and its record are one transaction.
Apply ==
    /\ running
    /\ plan # <<>>
    /\ applied' = Append(applied, Head(plan))
    /\ plan' = Tail(plan)
    /\ UNCHANGED <<release, running, upgrades>>

\* An error of the statements, or the process dies.
Halt ==
    /\ running
    /\ running' = FALSE /\ plan' = <<>>
    /\ UNCHANGED <<release, applied, upgrades>>

\* A release only adds files.
Upgrade(r) ==
    /\ ~running
    /\ upgrades < MaxUpgrades
    /\ \A m \in Nodes : r.files[m] >= release.files[m]
    /\ release' = r
    /\ upgrades' = upgrades + 1
    /\ UNCHANGED <<applied, plan, running>>

MigInit ==
    /\ release \in Manifests
    /\ applied = <<>> /\ plan = <<>> /\ running = FALSE /\ upgrades = 0
MigNext == Start \/ Apply \/ Halt \/ \E r \in Manifests : Upgrade(r)
MigSpec == MigInit /\ [][MigNext]_migVars

\* The container is started again whenever it stops (docker-compose.yml:
\* restart: unless-stopped), and a file does not fail for ever.
FairMigSpec == MigSpec /\ WF_migVars(Start) /\ SF_migVars(Apply)

(***************************************************************************)
(* Properties.                                                             *)
(***************************************************************************)
\* Every file is applied once, in the order of its module, however often the
\* process dies and whatever releases bring.
AppliedOnce ==
    /\ \A i, j \in DOMAIN applied : applied[i] = applied[j] => i = j
    /\ \A i \in DOMAIN applied : \A k \in 1 .. applied[i][2] - 1 :
          \E j \in 1 .. i - 1 : applied[j] = <<applied[i][1], k>>

\* When a file is applied the modules that its module names have theirs.
DependenciesFirst ==
    Apply => \A m \in release.deps[Head(plan)[1]] :
                ToSet(FilesOf(release, m)) \subseteq ToSet(applied)

\* The sort fails for the releases it has to fail for: where modules with
\* files wait for each other, so that none of them can be the first.
KnotIsRefused(r) ==
    Circular(r) <=> \E S \in SUBSET WithFiles(r) :
                        S # {} /\ \A m \in S : r.deps[m] \cap S # {}
CircularIsRefused == running => ~Circular(release)

\* What the database comes to: the files of its release are applied.
UpToDate ==
    \A m \in 0 .. Modules : ToSet(FilesOf(release, m)) \subseteq ToSet(applied)
CaughtUp == ~Circular(release) => UpToDate

\* A start that has come to the end of its plan has left nothing out.
NothingIsLeft == running /\ plan = <<>> => UpToDate

\* Files are applied once and in their order by the starts of exactly those
\* releases that can be sorted, every file after those of the modules that its
\* own module names, and a start leaves out none.
MigrationsApplyOnce ==
    /\ KnotIsRefused(release)
    /\ [](AppliedOnce /\ CircularIsRefused /\ NothingIsLeft)
    /\ [][DependenciesFirst /\ (release' # release => KnotIsRefused(release'))]_migVars

\* What a module depends on, through others too.
DependsOn(r) ==
    LET edges == {e \in Nodes \X Nodes : e[1] \in r.deps[e[2]]}
        closure[k \in 0 .. Modules + 1] ==
            IF k = 0 THEN edges
            ELSE closure[k - 1] \cup {e \in Nodes \X Nodes :
                     \E l \in Nodes : {<<e[1], l>>, <<l, e[2]>>} \subseteq closure[k - 1]}
    IN  closure[Modules + 1]
\* docs/modules/overview.md: the loader "executes unapplied migrations in
\* topological dependency order": what a module depends on comes before it.
\* Refuted: see the README.
TopologicalOrder ==
    [][Apply => \A m \in Nodes : <<m, Head(plan)[1]>> \in DependsOn(release) =>
                   ToSet(FilesOf(release, m)) \subseteq ToSet(applied)]_migVars
=============================================================================
