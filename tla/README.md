# Formal models of GarrisonOS

GarrisonOS is a property-management system: a Node.js process over one SQLite
file, with a double-entry ledger, vendor payables, bank deposits, leases and
trust money, client accounting, maintenance, backups and a web portal. This
directory holds TLA+ models of its core, the TLC configurations that check
them, and proofs that TLAPS checks. Every definition translates code under
`src/`; `PROJECT.json` names the lines each one stands for, the hazards of the
code and the properties that watch them.

    tlc -config MCLedger.cfg MCLedger.tla        one run
    tlapm JournalProofs.tla                      one module of proofs

## How the program executes

* One Node.js process; SQLite is called synchronously. An operation
  (`postEntry`, `issueCheck`, `createDeposit`, ...) validates and writes inside
  `withTransaction` (`src/database/client.ts`) and does not await in between:
  it commits all its writes or none. **One operation is one atomic action**,
  and the interleavings that matter are those of whole operations: two users'
  requests, a void of a document and a reversal of the same entry by its route,
  a deletion in between.
* What is *not* atomic gets an action per step. Loops that commit once per item
  (billing, schedules, recurring bills): a process may die between two items.
  What awaits (password hashes, file streams, subscribers, sockets): other
  requests run in between. Two writes to two places (a file and its row, a
  migration and its mark): a crash falls in between.
* Events live in memory: `publish` schedules the delivery with `setImmediate`,
  a restart loses what waits.
* All amounts are integer cents.
* Data belongs to an operator (tenant of the software). Most models are of one
  operator; accounts of another appear as `ForeignAccounts`, which lines may
  name and validation must refuse.

## Inventory

| Component (source) | State | Operations | What is hard, and what makes it correct | Model |
|---|---|---|---|---|
| General ledger (`accounting/backend/journal.ts`) | `journal_entries`, `journal_lines` | `postEntry`, `reverseEntry`, balances | everything posts and reverses here, and users do so by route at any time; entries balance, reversals are exact, unique and never made impossible by deletions | `Journal`, `AppendOnlyLedger` |
| Accounts payable (`ap.ts`, `checks.ts`, `vendor_credits.ts`) | bills, checks, credits, recurring templates, cost of work orders | create, update, approve, void, pay, apply, passes | paid amounts and statuses are caches of sums over checks and credits; account 2010 agrees with the subledger; a date is billed once | `AccountsPayable`, `RecurringBills` |
| Bank deposits (`bank_deposits.ts`) | `bank_deposits` | create, void, list | a receipt is deposited once; 1030 is the list of receipts that wait | `BankDeposits` |
| Chart of accounts (`chart_of_accounts.ts`, `api/server.ts`) | `accounts` | lazy seeding, create, update | seeding on every lookup, over charts that users edit and that three paths create | `ChartOfAccounts` |
| Transactions (`repository.ts`, `ledger.ts`) | `transactions` | create, delete, balances, Schedule E, backfill, 1099 | row and entry mirror each other, whichever is undone first; rows that are older than the journal get one entry each, and are counted in one of the two books | `Transactions`, `Backfill` |
| Recurring rent billing (`billing.ts`) | charges and references | charge a month | one transaction per charge: crash and retry must bill exactly the rest | `LeaseCharges` |
| Leases, late fees, trust (`leases/backend`) | `leases`, policies, deposits held | create, edit, activate, terminate; fees, concessions, refunds, dispositions | three records of one deposit, each changed by other operations | `Leases`, `LeaseCharges`, `LeaseTrust` |
| Client accounting (`client_accounting.ts`) | contributions, draws, agreements | contribute, draw, post fees | a draw is compared with cash that other operations spend | `ClientAccounting` |
| Maintenance (`maintenance/backend`) | work orders, vendors, schedules | create, update, assign, complete, trigger, passes | four operations write the status; policy against cash that moves; dates at the end of months | `WorkOrders`, `PreventativeMaintenance`, `Calendar` |
| Event bus, notifications (`core/`) | queue, dead letters; rows of the log | publish, subscribe, email, webhook | order through handlers that await, fail or never answer; restarts | `EventBus`, `OrderedDelivery`, `SmtpMail`, `Notifications` |
| Database client, migrations (`database/`) | depth of calls, savepoints, `_migrations` | `withTransaction`, migrate | one global depth decides between BEGIN and SAVEPOINT; order of dependencies; starts that die | `NestedTransactions`, `AtomicCalls`, `Migrations` |
| Backup and restore (`backup/backend`) | records, archives, flags | back up, vacuum, prune, delete, restore, pack | steps that await, a flag for exclusion, restores with foreign keys on | `Backups`, `OperatorRestore`, `Attachments`, `TarArchives` |
| Attachments (`attachments/backend`) | rows and files | upload, delete, restore, parse, sanitize | file and row are two writes; offsets into bytes | `Attachments`, `Multipart`, `Sanitizer` |
| Properties, units (`properties/backend`) | rows of the hierarchy, tags, marketing | create, move, delete, status by events, tags | references that other calls move; events that arrive later | `RentalUnits`, `Amenities` |
| Conversations (`conversations/backend`) | threads, participants, messages | create, add, hide, delete, list | who sees a thread is decided in two places | `Conversations` |
| Server, sessions (`api/`, `core/crypto.ts`) | users, operators, tokens, buckets | setup, provision, login, team, limits | check, await a hash, write | `Team`, `RateLimiter`, `FixedWindows` |
| Bulk, custom fields (`api/bulk.ts`, `core/custom-fields.ts`) | definitions and values; batches | define, write, edit, import; ingest | values outlive their definitions; a batch fails half way | `CustomFields`, `BulkIngestion` |
| Web portal, PDF, exports; scripts, seed data | none of their own | rendering, tools | - | not modelled |

Interactions. Payables, deposits, transactions, leases and client accounting
call `postEntry` and `reverseEntry` inside their own transaction. The routes of
the journal call them too, without telling the component that owns the entry:
the main source of disagreement between a subledger and the ledger. Bills roll
their cost up to work orders; completed work orders reach accounting, and
leases the units, over the event bus. Backups and restores work under
everything else.

## Modules

    Journal                   the ledger, implements AppendOnlyLedger
      AccountsPayable           bills, checks, credits     (EXTENDS Journal)
        RecurringBills            templates and passes
      BankDeposits              deposit slips
      Transactions              rows and their entries
        Backfill                  rows that are older than the journal
        Leases                    contracts
          LeaseCharges              billing, late fees, concessions
          LeaseTrust                deposits, refunds, dispositions
        WorkOrders                orders (with EventBus)
          PreventativeMaintenance   schedules and passes (with Calendar)
    EventBus                  implements OrderedDelivery
    NestedTransactions        implements AtomicCalls
    BulkIngestion             batches, keeps AtomicCalls
    RateLimiter               implements FixedWindows
    ChartOfAccounts  ClientAccounting  RentalUnits  Amenities  Migrations
    Backups  OperatorRestore  Attachments  Multipart  Sanitizer  TarArchives
    SmtpMail  Notifications  Team  CustomFields  Conversations
    JournalProofs  PayablesProofs  OperationsProofs  ServicesProofs
    MCLedger  MCLeasing  MCMaintenance  MCPlatform  MCTraffic  MCRecords

A component has its state as variables, one action per operation, its own
`Init`, `Next` and specification, its type invariant and its properties. The
modules indented under another extend it, so that a bill, a transaction or a
work order posts with the journal's own action inside its own.

### The ledger

`entries` is `journal_entries` with its lines, in order of insertion; an
entry's position stands for its id. A line has an account, a debit, a credit
and one reference (`property_id`, `unit_id`, ... are all members of `Refs`).
`liveRefs` are the references whose `deleted_at` is NULL. `WellFormed`,
`Resolves` and `Commingles` are the validations of `postEntry`; `ReverseEntry`
swaps the lines, posts them with `historicalReferenceMode` and marks the
original. `AppendOnlyLedger` is the promise: a step adds entries of effect zero
(one, or all those that a backfill finds to be missing) and changes no other,
or it adds one and marks another that was not undone, of which the new one is
the exact opposite.

`bills`, `checks` and `credits` are tables joined with their allocation rows; a
vector over the bills stands for the rows of a check or credit. `Pour` settles
allocations in their order, as both loops of `checks.ts` do. A void whose entry
was already reversed by hand posts nothing (`ReversePosting`), as in the code.
`RecurringBills` adds templates; a pass commits a bill and the next date
together, one template a step.

`deposits` are slips with a vector of the cents taken from each entry.
`BatchLine` is the one line that `createDeposit` reads of a receipt: SQLite
gives no order, the model takes the first one stored.

`transactions` are rows with the id of their entry. `Inputs` range over the
seven types and over requests that are refused. `Backfill` starts with rows
that have no entry, as the migration to the journal leaves them;
`backfillLegacyTransactions` posts all that are due in one transaction, in the
order of their dates, and `VendorTotal` is what the 1099 report adds up from
both books. `chart` is `accounts`;
`EnsureDefaultAccounts` inserts defaults whose number is missing.

### Leasing

`leases` are contracts; a PUT replaces any column, status and deposit included.
`run` is the billing loop in progress: its month and the leases and charges it
has still to do; `ChargeItem`, `SkipItem` and the failures are what the loop
does with one, and `Crash` ends it between two. `LeaseTrust` changes the same
money in `deposit_held_cents`, in 1020/2100 and in single entries, each by the
operations that do. `recorded` is history: what was ever entered as a deposit.

`RentalUnits` has the rows of properties, buildings and units with their soft
deletions; deleting a building detaches its units, deleting a property touches
neither. Lease routes publish, `events` wait, `Deliver` is the subscriber.
`asked` is history: the status last asked for. `Amenities` has the two catalogs
that write the same junction tables. `ClientAccounting` has the cash lines of
the ledger by property, day and kind, and the operations on owners' money;
`Uses` names the operations a run has.

### Maintenance and events

`queue` are emissions that `setImmediate` scheduled, `running` subscribers that
await, `deadLetters` the list of failures. `fates` and `failures` are history.
`WorkOrders` posts its expense when the bus delivers a completion, in the
transaction of the subscriber. `StatusUnderPolicy` is `evaluateSpendPolicy`
over the cash that the ledger has for the portfolio. `PreventativeMaintenance`
computes due dates on the calendar of `Calendar` (months of a year with their
lengths), clamped as `Date` is clamped by the code.

### Platform, traffic and records

`NestedTransactions` has SQLite's frames (one BEGIN, savepoints above it), the
global counter, and callers that may catch; a failing COMMIT or RELEASE is a
choice. `Migrations` has the graph of modules with the walk that orders them,
and starts that apply file by file. `Backups` has the awaited steps of a backup
(dump, hash, record), the scheduler's turn and its flags; an archive of a
backup that failed may stay on the disk. `OperatorRestore` has four tables:
users and the grants that name them stand for those with a natural key and for
those with a unique index and a foreign key alone, properties and units for
tables whose rows are named by a table of a later name.
`RateLimiter` has buckets and the sweep. `BulkIngestion` writes items one by
one inside a transaction. `Multipart` and `Sanitizer` advance an offset over
bytes, one part or segment a step. `SmtpMail` has the dialogue line by line: a
chunk of lines arrives on a socket and is handled in one loop, over that socket
also where a line in between starts TLS. `Notifications` has the webhook with
the settings read before and the row written after. `Attachments` has the two
writes of each operation and a backup and restore of files and database, which
is a file and its WAL: `database` is both, `main` the file alone, to which a
checkpoint, or the script that removes the WAL, takes the rest of them.
`TarArchives` has the blocks, paths and limits of the format. `Team` keeps every request that waits for a hash in `waiting`.
`CustomFields` has values of every JSON kind (a list of one value prints as
that value, an empty one as nothing), their formatting per type, what JSON
stores of it, and merging. `Conversations` has both rules of visibility.

## What is composed

The models of one area are checked side by side: an `MC` module declares the
variables of its area once, instantiates each component (some twice, with other
constants) and lets a behaviour keep to one `part` of it. The disjunct of
another part leaves its variables alone, so that the states of a run are the
sum of those of its parts and not their product. Where components really
interact, they do within a part: bills, credits and users' reversals over one
journal (`payables`, `voids`), receipts and deposits (`bank`), transactions and
journal (`transactions`), old rows, their backfill and new ones (`legacy`),
billing, payments and fees over transactions over the journal (`billing`,
`recurring`, `fees`, `trust`), events of the bus, orders, schedules and the
ledger (`expenses`, `policy`, `schedules`), recurring bills over payables over
the journal (`templates`), attachments, quota, backup and restore (`files`),
batches and nested transactions (`leases`, `amenities`). `AccountsPayable` is
extended by `MCLedger`, `LeaseCharges` and `LeaseTrust` by `MCLeasing`,
`WorkOrders` by `MCMaintenance` and `RentalUnits` by `MCRecords`: what they and
the journal and bus under them promise is checked in every part that uses them,
that is to say of every writer.

## Runs

| Run | Parts | What it shows |
|---|---|---|
| `ledger` | `journal` `payables` `voids` `bank` `chart` `transactions` `rows` `legacy` `templates` | `IsAppendOnlyLedger`, `EntriesBalanced`, `ReversalsCancel`, `AlwaysReversible` whoever writes; `PayablesAgree`: what bills, checks and credits say is what was paid, what the journal has and what 2010 shows; `SubledgersAgree`: so are slips, rows and old rows, vendors' totals count a payment once, and charts are seeded once; `DocumentsFrozen`; `TemplatesKeepTerm`: a template bills each of its dates once, within its term |
| `leasing` | `billing` `recurring` `fees` `trust` `amenities` `draws` `portfolio` `checks` `management` | `ChargesAgree` (`ChargedOnce`) and `RunBillsEveryLease` through crashes and retries, `RunEnds` (liveness); `DepositsAgree` (`NeverReturnedTwice`); `LeaseLedgerFollowsRows`: rows of leases and the ledger; `TagsAgree`; `OwnersGetTheirs`: draws are covered and fees follow rent |
| `maintenance` | `bus` `expenses` `policy` `assignments` `schedules` `templates` | `BusAgrees` and `DeliversInOrder` through waits, failures and restarts; `ExpensesMatchCompletions`; `OrdersKeepPolicy`; `PrimaryIsAssigned`; `DatesGenerateOnce`, `NoDateSkipped`; `MaintenanceProceeds` (liveness) |
| `platform` | `caught` `disk` `graphs` `growing` `backups` `restores` | `CallsAreAtomic` (refinement of `AtomicCalls`); `MigrationsApplyOnce` on every graph of three modules; `BackupsAgree` against crashes; `RestoresWhole` |
| `proceeds` | `growing` `upkeep` | `PlatformProceeds` (liveness), on smaller instances |
| `traffic` | `limits` `amenities` `leases` `bodies` `images` `bytes` `mails` `webhooks` | `LimitsWindows` (refinement of `FixedWindows`); `BatchesAreWhole` (with the refinement of `AtomicCalls`); `TrafficAgrees` (bytes, mails, feeds); `RowsTellTheTruth`; `TrafficProceeds` (liveness) |
| `records` | `sessions` `operators` `hierarchy` `status` `definitions` `values` `edits` `files` `archives` `threads` | `SessionsKnowPassword` with hashes that are awaited at once; `BuildingsAgree`, `SettledStatus` of units; `WritesAddUp` (fields, founding, quota, events that arrive); `RecordsHaveFiles`, `RestoredWhole` with crashes between file and row; `ThreadsAgree` |
| `commingling` `split_receipt` `provisioned` `three_way` `clean_slate` | one each | a statement of a document or comment that the code does not keep; see Findings |

A property of an `MC` module is the conjunction of those of its parts, each
guarded by its part; the comment above it says what they say together. Every
property was seen to fail when the code is changed the way a bug would change
it: the list `mutants` of `PROJECT.json`.

### Bounds, and why they are enough

* *Ledger*: three references, eight accounts with one or more of each class
  that the checks know, and one of another operator; lines that are accepted,
  and one list for each way to be refused. Four entries let an entry be
  reversed, its reversal reversed, and another document follow; the longer
  parts have five. Two bills of one and of two allocations, two checks and a
  credit are the least with which a bill is paid from three sources and a check
  pays two bills; amounts of one and two cents make a payment partial. Two
  deposits make a receipt batched, voided and batched again.
* *Leasing*: two leases and two months for a run that fails half way and is
  repeated; late fees of a policy of the property, of a default one and of the
  lease's own terms, on the last day of grace and the day after; deposits of up
  to three cents for partial refunds with a deduction above what is left. Days and months of client accounting are
  two or three: the day before, on and after a limit.
* *Maintenance*: four events with two dead letters overflow the list; due dates
  on the 31st pass through February; passes run on dates that leave none, one
  or several dates due. Orders cost 0, 1 or 2 against a threshold of 1, and move
  between a property of the portfolio and one that has none.
* *Platform*: all graphs of three modules with and without files, their
  dependencies listed upwards or downwards; three nested
  calls have an inner one between two outer ones; three backups with a
  retention of a day over three days have old, new and failed ones.
* *Traffic*: windows of different lengths with limits of one to three; two
  emails to tell that one failure does not touch another, to one server that
  answers each command in turn and one that may send three lines at once, the
  least with which a login goes out without TLS; bytes are those that
  the scanners compare, with one that they do not; every file of four such
  bytes and longer files built from whole stretches.
* *Records*: three requests that wait for a hash, with two passwords; two
  properties, buildings and units, to move something to where it does not
  belong; every type of field against every kind of value, dates and `Infinity`
  among the texts that `parseFloat` reads; uploads of one and two bytes at,
  below and above a quota of two or three; archives of paths and contents at, below and above a block or a
  field.

Deadlock is not checked: every instance stops where its bounds are reached, and
the system itself is idle when nobody asks for anything.

### Fairness, and what justifies it

Safety is checked without. For liveness, weak fairness is assumed of what the
process does by itself and of nothing that users do:

* the loops of billing, of passes and of parsers (`RunStep`, `PassStep`,
  `ParsePart`, `SanNext`, `Step`): synchronous code that runs on once it
  started;
* delivery of events (`Deliver`, `Emit*`, `Resume`): Node's event loop reaches
  every `setImmediate`, and a subscriber's promise settles. A crash is always
  possible and never required, so that conclusions read "or the process
  stopped";
* `TimePasses` and the timers of SMTP and webhooks (`Timeout`, `FailedOrLate`):
  timers fire; `HandleLine`: a loop over the lines of a chunk goes on;
* a stream or worker reports (`HashDone`/`HashFails`, `VacuumEnds`): strong
  fairness, since a crash and a new request may disable it in between;
* the process is started again (`growing`), and a migration file that can be
  applied does not fail for ever: strong fairness of `Apply`, again because of
  crashes. A release whose modules depend on each other in a circle never
  starts, and is left out of the conclusion by name (`Knot`).

## Findings

Disagreements between a document or comment and the code, each shown by a run
whose property states what the document says; the quotations are in
`PROJECT.json`.

* **`commingling`**: `docs/modules/accounting.md` says that the engine rejects
  an entry that deposits tenants' money into operating cash. `postEntry` only
  refuses lines on the trust bank next to operating accounts, and Dr 1010 / Cr
  2100 passes.
* **`split_receipt`**: a receipt with two lines to 1030 is deposited for one of
  them and leaves the list with the other still in 1030.
* **`provisioned`**: an operator created by provisioning has 2010 as a deposit
  liability, so vendor payables are posted to it.
* **`three_way`**: a deduction from a deposit lowers 2100 and leaves the cash
  in 1020; the parity that three-way reconciliation audits fails after any
  damage.
* **`clean_slate`**: a clean-slate restore empties the tables in the order of
  their names with foreign keys on: properties before the units that name them.
  It fails for every operator that has a unit, at the first table that another
  one of a later name refers to.

More statements were found not to hold while the models were written. They
stand in their modules, marked `Refuted: see the README.`; each was seen
violated in the area's instance when it was added to its configuration:

| Statement (module) | What the code does |
|---|---|
| `BalanceFormulasAgree` (Transactions) | the balance shown is the journal's, where a refund raises and a deduction lowers it (`ledger.ts:63`); the exported statement adds otherwise |
| `DeletionUndoes` (Transactions) | deleting a row skips an entry that was reversed, also where the reversal was reversed in turn (`repository.ts:418`) |
| `CashBasisWithoutIncome` (Transactions) | Schedule E counts payments as income whenever accrued income sums to zero (`repository.ts:588`) |
| `LegacyCounted` (Backfill) | migration 0004 adds `lease_id` and posts nothing, though `CHANGELOG.md` says that it backfills; until a user asks for it, the first new charge of a tenant hides the old ones (`repository.ts:474`) |
| `AllOrNothing` (LeaseCharges) | a lease that cannot be charged stops the run after others were (`billing.ts:131`) |
| `HeldIsCollected`, `DispositionSettles` (LeaseTrust) | an inflow leaves `deposit_held_cents`, and a disposition leaves unpaid rent and 2100 (`repository.ts:271`, `:640`) |
| `EditorSaves`, `ListIncludesInherited`, `ListRespectsExclusions` (Amenities) | the editor's ids violate the foreign key; the list reads the unit's rows only, and not `is_excluded` (`properties/backend/repository.ts:1100`) |
| `GeneratedOrdersAreFunded` (PreventativeMaintenance) | a schedule's order is inserted without the spend policy (`maintenance/backend/repository.ts:1769`) |
| `DispatchEligible`, `DispatchFromDispatchable`, `PublishedPerTransition` (WorkOrders) | papers are not asked for when an order is created with a vendor; a completed order can be assigned; completing twice publishes twice (`:661`, `:824`, `routes.ts:124`) |
| `TopologicalOrder` (Migrations) | a dependency through a module without files is not in the graph (`migrator.ts:20`) |
| `MergeSucceeds`, `MergePreservesNew` (OperatorRestore) | grants have no natural key, so that two of one key meet in a unique index and a merge gives back a grant that was withdrawn; a new user gives way to a deleted one (`service.ts:524`, `:559`) |
| `NoMetadataAnywhere` (Sanitizer) | everything after the first scan is kept (`sanitizer.ts:78`) |
| `FailureIsContained`, `FailedIsUndelivered` (SmtpMail) | the upgraded socket has no handler of errors; a lost answer to QUIT makes a sent mail failed (`notifications.ts:227`, `:303`) |
| `NothingInClear` (SmtpMail) | all lines of one chunk are answered over the socket it came over: a server that sends the answers to STARTTLS, EHLO and AUTH in one chunk gets user and password without TLS (`notifications.ts:187`, `:251`, `:257`) |
| `DeletedIsGone` (Attachments) | errors of the removal of a file are ignored (`attachments/backend/service.ts:187`) |
| `CommitsSurvive` (Attachments) | the script removes the WAL before it copies the database aside: what a process that died had committed to the WAL only is in no copy (`scripts/restore.js:165`, `:177`) |
| `ArchivesUnpack` (TarArchives) | the reader has limits that the writer does not know (`tar.ts:217`) |
| `RoleChangeRevokes`, `NobodyOfDeletedOperator`, `SoleOwnerStays` (Team) | a new role keeps old tokens; a user is inserted after a wait in which the operator was deleted; DELETE managers does not count owners (`server.ts:1037`, `:874`, `:1337`) |
| `MessagesAreAnnounced`, `ThreadsAreServed` (Conversations) | the first message is announced to nobody; the routes keep a handle that a restore closes (`repository.ts:260`, `routes.ts:51`) |
| `RequiredIsKept` (CustomFields) | a required field may be given `[]`, which prints as nothing, or an amount of `Infinity`, which JSON stores as null (`custom-fields.ts:672`, `:690`, `:851`) |
| `BooleansAreStrict`, `ValuesAreRetained` (CustomFields) | any word is a false boolean; the next edit rewrites a value whose field was defined anew (`custom-fields.ts:708`, `:834`) |

Read from the code and not stated in a model: proration rounds `rent / days` as
a double before it is multiplied (`billing.ts:29`); grace that ends after the
month is never over (`leases/backend/repository.ts:928`); retention looks at
the scheduler's operator only (`backup/backend/repository.ts:206`); the rate
limiter calls its fixed windows sliding (`middleware.ts:315`); PUT of a lease
or of an order changes a status without an event
(`leases/backend/routes.ts:62`, `maintenance/backend/repository.ts:800`). In
client accounting, vendor checks name no property and leave cash as it was, a
draw may be dated before an expense, a moved property takes its history along,
reversed contributions and reversed rent still count, and two agreements may
charge the same rent (`client_accounting.ts:374`, `:544`, `:552`, `:586`,
`:872`, `:936`). `DrawsAreCovered` and `FeesFollowRent`, within
`OwnersGetTheirs`, are therefore stated for the operations under which they
hold, which `Uses` names.

## What is proved

TLAPS checks six modules with proofs, for every value of the constants that
meets the named assumption of the component. In each, the invariant that is
inductive is stated first, then one lemma per action, then the theorems.

**`JournalProofs`** (from `JournalAssumption`: the chart is a table, hence
finite, the classes of accounts are accounts, those of other operators are not,
what users submit are sequences of lines). The inductive invariant `JournalInv`
is `TypeOK`, consecutive numbers, `EntriesValid` (the stored lines pass the
checks of a reversal) and `ReversalsPaired`. `TypeCorrect` and `Balanced` are
parts of it. `Reversible` says that a posted entry can always be
reversed, whatever was deleted: it needs `EntriesValid`, because `reverseEntry`
validates again, that `Commingles` is symmetric in the sides of a line, and
that a swap keeps totals. `Refines` is the refinement `IsAppendOnlyLedger`. A
step of the journal is one of the promise because of `ReversalsPaired` and
because the effects of balanced lines on all accounts sum to zero; the sum is
over a chart of any size. Sums over sequences and over sets of accounts need
induction, which is replaced by a least counterexample: every non-empty set of
naturals has a least member, and of the sets of accounts on which a sum is
wrong one has the least cardinality. `Cancels` adds to `ReversalsPaired` that
the balance of each account is the sum over the entries that are no reversals
and stand (`Stands`: not reversed, or by one that does not stand). It needs
nothing more of the state, but two facts about sums: what stands is, per pair
of an entry and its reversal, one of both or none, which the recursion of
`Stands` from the last entry back gives; and entries may be summed in another
order, each reversal at the place of its original (`Reindexed`, from rows
against columns of a table, `SumsSwap`).

**`PayablesProofs`** (from `PayablesAssumption`: 2010 is an account and not the
trust bank, requests name vendors and accounts and have positive amounts, the
bounds are naturals). `APInv` says that the rows are typed; that each bill's
paid amount is what its lines are settled for and what the checks and credits
in force put on it, no line above its amount, with the status that belongs to
it (`SettledIs`, `PaidBy`); that credits are conserved; that every entry posted
for a document names a row that exists (`Documented`); and that documents and
entries match. The last needs the one before it: a new document finds no entry
that carries its id. A payment is poured over the lines of a bill, `k` taking
what the lines before it left over, and what is poured adds up to the payment.
That sum is proved without induction: the running totals of what is poured are
the running totals of the room, cut off at the payment. A void takes back what
its check put on each bill, which is at most what was paid, because the check
is one of the terms of `PaidBy`. `PayablesCorrect` (which is
`PayablesAgree`), `PayablesFollow` (which is `DocumentsFrozen`) and
`PayablesRefine` follow.

`PayablesAgree` contains the control account: 2010 owes vendors what bills in
force are short of, less what remains of credits. The invariant for it is
`BooksInv`: an entry has for ever the lines of the document that it names,
though bills are edited until they are approved (`FromDocument`). Then the
balance is a sum over standing entries (`Cancels`), which is one over documents
in force, since each has one entry (`DocumentTotals`); and what was paid, bill
by bill, is what checks and credits paid, document by document
(`PaymentsAgree`: the sum over rows is the sum over columns). Two premises are
the code's: `DocumentsStand`, that no user has reversed an entry of a document
in force, and `OnlyDocumentsOwe`, that 2010 is not used by hand or as the
expense of a bill; the API refuses neither.

**`PayablesProofs`, bills that recur** (from `RecurringBillsAssumption`).
`TemplatesKept` is `TemplatesKeepTerm`. `RBInv` says of every bill that was
generated that its date is before the next one of its template, so that none
comes twice, and of a template with a number of occurrences that those billed
and those that remain are the number registered. `TemplatesRefinePayables` maps
each step of a pass to a request or to none, and what is proved of payables
carries over (`RecurringKeepsPayables`).

**`PayablesProofs`, money of owners** (from `ClientAccountingAssumption`). The
conjuncts of `OwnersGetTheirs` for any portfolios, amounts, lengths of month and
numbers of days: `CashAvailable` (`AvailableIsCash`), `DrawsCovered`
(`DrawsAreCovered`) and `FeesFollow` (`FeesFollowRent`). The code adds rows of
contributions and draws to lines of the journal that are neither. `OwnersInv`
says that rows add up to what their own entries say, by portfolio and up to
every day (`CapitalPosted`), and that such an entry belongs to the portfolio of
its row. Entry by entry, cash and what goes out are then what comes in, and
`TotalAdd` makes it one of sums (`CashIs`). Each premise is one of the
operations that break the property in the code, by the name `Uses` has for it:
properties with capital that move (`OwnersStay`), checks, draws of an earlier
day and reversals of what names no property (`DrawsInOrder`), and for fees any
reversal.

**`Calendar`** holds the lemmas on dates that this and the schedules need: a
later month, or a later day of one, has a higher `DayNumber` (`LaterDate`),
numbers and dates are inverse (`DateOfNumber`), and what `AddMonths`, `AddDays`
and `NextSeason` return is a date, later, and in the month that the cadence
says, whatever the day was clamped to.

**`OperationsProofs`, bank deposits and transactions** (from
`DepositsAssumption` and `TransactionsAssumption`:
the accounts that the code looks up are in the chart and are not the same one;
amounts and leases of requests are integers and references). `BDInv` says that
every deposit has one entry that moves its total, reversed if the deposit is
voided, and that what a deposit takes is a receipt that no other one takes;
`CreateDeposit` keeps the second because it batches what the list of receipts
shows. `Deposited` and `DepositsPosted` follow. `TxInv` ties rows and entries
in both directions, and `RowsMirrored` follows. In both, other writers are
covered by one lemma about steps that add or link entries and change the
source, document and lines of none (`Kept`). `DepositsRefine` and
`TransactionsRefine` carry the promise of the journal over to the modules that
write in it: each of their operations is a step of `AppendOnlyLedger`.

`BackfillsMirrored` (from `BackfillAssumption`, in which a table that is older
than the journal may hold any rows of its columns) weakens `TxInv` to `BFInv`:
only a row that has an entry is its mirror. A backfill posts all rows that are
due at once; that each gets the entry of its own turn rests on `PlacesAre`: the
places of the rows that are due are the numbers from one to how many there are,
each that of one row.

`DepositsTieOut` says that 1030 holds what the list of receipts shows, on two
premises about users that the API does not enforce: deposits stand
(`DepositsStand`: none is reversed by hand, nor a receipt in one) and receipts
are whole (`WholeReceipts`: one line to 1030, and only deposits credit it);
`split_receipt` shows that the second matters. `BatchesInv` adds to `BDInv`
that a deposit took the amount of a line that each receipt still has, and that
its entry takes from 1030 what it puts on the bank. The balance is then a sum
over entries that stand (`Cancels`): each receipt is listed, or taken by the
one deposit in force it is in, and deposits by receipts is one table summed by
rows and by columns (`SumsSwap`).

**`OperationsProofs`, charges** (from `ChargesAssumption`: months and amounts
are integers, a month has a day, and policies and charges of requests have the
columns of the schema). A month is billed by a loop that may fail or die after
any charge and is run again; that a charge is billed once needs more than the
test before it. `RowsTell` says of every row that its reference is of its lease
and of a month, and that two rows with the same reference are not both in force
(or, for a late fee, are one row); `RunTyped` that what the run has still to do
is of its month; `RunCovers` that every charge of a lease that the run has
passed exists or is still to be made. With `TxInv` they are inductive.
`OnceCharged` (which is `ChargesAgree`) and the action property `RunsBill`
follow, and `ChargesRefine` carries the promise of the journal over.

**`OperationsProofs`, deposits of tenants** (from `TrustAssumption`, in which
no user enters a `deposit_return` as a transaction: the routes of leases do).
`ReturnedOnce` bounds what is held and what was returned by what was ever
recorded. `TrustInv` has the bound for every lease, and another for what was
returned alone, since a PUT of the lease may lower the deposit at any time. A
refund moves cents from one term to the other; a disposition adds a row for
each deduction and one for the rest, and only the last counts as returned, so
that the sum is compared over a table that grows by several rows at once
(`TotalPadded`). `DepositsMirrored` says that rows and entries still mirror
each other. A disposition is several steps of `AppendOnlyLedger` in one
transaction and hence none of its steps: that it stays append-only is
`DepositsMirrored` and the checks of the run. `DepositsHold` adds the types to
`ReturnedOnce`; that no deposit is negative has the premise `NoneNegative`,
since the API takes a contract with any deposit.

**`OperationsProofs`, what tenants owe**. `LedgerOfCharges` and
`LedgerOfDeposits` state `LeaseLedgerFollowsRows` for the two specifications:
for each lease, a sum over all lines of the ledger equals a sum over the rows
that are left. The equation alone is not inductive, because a deletion takes
the share of one row from one sum and adds a reversal to the other, and the two
are equal only if that row's entry moved exactly its share and was in force.
`Standing` adds this for every row that is left (`Carries`). A step then either
appends rows and entries in pairs that carry (`StandGrow`: `Transfer` puts the
share of its row on the receivable, `SidesAre` for each type), or reverses one
pair (`StandDelete`), or posts nothing. The premises `ReceivableApart` and
`ChargesApart` say that requests do not name the receivable as the other side
of their own transaction, be it as category, as account of a recurring charge or as
account of a concession, and that the mapping gives it to no other category; the API does not
refuse a request that does, and its entry would put on the receivable what is
not the share of its row.

`LedgerOfRows` and `LedgerOfOldRows` state the equation of `Transactions`
(`LedgerFollowsRows`) while entries are reversed through their rows only,
without and with rows that a backfill posts. In place of pairs that are
appended, `RowsInv` says what backfills and deletions leave of any table: the
entry of a row moves the row's lines, and is in force if the row is live
(`Moves`), and every entry is that of a row or undoes one (`OfRows`). What
entries move on accounts is then a sum over entries and rows as one table, by
rows and by columns (`SumOfRows`), whatever order a backfill posted them in.
The premises are `ReceivableApart` and, of old rows, that none has the category
`accounts_receivable`, which the schema does not allow. `PaymentsReported` is
the same sum over the accounts of expense: what the journal has of a vendor is
what the live rows that have an entry paid, so the report, which adds the rows
that have none, counts each once. Its premise is `PayeesApart`: a row that names
a payee debits an account of expense just if it is an expense, and credits none;
a chart that maps an expense elsewhere loses it from the report once it is
posted.

**`OperationsProofs`, event bus and work orders** (from `EventBusAssumption`, a
positive limit of dead letters, and `WorkOrdersAssumption`). `BusInv` is the
conjunction of the types, `QueueInOrder` and `LatestFailures`. `QueueInOrder`
ties the queue and the running subscribers to the fate of every event, which is
what keeps one from being started or settled twice. `Implements` shows by step
simulation that the bus refines `OrderedDelivery`: `publish` is a send, an
emission a start that may settle at once, `Resume` a settlement, a restart a
stop. `ExpensesBooked` is `ExpensesMatchCompletions`: `EMInv` counts, per order
and amount, the events that were handled and the rows of the ledger, which one
step changes together. `PolicyKept` is the action property of the spend policy.
`PrimaryAssigned` is `PrimaryIsAssigned`, for orders that get their vendors by
assignment (`AssignmentSpec`): a vendor that is assigned again moves to the end
of the list, one that is taken off leaves it, and what is left has no vendor
twice.

**`OperationsProofs`, schedules** (from `PreventativeAssumption`).
`SchedulesGenerate` is `DatesGenerateOnce`. `PMInv` has for schedules what
`RBInv` has for templates (`GeneratedBefore`); the action properties follow
from the lemmas of `Calendar`, and that a pass serves whatever was due from
what its steps take off it.

**`OperationsProofs`, batches of items** (from `BulkAssumption`: an item has a
number of parts, of which at most one is refused). That a batch is whole is
not inductive while it is written. `Progress` in `BulkInv` says what each part
of the handler has written: the rows of `Earlier` items in the transaction of
the batch, the parts in `Own` in the item's level of it, and of every earlier
item that nothing of it was refused. So what `Commit` stores is `AllRows` of
the batch, what `Rollback` drops is everything written for it, and the item an
error names is one that could not be stored. `StoredWhole` adds that nothing
of the batch at hand is stored before `Commit`. `Ingested` states both halves
of `BatchesAreWhole` for batches of any number of items: the states agree, and
the handler refines `AtomicCalls`.

**`ServicesProofs`, rental units** (from `RentalUnitsAssumption`: `None` is no
portfolio and no building). `Housed` is `RUSpec => []BuildingsAgree`; with the
types it is inductive, since a building lets go of its units when it is
deleted, nothing moves a building, and every write of a unit compares the two
properties. `Settled` says that once events are delivered a unit has the status
last asked for, if users edit it while none waits (`Unhurried`): an edit
between the publication and the delivery is overwritten by it. That is not
inductive: `LastAsked` says of every event in the queue that is the last about
its unit that its status is the one asked for, and of a unit about which
nothing waits that it already has it.

**`ServicesProofs`, nested transactions** (from `NestedAssumption`: calls may
nest to some depth). `NTInv` relates the global counter, the calls and SQLite's
savepoints: there is one savepoint for each inner call, and it holds what the
calls around it had written; once SQLite has ended the transaction by itself,
nothing is left of it and an error is on its way out of all calls.
`CountsCalls` is the counter, and `Atomic` the refinement of `AtomicCalls` at
any depth, with commits that fail.

**`ServicesProofs`, sessions and limits** (from `TeamAssumption` and
`RateAssumption`). `TeamInv` says of each request that waits for a hash what is
still true of what it read (`Prepared`), and of each token that, if its version
is still the user's, it was given for the user's password. `Sessions`,
`FoundedOnce` and the absence of two users of one address follow. `RLInv`
bounds every bucket; `Windowed` refines `FixedWindows`, where a bucket that ran
out and one that the sweep removed are the same window.

**`ServicesProofs`, attachments** (from `AttachmentsAssumption`). An upload has
one size for ever, in files, records and archives (`Sized`); `Changing` and
`Steps` say what the operation in progress has already done. `Downloadable`,
`Recoverable` and `Restored` follow, the last an action property. `Recoverable`
is `NothingLost`, which makes one exception: where the script finds commits
that are in the WAL only, it removes them before it copies the rest aside, and
`CommitsSurvive`, which does without the exception, is refuted.

**`ServicesProofs`, backups and maintenance** (from `BackupsAssumption`: the
scheduler works for an operator, and retention is a day or longer).
`BackupsAgree` speaks of states between turns; the invariant, `BackupsInv`, has
to follow a turn. `ArchivesFollow` says where a record is ahead of the disk or
behind it (its archive is being written, or was unlinked and is not marked
yet), so that a crash there is what `interrupted` remembers. `UnderWay` says
that a backup whose checksum is not computed is pending and of today or
yesterday: with it, the scheduler's backup that completes is younger than each
row its retention selects, so each of them is `Outlived`, and stays so however
later backups end or are deleted (`OutlivedStays`). `PruningHeld` keeps the
scheduler's flag until the last of them is marked. `BackupsSound` follows.

**`ServicesProofs`, migrations** (from `MigrationsAssumption`: a number of
modules, and releases that name files and dependencies of them). `Migrated` is
`MigrationsApplyOnce`. The order of a release is a loop over modules that wait
for none; what it returns is proved without induction over data, by the first
round in which a claim about the order fails: what was laid has every
dependency before it (`NextInTurn`), nothing is laid twice, and modules are
left over only if each of them waits for another (`CircularIs`). `MigInv` says
of a start that its plan has no file twice and none that was applied, has what
is missing of the release, and comes after what it needs (`InTurn`); what was
taken out of a sequence leaves the rest in its turn (`AmongInTurn`).

**`ServicesProofs`, restore of an operator** (no assumption). `DataRestored` is
`RestoresWhole`, for any number of users, grants, properties, units and exports.
Ids are given out
once, so that the rows of one id are of one thing in the database and in every
export (`KnownRows`); `SoundRows` adds that of the users of an address the
newest is the live one, and the keys. A restore is a sequence of statements:
`Progressed` says what `k` of them have done, and the first at which it would
fail is the contradiction.

**`ServicesProofs`, amenities** (no assumption). `TagsKept` is `TagsAgree`;
`AmenitiesInv` adds that ids of amenities are not used again.

**`ServicesProofs`, conversations and notifications** (from
`ConversationsAssumption` and `NotificationsAssumption`). `ThreadsHold` needs
that a message's number is new and that messages of a deleted thread are
deleted (`CVInv`). `NoteInv` says of each event where it is on its way and what
its row has to say; `RowsTold`, `TrustedOnly` and `FeedFirst` are parts of it.

**`SmtpMail`** has its few proofs at its end (from `SmtpAssumption`: settings
have the columns of the schema). `Sound` says of a session that TLS is up where
its settings or its steps ask for it, that a loop goes on only with lines that
came ahead, and that the client says goodbye only after the server took the
message or ran ahead; `MailsSound` follows, for any number of emails at once and
of lines in a chunk. Its two parts are about servers that answer in turn
(`ahead` is false); `NothingInClear`, which is about any, is refuted. That an email ends with a row (`EverySendIsLogged`, within
`TrafficProceeds`) needs the fairness of timers and stays with TLC.

Only model-checked: liveness (the provers do not handle fairness and ENABLED):
`RunEnds`, `MaintenanceProceeds`, `PlatformProceeds`, `TrafficProceeds`; what
scans over bytes and a walk over a chart return (`TrafficAgrees`, and
`SubledgersAgree` of charts), which needs induction over data; `WritesAddUp`;
and everything an area puts side by side.

## Not modelled, and why

* *Web portal, PDF, exports, QuickBooks files*: formatting of what the API
  returns, with no state but a session cookie.
* *Seed data, scripts, deployment*: development and packaging.
* *Search and listings, metrics, reports*: queries without state. Balances,
  Schedule E, the undeposited list and the visible threads are modelled, for
  they decide something or are compared with something.
* *Demo chart*: inserted once, with the demo data.
* Within modelled components: names, texts and dates that no guard reads;
  uniqueness of check numbers; SQLite itself, of which atomic commit,
  savepoints, unique indexes and foreign keys are assumed; hashing and
  encryption, whose results are opaque.

## Plan

1. Prove charts within `SubledgersAgree`.
2. Compose `NestedTransactions`, `EventBus` and `LeaseCharges` for the event of
   a late fee that is published before its commit.
3. Compose `ChartOfAccounts` with `Journal`: classes of accounts that are
   edited between a posting and its reversal.
