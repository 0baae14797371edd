# Verification of the backend generator and of the backends it generates

This directory holds TLA+ modules of this repository, TLC configurations that check
them on small instances, and TLAPS proofs of what matters most for every instance.
The repository is two programs in one:

- **the generator** (`packages/`, `targets/`, `apps/`): a compiler from a YAML
  specification to a NestJS/Prisma project, run again and again on a project that a team
  edits, commits and deploys in between;
- **the generated backend** (`features/*/src/render.ts`, `targets/nestjs-prisma/src/project.ts`):
  TypeScript inside template literals, which runs in any number of replicas over one
  PostgreSQL database.

Most of what is hard to test is in two places: how the generator treats the files and
the migration history it finds, and how the generated services and background workers
behave when their steps interleave, fail or are cut short.

## Inventory

| Component | State it keeps | Operations | Hard behaviour | What makes it correct |
| --- | --- | --- | --- | --- |
| Generator runtime (`generate.ts`, `plan.ts`, `write.ts`, `manifest.ts`) | project files, `.backendgen/manifest.json` | read manifest, adjust migrations, plan, write, write manifest | crashes between and inside writes, two runs at once, edits at any time | developers' work survives; a repeated run is a no-op; the manifest vouches only for what was generated |
| Migration history (`generate.ts:217-795`, `schema-snapshot.ts`, `prisma-ddl*.ts`) | snapshot, migration directories, record of accepted migrations | first generation, keep, emit, accept a hand-written one, refuse | history that was edited, torn, restored or accepted in part | the migrations, in order, build the schema the snapshot claims; none is rewritten |
| Shared work queue (`project.ts`, QUEUE_RUNNER) | rows with status, attempts, next attempt, lease | claim a page, back off | leases that end exactly now | a row has one holder at a time |
| Jobs pack | JobRecord, per-runner `running` flag, executions in flight | enqueue, claim, retire, handle, settle, retry, clean up | overrun leases, crashed runners, failed updates, collisions inside a caller's transaction | every job ends, for a reason; a stale execution changes nothing |
| Webhooks pack | endpoints, events, deliveries | register, remove, capture, fan out, post, settle, disable | endpoints that change during fan-out and posting; answers that cannot be recorded | no active endpoint is missed; failures are counted once; everything ends |
| Reservations pack | reservations, outbox, requests in flight | create, confirm, cancel, availability, expire | check-then-act, concurrent inserts, repeated requests | no slot is taken twice; a key stands for one reservation; events tell what happened |
| Notifications pack | NotificationOutbox, in-process listeners | enqueue, claim, deliver, retry, send a recovery message at once | as jobs, with a provider call that times out | every message ends; none after success is sent without a lost lease |
| Uploads pack | upload rows, stored objects | start, complete, delete, sweep | a row and an object that change in two systems | no object without a row for ever, no row promising an object that is gone |
| Auth pack | users, refresh sessions, recovery tokens | register, login, rotate, revoke, verify, reset | a refresh token used twice at once, a reset during a rotation | a login has one live session; a reset and a reuse end the others |
| Organizations pack | organizations, memberships | create, add, change role, remove, close an account | two owners leaving at once | an organization keeps an owner |
| CRUD pack: services | tables of the specification | create, read, refer, update, remove, by scope | rows and members that change between the statements of a request | nobody's rows refer to another tenant's |
| CRUD pack: endpoints, generated client | tables | DTOs, conversions, filters, sorting, pages | values at the edge of a type, pages of a list that changes | what the types admit is served as it was sent, but for named exceptions; a walk misses nothing that stood, unless a row crosses the reader's place |
| CRUD pack: seeding | development rows | plan, order, insert, run again | unique indexes, parents, interrupted runs | every planned row is there after a run, and stays the same |
| Specification, packs, compiler, merging | none | validate, resolve, normalize, render | names that collide, packs that depend on each other | deterministic and valid output |
| Schema diff and DDL rendering | the catalog of a database | initial and incremental migrations | the order of statements that depend on each other | the script that is emitted arrives at the schema |
| Test runner | none | verify, install, migrate, test, count | commands that fail, time out or print too much; a project being edited | the verdict is of what was run |
| CLI, MCP server | none | generate, test-generated; generate_backend, run_generated_tests | - | they are processes of the above |
| Path confinement, scripts | none | input and output | - | - |

How they interact: the CLI and the MCP server call `generateBackend`, which compiles the
specification, has the target and the feature packs render files, and then works on the
project directory; two such processes share nothing but the directory. In a generated
backend, request handlers write domain rows and outbox rows (jobs, webhook events,
notifications) in one transaction; workers in every replica poll the outbox tables. They
share nothing but PostgreSQL and the clock.

## Modules

| Module | What it models | Extends |
| --- | --- | --- |
| `ProjectFiles` | paths of a project and what files can contain; what the targets and packs render | |
| `Planner` | `planGeneration`: creates, replaces, deletes, conflicts; the order of writing | `ProjectFiles` |
| `Migrations` | when history is trusted, which change may be emitted, which manual migration may be accepted, what is carried forward | `ProjectFiles` |
| `Generator` | `generateBackend` over a project's life, with crashes and a developer | `Planner`, `Migrations` |
| `Ledger` | abstract specification of migration history: an append-only chain of schema transitions | |
| `GeneratorProofs` | theorems about `Generator`, and that it implements `Ledger`; theorem about `TestRun` | `Generator`, `TestRun`, `SequenceTheorems`, `TLAPS` |
| `WorkQueue` | `queueClaimSql`, `queueRetryDelayMs`, and the row changes all queues share | |
| `WorkQueueProofs` | what the changes of a row leave of it: lemmas for the three queues | `WorkQueue`, `FiniteSetTheorems`, `TLAPS` |
| `JobQueue` | `JobService.enqueue`, `JobRunner` | `WorkQueue` |
| `JobQueueProofs` | theorems about `JobQueue` and `Cron` | `JobQueue`, `Cron`, `WorkQueueProofs` |
| `TransactionalEnqueue` | enqueueing with the caller's transaction client, with PostgreSQL's aborted transactions | |
| `Webhooks` | `WebhookService`, `enqueueWebhookEvent`, `WebhookDispatcher` | `WorkQueue` |
| `WebhooksProofs` | theorems about `Webhooks` | `Webhooks`, `WorkQueueProofs` |
| `Reservations` | the reservation service with holds, and `HoldExpiryJob` | |
| `ReservationsProofs` | theorems about `Reservations` | `Reservations`, `SequenceTheorems`, `TLAPS` |
| `Notifications` | `NotificationService`, `NotificationOutboxDispatcher`, the provider | `WorkQueue` |
| `Mailbox` | abstract specification of the notifications pack | |
| `Uploads` | `UploadsService`, `UploadsSweeper`, the object store, clients with presigned URLs | |
| `Sessions` | registration, login, refresh rotation, logout, verification, reset | |
| `PackProofs` | theorems about `Sessions`, `Uploads` and `Notifications`, which share nothing; the last implements the safety of `Mailbox` | `Sessions`, `Uploads`, `Notifications`, `WorkQueueProofs` |
| `Organizations` | `OrganizationService`: memberships under serializable transactions tried again | |
| `Records` | the CRUD services behind the guards, for two related entities | `Organizations` |
| `RecordsProofs` | theorems about `Organizations`, `Records` and `Endpoints` | `Records`, `Endpoints`, `FiniteSetTheorems`, `TLAPS` |
| `Endpoints` | DTOs, conversions, columns and pages of one table, and the types of the generated client | |
| `Cron` | validation of schedules, the generated matcher, and the ticks of the runners | |
| `Compilation` | `validateSpec`, resolution of packs, normalization, merging | |
| `CompilerProofs` | theorems about `Compilation`, `Seeding` and `SchemaDiff` | `Compilation`, `Seeding`, `SchemaDiff`, `FiniteSetTheorems`, `FunctionTheorems`, `SequenceTheorems`, `TLAPS` |
| `SchemaDiff` | physical schema, `diffSchemas`, rendering of a migration, and PostgreSQL taking it | |
| `Seeding` | the plan of the seed, and the program it renders | |
| `TestRun` | `runGeneratedTests` | |
| `Components` | the modules from `Notifications` to `TestRun`, side by side | these |
| `MC*` | names and values for TLC | the module checked |

Where a property needs a run to be wrong in a plausible way, the module holds the wrong
version of an operator beside the right one, as "Mutant of"; no specification uses it.

### Generator

State: `disk` (path to contents) and `manifest` are the project; `pc`, `request`, `known`,
`tracked`, `files` and `todo` are a run's local variables; `vcs` is the last commit.
`verdict`, `settled`, `dirty` and `stage` are history variables that the properties read.
Contents are abstract: a snapshot carries its schema, a migration the transition it makes,
a source its version, and `Edited` and `Torn` stand for anything else. A hash is equal
exactly when contents are. A schema gives every column of the instance a level ("none",
"optional", "required"), which is enough for additive, destructive and refused changes.

| Code | Actions |
| --- | --- |
| `generateBackend`, `readManifestState` | `Start`, `PreviewUntracked`, `StartRefused` |
| `applyIncrementalMigrations` and what it calls | `Begin`, `KeepHistory`, `EmitMigration`, `AcceptManual`, `AdjustRefused` |
| `planGeneration`, dry run, conflicts | `Preview`, `PlanRefused`, `Plan` |
| `writePlan` | `Write`, one file at a time in the order of the plan |
| `writeManifest` | `Finish` |
| the process dies | `Crash`, `CrashWriting` (a torn file), `CrashFinishing` (a manifest that does not parse) |
| the team | `Edit`, `DamageManifest`, `Commit`, `Checkout`, `RestoreAll` |

### Jobs and webhooks

The tables are functions from keys to `WorkQueue` rows. Times are relative: a row is due
when `due` is 0, and `left` counts the ticks to `lockedUntil`. A claim carries the attempt
it consumed, which identifies it as `lockedUntil` does in the code. One TLA+ step is one
database transaction, one handler call, or one post; between them anything may happen.
`JobQueue` keeps the table's order (`ahead`: the queued rows that stand before each one),
`Webhooks` leaves it open (`Pages`).

### Reservations

Requests and jobs are processes; a row is named after the request that inserts it, an
interval is the set of slots it covers. An insert takes three steps because PostgreSQL does:
it enters the unique index (`Enter`, which waits for another insert of the key), enters the
exclusion constraint's index and checks it (`Check`), and commits. That the unique index is
the first of the two is `renderInitialMigration`'s doing, which emits the packs' own SQL
after all indexes. Two inserts that both entered before either checked wait for each other,
and PostgreSQL aborts one (`Deadlock`). `expireHolds` selects and updates in two steps of a
transaction at the default isolation, in a loop (`Select`, `Expire`).

### Notifications and uploads

`Notifications` has two ways of a message. A message of a domain change is a `WorkQueue` row
that dispatchers claim a page at a time and whose calls to the provider (`processRow`) end in
one of four ways, one of which is that the provider accepts it and the answer comes too late.
A recovery message is sent while its request waits. `Mailbox` is what both promise, and
`MailboxKept` is the refinement, its fairness included.

`Uploads` keeps rows (`files`) and objects apart, since no transaction covers both: a
completion heads the object, then updates the row; a removal marks the row, deletes the
object, then the row, unless a presigned URL can still recreate the object; a sweep selects a
page in the order of `updatedAt`, and takes each row in steps. A client may put late, and the
store may fail at every call.

### Auth, organizations and records

`Sessions` has one account, since no effect of a call crosses accounts. Under READ COMMITTED
an `UPDATE` sees the rows that were committed when it started, and waits for those that
another transaction holds: `Sees` and `Revoked` say which sessions a revocation reaches.
`ClaimSession` is the conditional update that decides between two uses of one token.

`Organizations` has PostgreSQL's serializable transactions as the code relies on them: a
transaction reads its snapshot and is refused at the end when the row has changed, or when
another that has read what it changes has changed what it has read (`Serializable`), and is
tried again. `Records` adds requests that got their scope from a membership, and the
statements they then make; a membership may end between two of them.

### Endpoints, cron, test runs

`Endpoints` abstracts a value to what the code tells apart (a date without a time, a text
with a NUL, null, no value, another JSON type) and follows it from the type of the client's
input through the DTO and its validators, the conversion and the column. What the validators
pass and the column cannot hold (`unstorable`) is an internal error, as in the code. Its reader
reads a page by a `count` and a `findMany` that see different moments, sorted by something that no
update changes (`createdAt`, a read-only field) or by something that updates change (`updatedAt`,
which every one does, or a field a PATCH may have): there `UpdateRow` gives the row any place.

`Cron` has schedules as data, five fields of a wildcard, a step or ranges, the calendar, and
instances that tick every half minute at any offset, die, start or are kept busy. The loop of
a tick is one step for each entry, since each is an insert of its own.

`TestRun` has the options of a run, the files verified one by one while somebody edits them,
and the commands, each of which ends in one of the ways a command can.

### The compiler

`Compilation` goes through the pipeline of `compileBackend` and `renderBackend` on one
specification with one registry: packs and entities are numbers in the order of their names, a
derived name is a tuple of what it is derived from. What the code does in a loop is a step for each
element: a name the validator or the compiler gives to an inverse (`Mirror`, `Expand`), a call of
`visit` and its return (`Visit`, `Leave`), what a pack creates or patches (`Create`, `Patch`), in
the order of the code. `SchemaDiff` is a history of
specifications: each is compared with the one before (`Changes`, by kind), the changes are refused
or emitted (`Emitted`), and the deployment of the script, `migration`, runs one statement a step on
a catalog that accepts it as PostgreSQL would (`RunStatement`), in the order the code sorts them
into: by `KIND_ORDER`, then by table (`Precedes`), keys by batches (`Batch`), an initial migration
by `InitialOrder`. A statement that is refused takes back all of them (`RollBack`); what nobody
refused is committed (`CommitMigration`). Rows are there in so far as a table may have some, so that
a new column has to be nullable or to have a default; a unique index that the rows of the old schema
do not allow, or a key that now refers to another table, is beyond it. `Seeding` plans from a specification, an entity at a time
(`Exclude` what cannot be seeded until nothing changes, then `Place` in each round those whose
parents are placed), and runs the plan on a database that enforces what the schema says: a step of
a run is a block of rows, or as many of them as there is time for, and a run that was stopped or has
finished may be started again. In which order entities are excluded is left open; what remains is
the same, because a smaller set only excludes more.

## Runs

| Run | Instance | Shows |
| --- | --- | --- |
| `generator_edits` | one run at a time, one column, two migration prefixes, three specifications, two edits, crashes or restores | type invariant; `HistoryBacksSnapshot`; migrations are immutable, developers' work survives, new migrations deploy last, regeneration is a no-op; the manifest implements `Ledger` |
| `generator_concurrent` | two runs at once, one disturbance | `HistoryBacksSnapshot` does not depend on runs excluding each other |
| `documented_recovery` | as the first, fewer requests | counterexample to `docs/MIGRATIONS.md:122-130` |
| `first_generation_clean` | as the first, fewer requests | counterexample to the comment at `generate.ts:216-217` |
| `jobs` | two runners, two jobs, two attempts, pages of two, a lease of one tick, one disturbance | leases exclude, stale executions change nothing, jobs end for a reason, and all of them end |
| `jobs_collision` | one caller, one job | counterexample to the comment at `jobs/src/render.ts:209` |
| `webhooks_fanout` | two dispatchers, one event, two endpoints, two attempts, disabled after one failure, one disturbance | no endpoint is missed; every event and delivery ends |
| `webhooks_disable` | two dispatchers, three events, one endpoint, one attempt, disabled after two failures, one disturbance | `DisablingIsFair`: failures follow deliveries, and an endpoint is disabled for a reason |
| `reservations` | three requests, the expiry job, two overlapping intervals, one key, one disturbance | no overlap; events tell the life of a reservation; `RetriesReplay`: a key stands for one reservation, and only others meet a conflict; holds end |
| `reservations_race` | two requests, no disturbance | counterexample to the `[201, 409]` of the generated test |
| `components` | the parts from `Notifications` to `TestRun`, one in focus at a time; see Bounds | the safety of each, below |
| `components_live` | notifications and uploads, with one sweeper | the outbox implements `Mailbox`; what is removed or abandoned is cleaned up |

The parts of `components` share no state, so that a behaviour is about one of them and the
others keep still (`focus`); one run has them all. What it shows:

| Part | Property | In a sentence |
| --- | --- | --- |
| Notifications | `NoNeedlessDuplicate` | a message reaches the provider again only after a fault, once for each |
| Uploads | `ReadyIsVerified` | what is READY is the object that was declared |
| | `NoOrphan` | a row that goes leaves no object behind |
| Sessions | `OneLivePerLogin` | one login has one live session, however often its token is used at once |
| | `RevocationEndsSessions` | a reuse that is answered, and a reset that is committed, leave no session that is older |
| Organizations | `OwnerKept` | no change takes the last active owner |
| Records | `TenantsApart` | a row refers to rows of its tenant only |
| Endpoints | `ContractKept` | what the client's types admit and the declaration does not exclude is served, but for three cases that are findings, and what is served is stored and shown as sent |
| | `WalkMissesNothing` | a reader of all pages sees every row that was there all the time, unless a row crossed its place: removed from the pages already read, or moved from or to them by an update of what the list is sorted by |
| Cron | `SchedulesKept` | what is accepted fires, once per occurrence, and no occurrence some instance saw is missed |
| Compilation | `PacksHonoured` | packs are taken exactly when they fit together, in an order that respects their needs |
| | `IrConsistent` | relations come in pairs without a clash of names, and validator and compiler agree on indexes |
| SchemaDiff | `MigrationArrives` | PostgreSQL takes every script that is emitted and is then as the snapshot says |
| Seeding | `SeedLands` | the database takes what the seed plans, and a second run changes nothing |
| TestRun | `VerdictEarned` | nothing runs before all was verified, a pass is of all that was asked for, counts are true |

A property that has exceptions states them, and each exception is a finding below or said in
the comment of the property.

### Bounds

Every bound is a constant. `MaxDisturbances` counts edits, crashes, restores, database
errors and leases that are overrun: each property is about what one of them (two for one
generator run: an edit and a restore, a crash and a checkout) does to otherwise
undisturbed behaviour, and the mutants, which all need one to show, are found within these
bounds. Two prefixes are the fewest with a migration before and a migration after another;
two runners, two attempts and a lease of one tick are the fewest with a stale execution
beside a live one; three events are the fewest with two counted failures and one more to
be cancelled; three requests are the fewest with a creation, its repetition and a rival, or
with a creation, its confirmation and its cancellation. The number of a row's attempts is
bounded by `MaxAttempts` and one claim more, which the code allows.
Larger instances (two endpoints with three events, four requests) were explored to the
extent memory allowed, without another result.

In `components` every part has its own. One message, one recovery message and two
dispatchers with two faults show an overrun lease and a late answer in one behaviour. Uploads
are seen in three scenes: two clients, or one client and two sweepers, or two sweepers on two
rows of which the store answers for one only, always with pages of one. Three sessions are
the fewest with a login, its rotation and another login; two users and two owners' calls the
fewest that can leave an organization without an owner; two requests, two parents and a child
the fewest for a reference that another request takes the parent from. Schemas have two
tables, of which either may refer to the other, and every schema follows every other; an enum may
gain one value, or two that are declared out of the order of the alphabet. The
inputs of the compiler and of the seed are enumerated: all ways
in which three packs can need each other, every pair of relations of two entities, every
relation alone with names that get in its way, and entities for the seed with every kind of
field, key and index. The seed is started twice, and a block of it is interrupted after two
rows or not at all. A field is declared in every way and called with every value; two calls
meet on a row, and a reader walks over three rows that two calls add to, move or take from. A
schedule is tried with every form at and beyond the edges of every position, and run for two
minutes across the end of a month. A run of the tests is tried with every option.

`CHECK_DEADLOCK FALSE` is said only of the generator, whose project is at rest when all
disturbances are used up and no request applies.

### Fairness

Liveness is claimed of the workers only. `JobQueue` and `Webhooks` assume that an instance
keeps polling (`@Interval`), that what it has started goes on (the event loop; handlers
return and posts have a timeout), and that time passes. `MailFairness` and `UploadFairness`
assume the same of the notification dispatchers and of the sweepers: their `@Interval`, the
steps of a tick once it runs, the timeout of a provider call, and the clock. `Reservations`
assumes only that `HoldExpiryJob` runs every minute and that time passes. Nothing is assumed
of clients, and nothing forces a crash or a failure; these are bounded by `MaxDisturbances`,
`MaxMailFaults` and `MaxStorageFaults`, so that the liveness properties say: once failures
cease, all that is queued ends, and all that is abandoned is cleaned up.

## Proofs

`GeneratorProofs` proves, for any columns, files, prefixes, specifications, requests,
number of concurrent runs and number of disturbances:

- `TypeCorrect`: `Spec => []TypeOK`;
- `HistoryIsBacked`: `Spec => []HistoryBacksSnapshot`.

The second is not inductive: `Finish` makes the files of a run the manifest, and nothing in
it says what those files are. `RunsBacked` adds it: a run that found a manifest read a
backed one, and what a run that will write has rendered is backed. So the proof comes down
to four lemmas, one per way of adjusting migrations (`FirstBacked`, `KeptBacked`,
`EmittedBacked`, `AcceptedBacked`): each turns a backed set of files into a backed set of
files. The last two rest on `ChainExtends`, that a chain of transitions can be continued at
its top after all its links. What is on disk meanwhile does not enter, because a run trusts
contents by hash. `InitIInv` and `NextIInv` make the invariant inductive, with one lemma per
group of actions. The assumptions are those of the modules: prefixes are natural numbers,
and specifications and requests are well-formed.

The theorems of its second part are about one run at a time (`OneRun`, any two runs are the
same), with developers, crashes and restores at any moment of it:

- `MigrationsStay`: `Spec => MigrationsImmutable`;
- `DeveloperWorkStays`: `Spec => KeepsDeveloperWork`;
- `MigrationsAppend`: `Spec => NewMigrationsDeployLast`;
- `RegenerationIsStable`: `Spec => StableRegeneration`;
- `KeepsALedger`: `Spec => KeepsLedger`, that is, `Generator` implements `Ledger`.

`OneRun` is a restriction of what is claimed and not something the code ensures: nothing locks a
project, two runs that write at once overwrite each other's files and manifest, and the five are
not claimed of them (`generator_concurrent` checks what is). They share one invariant,
`OneInv`. Of a run it says that the manifest is the one it has read for as long as it goes
(`InStep`), that recorded history is rendered as it was (`Frozen`) and the rest as the
specification asks (`AsAsked`), that a migration which is not on disk sorts after all that are
(`Appends`), that a plan is up to date until somebody edits (`Planned`), that regenerating changes
nothing (`Again`), and which ledger it is going to write (`NextLedger`). Of the project it says
that manifests list only what was rendered (`Whole`), and that what was generated without a
disturbance is complete, in the checkout and in the last commit (`Steady`). `NextLedger` is where
the refinement is decided, in the step that adjusts migrations; `Finish` only makes it visible.

The third part is about a run of the tests, of any generated files, with any options and any
number of edits:

- `VerdictsAreEarned`: `TestSpec(states, runs) => []VerdictEarned`.

Its invariant is `TInv`. That nothing runs in a project that is not as generated needs `FilesWere`
(a file that was read was as written then, and stays among the untouched) and `Cleared` (every file
was read before the first command). That a pass is of all that was asked for needs `Ran` (the
commands are the first of the steps, in order, each ended in a way it can) and `Goes` (all but the
tests had to succeed for the next to run, and nothing is counted before the end); `VerdictFollows`
then reads the verdict off the last state. `Totals` is a sum over the commands; the counts before
the end are those of no command, which is what needs the sum's definition.

`ReservationsProofs` proves, for any requests, jobs, keys, intervals, hold times and sweep
sizes:

- `TypeAlways`: `Spec => []TypeOK`;
- `NoOverlapAlways`: `Spec => []NoOverlap`;
- `EventsAlwaysTellLife`: `Spec => []EventsTellLife`.

`NoOverlap` is not inductive: the commit of an insert makes a row `HELD` steps after the
exclusion constraint was checked. `CheckedIsFree` says what holds in between: the interval
of a request that passed the check is still free, and two such requests share no slot, which
is why the check waits for rivals. `CheckExcludes` and `CommitExcludes` are the two steps
that matter; for every other one `StillExcludes` needs only that it occupies no slot and lets
no request pass. The changes of status go through `ChangeGoesOn`, which holds of any legal
change, so that the update of `confirm` and `cancel` and the sweep of `expireHolds` differ
only in why theirs is legal: the status in the `where` of the update. `Invariance` puts the
steps together. The bound on disturbances is a constant, so that any number of failures is
covered. That `NoOverlap` needs no assumption about who runs the sweep, or when, is part of
what is proved: an expired hold that nobody swept still excludes.

`RetriesAlwaysReplay` is `Spec => RetriesReplay`, both the answers to a key and
the conflicts. A key is looked up in `replay`, long before a row is inserted with it; `Alone`
says what holds from the entry in the unique index until the commit: no row has the key, and
nobody else is inserting one. Hence `KeysUnique`, and the original a `Replay` or a `Duplicate`
finds is the only row with the key. A conflict in the exclusion constraint comes after the entry,
so that it cannot be one with the row of the key: that is the order of the two indexes, and
without it the theorem fails. The proof needs requests and jobs to be different.

`PackProofs` proves, for any number of calls, tokens and codes, `LoginHasOneSession`:
`AuthSpec(S, K) => []OneLivePerLogin`. A rotation revokes one session and creates another in
one commit, so that the invariant could be lost only if a session it has claimed were
revoked or claimed by another call first: `Held` says that it is live until then, `Exclusive`
that no other rotation has claimed it, and `Rooted` that a family is named after a session
that was, so that a new login gets a family of its own. `ClaimKeeps` and `ReplaceKeeps` are
the steps that matter; every revocation goes through `SomeRevoked`.

The second one about sessions is `RevocationIsFinal`: `AuthSpec(S, K) => RevocationEndsSessions`,
of reuse and of resets. A revocation is a statement that sees the sessions committed at its start;
`Marked` says that those it has not seen, and those that calls under way will still insert, are
the ones marked as overlapping, so that what survives it is never an older session that nobody was
about to replace. `Holding` and `Alone` say that a reset has an open code to itself until its
commit, which is why a code changes one password, and `Presented` that a rotation goes on about a
session that exists.

For any number of attachments, clients, sweepers and faults of the store or the database,
`PackProofs` proves of uploads:

- `UploadsTyped`: `UploadSpec(A, C, W) => []UploadTypeOK`;
- `ServedIsVerified`: `UploadSpec(A, C, W) => []ReadyIsVerified`;
- `NothingOrphaned`: `UploadSpec(A, C, W) => NoOrphan`.

Row and object change in different systems, and the invariant `UInv` says what a step in one may
still rely on in the other. A completion that is about to mark a row READY has seen the declared
object, which stays as it is until the row is removed (`Judged`): a PUT does not replace an object,
only a removal, a sweep or a mismatch deletes one, and the first two mark the row before. The
mismatch is the exception `ReadyIsVerified` states, and the proof needs it. For `NoOrphan` two
clocks have to agree: a URL that was signed in time runs out by the time its row is `PresignTtl`
old (`Expires`), and a sweep has only rows that are older than that, each to be claimed or removed
already (`Swept`). `UploadsAssumption` (`StaleAfter >= PresignTtl`) is what the second needs.
`InOrder` says that the order of `updatedAt` has every row once, and `UploadsTyped` follows.

It proves of notifications, for any number of dispatchers, messages, recovery messages and faults:

- `MailTypeAlways`: `MailSpec => []MailTypeOK`;
- `NeverNeedlessDuplicate`: `MailSpec => []NoNeedlessDuplicate`;
- `KeepsMailboxSafe`: `MailSpec => Box!Safety`, the safety part of the refinement of `Mailbox`.

`NoNeedlessDuplicate` counts, and so does the invariant, which is a budget. Calls to the provider
and attempts that may still make one (`Unsent`) are together no more than the attempts of the row.
What the provider has accepted, the attempts it may still accept, and one more if the row is queued
and no call whose lease runs is about to settle it (`MailOpen`, `Covered`), are together no more than
one and the faults so far. Everything that
opens a row again, a crash, an overrun lease, a refused update, an answer that came too late, is a
fault. The refinement takes from the same invariant that what is `DONE` was accepted (`Told`,
`Accepted`), and that no message is asked for more often than it has attempts.

`RecordsProofs` proves, for any organizations, users, calls, requests and rows,
`TenantsStayApart`: `RecordSpec(C, O) => []TenantsApart`. A related record is validated in one
statement and referred to in another; `AboutToWrite` says that the validation still holds when
the reference is written, because a parent is never removed for good and never changes its
organization (`ParentsStay`). Who is a member meanwhile does not enter.

It proves as well, for any organizations, users, roles, calls and attempts,
`OwnersAreKept`: `OrgSpec(C, O) => OwnerKept`. A serializable transaction that takes an owner has
counted another one (`Counts`), who is an owner still, or whose account was closed, as long as no
rival of it has committed; one that counted nobody does not take an active owner as long as its
row has not changed (`Seen`). `CommitKeeps` shows that a commit can break either only by making
the other call stale or its rival, and `CommitKeepsOwner` that what may commit leaves an owner.

Of the endpoints it proves, for any finite table, order of it, page size, declaration of the column
and number of calls:

- `PagesMissNothing`: `EndpointSpec(...) => []WalkMissesNothing`;
- `EndpointsKeepContract`: `EndpointSpec(...) => []ContractKept`.

Both assume of the initial state what `Plausible` says: a declaration the loader admits, a table in
which every required column is filled, calls that have not begun, and a reader of rows that are
there. A page skips as many rows as the pages before it had room for, not the rows they showed, and
the invariant has to say why that is the same as long as no row crosses the reader's place: every row that
is still to be seen has at least that many ahead of it (`Pages`). A row that is created is put
before or behind it (`GrownPages`). One that is removed from the pages already read pulls forward
what is behind (`ShrunkPages`), and one that an update moves from or to those pages pulls forward
others or is skipped itself; `crossed` records both, and then a row that nobody removed can be
missed. An update that moves a row within the pages read, or within what is behind them, does no
harm, however many it passes there (`MovedPages`). `ReadPages` is the
step that matters: `OnTheList` shows that a row stands on the list behind exactly the rows that are
ahead of it in the order, which is where the unique id as the last sort key is needed, so that a row
behind the skipped ones is on the page or behind it too. The end of a walk is a short page, or the
number of pages, which is right when nothing came between the count and the rows. The contract comes
down to what happens to one value: `TypedIsTaken` says that what the types admit passes the
validators and fits the column, but for the exceptions, `OnlyExcused` that each of these gets the
answer `Excused` says and nothing else is refused, and `Written` that what an update has stored stays
to be read back until another call comes in between.

The theorems about a part of `components`, here and below, are about that part alone, from any
initial state of it, but where they say otherwise. They state the properties that `components` checks.

`JobQueueProofs` proves, for any number of runners and jobs, any lease, batch size, attempt
budget and backoff, and any number of crashes, database errors and overrun leases:

- `JobTypesAlways`: `Spec => []TypeOK`;
- `LeasesExclude`: `Spec => []LeaseExcludes`;
- `OvertakenChangeNothing`: `Spec => LatestClaimSettles`;
- `EndsHaveReasons`: `Spec => EndsForAReason`.

The invariant ties the executions in flight to the rows: each made an attempt that its row has
counted (`Made`) and that no other one made (`OneEach`), one that was overtaken has outlived its
lease (`Overtaken`), and the latest has the lease of its row for as long as the row is queued
(`Latest`). `Overtaken` alone is not inductive: it is `Latest` that turns the `WHERE` of the
claim, which sees the lease of the row only, into a statement about the execution that the claim
overtakes. The two action properties follow from it by `NextIsFair`, one case per action. The
proof of these three does not use the order of the line, only that a page consists of claimable
rows, so that it covers any order PostgreSQL may choose among equals. `DelayType` is about the
backoff: powers of two are the numbers of subsets of an interval, as the library has no theorem
about `^`. `JobTypesAlways` is about the line: the queued jobs stand one behind the other in the
order in which they are due (`Lined`). A retry takes a row out and puts it back further behind
(`LongerLine`), which keeps one line only because rows ahead of each other are due in that order,
and time, which brings all of them nearer and none below now, keeps that order (`SameLine`).

And of schedules, for any first date, instances, ticks and faults, and any table with a schedule
in it, `SchedulesAreKept`: `CronSpec(tables, dates, up, now) => []SchedulesKept`. One half is
about the two grammars: `FieldDenotes` says that the matcher takes a field the validation accepts
for what it stands for, a step being a remainder in one and a multiple in the other, and
`MatchesWhenDue` and `DayFires` go from fields to schedules and the days they fire on. The other
is about time. `Watches` says that an instance that is not excused from a minute has ticked in
it, or it is the current one and the instance has been waiting since before it began
(`CronClockKeeps`: it would have to wait for a whole minute to let it go by); `Ticked` that
whoever has ticked is done with the entries before the one it is at; and `KeysAreMinutes` that a
job whose key is in the way of another is of the same minute. `NextDate` says that the calendar
goes from dates to dates, which the matcher needs to be right about them.

`WebhooksProofs` proves, for any number of dispatchers, events, endpoints and disturbances:

- `TypeAlways`: `Spec => []TypeOK`;
- `EveryEndpointIsServed`: `Spec => []EveryEndpointServed`;
- `DisablingAlwaysFair`: `Spec => DisablingIsFair`.

`fanOutEvent` reads the endpoints in one step and writes deliveries in a later one. `Gathered`
says that what was read has every endpoint the event is for and that is active still: one that is
registered later is not meant, and none comes back once it is disabled or removed. `deliver` looks
at its endpoint before it posts and counts the failure after. `Posting` says that while its lease
is its own the endpoint is active still, because disabling and removing end the rows of the queue
in the same transaction, and `Counted` that an endpoint has at least as many failed deliveries as
its counter says. `DisablingIsFair` then is one case per action.

`CompilerProofs` proves, for any packs, entities and names of relations, and any set of well-formed
sources, that is, whatever a specification declares and its packs depend on, conflict with and add:

- `CompileTyped`: `CompileSpec(Sources) => []CompileTypeOK`;
- `PacksAreHonoured`: `CompileSpec(Sources) => []PacksHonoured`;
- `IrIsConsistent`: `CompileSpec(Sources) => []IrConsistent`.

`WellFormed` says that packs, entities and names are of those there are; it asks for nothing to make
sense, so that refusals are covered. Of the packs, `Sorted` says that the order so far has no pack
twice and each after what it needs, and `Walk` that the calls of `visit` under way are a path: each
is of a pack that its caller needs, and what a caller is past is ordered or the next call. Hence a
pack that is met while it is visited closes a circle of needs (`VisitCycle`), and an order of all
the packs excludes one, since of a set of packs that each need another the one that is ordered first
would have another before it (`SortedIsAcyclic`). Together they are both halves of `PacksHonoured`:
refused exactly when it does not make sense. Of the names, `ExpandedInOrder` says that the order of
expansion is total, and `ByRule` that each inverse has the name its rule gives it after those before
it. So there is one way to name them all (`NamedAlike`), and the validator's mirror, which passes
over what it does not know, and the compiler, which refuses it, name alike what both reach; the keys
they take for indexes are the same (`SaidIs`). That names and keys clash only where the code lets
them is `NamedOnce`, from the rule and from `DraftsInv`: packs add no name that is there already.

And of the seed, for any set of specifications as normalization leaves them (`SeedWellFormed`), any
number of runs, and interruptions after any number of rows:

- `SeedTyped`: `SeedSpec(Specifications) => []SeedTypeOK`;
- `SeedAlwaysLands`: `SeedSpec(Specifications) => []SeedLands`.

The invariant is `SeedInv`. `OrderFits` says of the plan that nothing in it is to be excluded and
that every entity is behind its parents; `RowsInv` of the database that it has planned rows only,
each as its ordinal determines it, and all those of the blocks a run is past. So a block meets rows
of earlier runs that are those it would write (`BlockKnown`), and `BlockTaken` is left to show that
PostgreSQL takes the others. A row refers to rows of blocks before its own (`BlocksOrdered`,
`RefersToPlanned`), or, a membership, to the organization just before it. Two rows of an entity
differ in every unique index (`Apart`) because `uniqueDrivers` has left a column in it that tells
them apart (`EveryIndexDistinguishes`). For a field that is its ordinal, of which the field must have
values enough. For a key it is the parent it turns to: `EachPoints` shows that, among as many parents
as `unseedableReason` asks for, it turns to the parent of the row's own ordinal, or to every second
account where an organization has one row and two members (`Stride`). Finally a run that has come
past its last block has all the rows that are planned, which is what the first one had.

And of migrations, for any tables, whichever of them may have which fields and relations, any lists
of values and any sequence of edits:

- `SchemaTyped`: `SchemaSpec => []SchemaTypeOK`;
- `MigrationAlwaysArrives`: `SchemaSpec => MigrationArrives`.

The invariant is `SchemaIInv`: while a migration is `Underway`, what it has left of each kind is
what distinguishes the database, as it is by then, from the snapshot it leads to, and none of it is
new. `Lessens` is what keeps that: a statement that is accepted removes its own change from the
differences, of whatever kind, and adds none. There is a lemma for each kind (`DropsIndex` to
`AddsValue`), and most of them hold only when another kind is done: a column that is dropped takes
its indexes with it, which would leave statements for indexes that are gone. `IsReady` lists these
needs, and `DueIsReady` shows that `KIND_ORDER` and the initial migration meet all of them. Refused
can be only the drop of a table and the addition of a value, and `RefusedForOrder` finds the two
statements whose order is to blame. When nothing is left the database is the snapshot
(`NothingLeft`), because a snapshot is determined by what `diffSchemas` compares (`SnapshotOK`);
and `NothingDestroyed` is about the flag. The order of tables within a kind does not enter but for
the two exceptions, nor do the batches of keys.

What the attempts to prove these found in the models was corrected there: `SendRecovery` chose
between overlapping cases, and the order and the batches of `Uploads` are stated by what they are
instead of by recursion over sequences, the list of `Endpoints` and the line of `JobQueue` by
the order they are in; `Cron` keeps the date of each minute so far instead of counting from the
first; how a command of `TestRun` ends is a set of outcomes with a condition, and its counts are
sums over a set of commands; `Compilation` and the plan of `Seeding` were chains of recursive functions and take a step
for each turn of their loops; `SchemaDiff` computed a migration in one step, from a sequence of
statements, and takes a step for each; a block of the seed is a function from ordinals to rows, where it was
a sequence. `MigrationsImmutable` counts as its exception now what
needs four disturbances, beyond the bound of the run: a migration that is deleted and restored
while a run that then dies was about to write it.

Model-checked only:

- liveness and fairness, `MailboxKept`'s among them: out of the prover's reach;
- `ComponentsTypeOK` as a whole: it is the conjunction of the type invariants of the parts, of which
  those of uploads, notifications, the compiler, the seed and the migrations are proved.

## Findings

Four runs show the code and what the repository says of it disagree; `PROJECT.json` quotes
the lines.

1. `documented_recovery`: `git checkout` of the two directories leaves the untracked
   migration an interrupted run had already written, and the next run refuses it.
2. `first_generation_clean`: a left-over record of accepted migrations is not noticed by a
   first generation, and the project can never be regenerated.
3. `jobs_collision`: a duplicate enqueue inside a transaction is reported as success while
   PostgreSQL has aborted the transaction.
4. `reservations_race`: the loser of two simultaneous inserts can be aborted by PostgreSQL
   as the victim of a deadlock, and is answered 500 instead of 409.

The others came up while a property was being stated. The property names the exception, so
that its run passes; dropping the exception yields the counterexample.

| Where | What | Excepted in |
| --- | --- | --- |
| jobs, `render.ts:361` | at the instant a lease ends an exhausted job is claimed instead of retired | `EndsForAReason` |
| uploads, `render.ts:713` | the tombstone of a removed upload can go before its URL expires | `NoOrphan` |
| uploads, `render.ts:664` | of two completions that found a mismatch, the second deletes a good object put after the first | `ReadyIsVerified` |
| auth, `render.ts:222` | a session created while all are being revoked survives | `RevocationEndsSessions` |
| `schema-diff.ts:222` | tables that refer to each other and are dropped together are dropped in an order PostgreSQL refuses | `MigrationArrives` |
| `schema-diff.ts:296` | values added to an enum are added in the order of the alphabet, each after the one declared before it, which PostgreSQL refuses when that is not there yet | `MigrationArrives` |
| `compile.ts:269` | the name `...Via...` of an inverse is not checked against names that are taken | `IrConsistent` |
| `validate.ts:67` | the validator's mirror of derived names does not see packs | `IrConsistent` |
| `seed.ts:789` | reservations of a resource outside every organization are planned for a row that is not there | `SeedLands` |
| auth, `render.ts:409` | registration demands a field the client's type lets out | `ContractKept` (`Excused`) |
| auth, `render.ts:594` | a date without a time fails registration with an internal error | `ContractKept` (`Excused`) |
| `validation.ts:108` | a number beyond the column, a NUL in a text or a week date passes the validators and is answered 500 | `ContractKept` (`Excused`) |
| crud, `render.ts:123` | null for a date is stored as the first instant of 1970 | `ContractKept` |
| jobs, `feature.ts:34` | a day no named month has is accepted and never fires | `SchedulesKept` |
| jobs, `render.ts:310` | an occurrence nobody ticked in is never made up for | `SchedulesKept` |
| `run-tests.ts:170` | the totals of a suite with long output are cut off | `VerdictEarned` |
| `run-tests.ts:224` | under another package manager no test is counted | `VerdictEarned` |
| `tools.ts:307` | the MCP tool passes no database to a run that needs one | `VerdictEarned` |

## Not modelled

- Loading YAML and validating it against the JSON schema, and the text of what is rendered:
  formatting, imports, OpenAPI annotations, the rendered tests, static files.
- Symbolic links, file modes and path confinement (`safe-fs.ts`, `sandbox.ts`), arguments and
  the MCP transport, release and benchmark scripts: input and output.
- Signatures, the address guard and the HTTP request of webhooks; pure functions with unit
  tests.
- Search, and lists of entities beyond their filters, sorting and pages; the members of the
  generated client for reservations and organizations.
- Two clocks. PostgreSQL's and the processes' are one here. `EndsForAReason` says at which
  instant of one clock the code already disagrees with itself; two would disagree for as long
  as they differ.
- Filters of a list that is walked: the reader of `Endpoints` reads the list of all rows. An update
  that takes a row out of a filtered list is to its reader what a removal is.
- Corners of names: `validate.ts:171` looks for the field of an index with `in`, which also finds
  what every JavaScript object has (`constructor`), where the compiler does not; names are tuples of
  what they are derived from here. Indexes a patch adds, and patches that unset `softDelete`: no pack
  does the first, and only one says anything about the second.
- Query timeouts of Prisma: a failing transaction, whatever the reason, is a disturbance.

## Plan

What is left, most important first:

1. **Migrations over rows**: a database with rows, to tell a unique index that can be created
   from one that cannot.
2. **Queues, unified.** An abstract specification of a queued row that `JobQueue`, both
   tables of `Webhooks` and `Notifications` implement; its lemmas are those of `WorkQueueProofs`.
3. **Endpoints**: search, and relations in filters.
