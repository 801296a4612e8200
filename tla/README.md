# A TLA+ verification of Retract

Retract deletes its owner's messages on Telegram and Discord.  What it must get
right is what it tells the owner: nothing is removed that was not reviewed and
approved, a cancel is final, a crash or a lost answer never turns into a second
deletion or a false "deleted".  This directory models the parts of the Rust
backend that carry those promises, checks them with TLC on small instances, and
proves the most important ones for every instance with TLAPS.

Paths below are relative to the repository; `T/` stands for
`src-tauri/src/`.

## 1. The system

### Components

| Component | State it keeps | Operations | Hard behaviour | What makes it correct |
|---|---|---|---|---|
| Reviewed lifecycle, `T/providers/frozen_lifecycle.rs`, `lifecycle.rs` | projection of plans and jobs, quarantine flag, stop flag, grants, a control per worker | prepare, authorize, start, recover, cancel, stop; the worker's batch loop | handlers interleave with workers between awaits; every publication may fail; the process dies | only approved plans are executed, once; cancel and stop are final; counters tell the truth |
| Scoped repository, `T/providers/lifecycle.rs` | last projection it saw | load, commit (compare and swap, monotonic) | a stale copy; two instances over one store | a commit never goes backwards or loses what another recorded |
| Foundation store, `T/persistence/foundation_store.rs` | active, candidate and backup file; committed state; reload flag; lock | open, migrate, transaction, snapshot | a step fails, a process dies or power is lost anywhere; two processes | an acknowledged change survives; memory is the file; backup before migration |
| Legacy migration and validation, `T/persistence/{migration,model}.rs` | none | turn the plans and jobs of an earlier version into history | jobs that had not ended, contradictory records | what was deleted is remembered and nothing of it can be executed |
| Discord delete client, `T/providers/discord/http.rs` | semaphore, lock map, pacing, global deadline | verify_owned, delete_owned | lost and late deletions, edits between retries, pruned locks, cancellation | what is reported deleted is absent; an edited message survives; every call returns |
| Discord remediation adapter, `T/providers/discord/remediation.rs` | none of its own | intents, describe, preflight, mutate, prompt | session, source and messages change between its awaits | what is deleted was reviewed and is the owner's |
| Discord session owner, `T/providers/discord/session.rs` | session with generation, restored accounts | sign in, restore, forget, shutdown, with_token | attempts overtaken while they await the identity service | an overtaken attempt changes nothing; forget forgets |
| Secure store vault, `T/secure_store.rs`, `secure_store/`, `connection_settings.rs` | cached item, needs_read, lease; the settings file | load, migrate, keys, hash, credential, settings | a failed Keychain write that landed, a death between two calls, two processes | a secret given out is never lost or replaced |
| Discord browser sign-in, `T/providers/discord/browser/` | child process, capture | capture | cancellation, timeouts | begins and abandons one attempt |
| Discord archive reader, `crates/discord-archive` | the directory of the export, the inspection, the selection | inspect, detect, open, visit | the file is overwritten between reads; a doctored inspection; hostile syntax at the seams of chunks | what the sink is told is complete is the export |
| Discord import coordinator, `T/providers/discord/import.rs` | one running import and its join | start, retry, cancel, shutdown | launch races shutdown; the file changes; the worker stops | one import, always joined; an outcome is what the store keeps |
| Archive worker and store, `T/persistence/archive/` | command queue, import runs, receipts, tombstones, rows | begin, append, finish, fail, cancel, retry, remove, search, list | death between batches, an authority kept too long, an upgrade interrupted | rows are written by their run only; every store reopens; a paged query is exact |
| Archive lifecycle owner, `T/persistence/archive/lifecycle.rs` | opened service | open, shutdown | open races shutdown | every service is shut down |
| Telegram cleanup, `T/providers/telegram/remediation/` | compound jobs: batches, clear, leave, remove | the lifecycle commands, a phased executor | leaving succeeds and removal fails; a cancel during a rate limit | phases in order, each recorded first |
| Telegram planning, `crates/cleaner-domain`, `T/providers/telegram/recipe.rs` | none | intents, plans, batches, recipes | rights change between the reading, the plan and its execution | what is carried out was offered and is allowed |
| Telegram identity and connection, `identity.rs`, `connection.rs`, `engine_context.rs` | generations, the published account | verify, retry, publish | a late answer of an earlier login | the account acted for is the one signed in |
| Telegram native gateway, `native/live_gateway.rs` | catalog with marks, identity | load, refresh, search, scan, delete | updates race reads; other searches between two pages | a stale summary is marked; a read is exact |
| Provider service, `T/provider_service.rs`, `registry.rs` | one lifecycle per context | register, replace, use, restart | replacement drains workers under a lock | a command is served by the lifecycle of its context |
| IPC, conversions, prompts, UI | little | decode, convert, render | little | left to their tests |

`PROJECT.json` has the same list with its sources and what of each is modelled,
and the hazards, each at the line where it bites.

### How they interact

A command reaches the provider service, which holds one lifecycle per context.
The lifecycle keeps its projection in the foundation store through the scoped
repository: `transition` clones the projection, changes it, and commits it with a
compare and swap; any error but a domain refusal *before* the commit quarantines
the instance.  `start` and `recover` schedule one task per job; the task runs
`run_frozen_batches`, which asks a driver for each batch: preflight every target,
mutate the allowed ones under the mutation gate, record progress.  The driver
calls the provider adapter, for Discord the remediation adapter over the delete
client, with a token of the session owner.  `cancel` publishes first, then raises
the flag, then waits for the gate and for the worker to finish.

## 2. Modules and the code they stand for

Every mapped definition is listed with its source lines in `PROJECT.json`, "map".
An operator named `X_Y` stands before `X` and is `X` with a plausible mistake;
each property of a passing run is shown to fail when one of these replaces the
original.  They belong to no specification.

| Module | Stands for |
|---|---|
| `FrozenLifecycle` | the lifecycle, its grants, publication, and the workers |
| `FrozenLifecycleInv` | the two inductive invariants of `FrozenLifecycle`, `IInv` and `LedgerInv` over it |
| `FrozenLifecycleProofs` | the theorems that rest on `IInv`, then those that rest on `LedgerInv` |
| `MCFrozenLifecycle` | batch sizes and symmetry for TLC |
| `TelegramCleanup`, `MCTelegramCleanup` | the phased executor of one Telegram plan with its commands |
| `TelegramCleanupProofs` | the theorems about it |
| `TelegramIdentity` | who the gateway is signed in as, and who the program acts for |
| `ProviderService`, `MCProviderService` | extends it: the service, the registration of lifecycles, two repositories over one store |
| `ProviderServiceProofs` | the theorems about both |
| `DiscordDelete`, `MCDiscordDelete` | the delete client, and its instance |
| `DiscordSession`, `MCDiscordSession` | the session owner over the credential vault, and its instance |
| `DiscordSessionProofs` | the theorems about it |
| `DurableJobs` | abstract: what the store promises its callers |
| `FoundationStore`, `MCFoundationStore` | the store, its migration, files and failures, and its instance |
| `FoundationStoreProofs` | the theorems about it, the refinement of `DurableJobs` included |
| `ArchiveDb` | the content of the archive database and its transactions, as operators |
| `ArchiveStore`, `MCArchiveStore` | extends it: opening, upgrade, sessions, queries, deaths |
| `ArchiveStoreProofs` | the theorems about it, and about every operation of `ArchiveDb` |
| `DiscordImport`, `MCDiscordImport` | extends it: the import job, the worker's queue, the owner, shutdown |
| `DiscordImportProofs` | the theorems about it, and about the operators of `ArchiveDb` an import uses |
| `DiscordArchive` | reading an export file that may change |
| `ArchiveSyntax` | the lexical guard, records and calendar, against reference definitions |
| `TelegramCatalog` | the cached summaries of chats and their marks |
| `TelegramReads` | searches, scans and enumerations page by page |
| `TelegramPlanning` | from a chat's rights to a plan, an envelope, a job and back |
| `SecretVault` | the Keychain item, its versions, the lease and the settings file |
| `DiscordRemediation` | describing, looking at and deleting Discord messages; the application's queries |
| `LegacyMigration` | the stores of an earlier version turned into history |
| `MCRules` | runs the last eight, each alone, over the instances it defines |
| `RulesProofs` | the theorems about `SecretVault`, `TelegramCatalog`, `DiscordRemediation`, `DiscordDelete`, `DiscordArchive`, `LegacyMigration` and `TelegramPlanning` |

### FrozenLifecycle

`store` is the projection in the file, `state` the copy in memory, `failed` the
quarantine, `control[j]` the entry of the worker map for job `j`, `worker[j]` the
task: a program counter and the locals of `run_frozen_batches`.  `call[c]` is the
command a handler is in.  A step ends where the code awaits, releases a lock or
publishes; what lies between two such points is one action.

* `Publish(new, ok)` is `transition` over `ScopedRepository::commit`, in its four
  outcomes: done; refused because the instance is quarantined; refused by the
  repository (which quarantines as well); failed by the store, before or after it
  replaced the file.  `Publishable` holds the compare and swap, the monotonicity
  and the validation the repository demands.
* `RunStart` .. `Unmap` are the worker, in the order of the code: check, claim,
  loop head, one preflight per `Reach`, the check and the gate before a mutation,
  the answer, progress, the wait of a rate limit, the end, the three steps after it.
* `CancelCall` .. `CancelWake` are cancel; the `Notified` future is made
  (`CancelArm`) before `finished` is read (`CancelCheck`), as in the code.
* `Crash`, `Open` and `OpenFails` are the death of the process and
  `FrozenLifecycle::new`, which closes unfinished jobs.
* External: `Reach` and `Answer`, the provider.  Only a success says that the targets
  are removed; any other answer, a refusal included, leaves open whether they are,
  because the Discord client may return a plain error for a message it removed ("Known
  disagreements").  Such a removal is a `Denied` one; a preflight of its targets can
  only fail (`Gone`).
* A wall clock set back behind a record (`lifecycle.rs:222`) makes the repository refuse
  it: that is one of the faults of `Publish`, the one that leaves the file.

The observers `applied`, `approvals`, `started` and `acked` record what happened
and guard nothing; only the bound on approvals is counted by one of them.  `denied`
records the removals that were told of as refused, for the property and for `Gone`.

### TelegramCleanup

The same lifecycle around one Telegram plan: `op` is its operation, `Sizes` the
batches it froze, `chat` what Telegram says of the chat (a set of capabilities,
with "listed" for being in the chat list).  `FirstPhase` .. `AfterBatch` run the
batches, `Resolve` checks the authority for a chat-wide call, `Lookup` and
`LeaveOrRemove` are `leave_and_remove_chat`, and every native call passes
`EnterGate`, `Answered` and `Acknowledged`, whichever phase it belongs to.
`Accounted` and `Consistent` are the two validators a record has to pass before it
is published, so that an engine that writes a record its own store refuses shows.  That
records are compared by `updated_at` as well (`engine_context.rs:273`) is a disjunct of
`Publish`: the wall clock may be set back at any publication that stamps a record, at
most `MaxSetbacks` times.
`Passed` is the set of the targets behind a cursor, which `validate_job` sums up.
External: `Performed`, what a call that Telegram carried out does to the chat.

### TelegramIdentity and ProviderService

`login` is the account TDLib is signed in as, `updates` what it has broadcast.  Two
tasks hand authorization states to the gateway: the update loop, and the first
request of a connection, whose answer may be older than an update already handled.
`identity` and `binding` are under different locks, so invalidation is two steps;
`attempt[g]` is the verification of generation `g`, which may end in any later one.
`ProviderService` extends it.  `slot` is the registered lifecycle, `lifecycle` every
instance with its own copy (`last`) and quarantine, over one `store`; a command goes
through `Lock`, the construction of a new lifecycle (`BuildContext` .. `Register`,
all under the registration lock) or its use, and `CommitChange`.  A service that is
replaced takes the gateway's tasks with it (`Restarted`).

### DiscordDelete

A call takes a permit, gets the lock of its channel out of the map (pruned when
full), waits for the global deadline it read, for the account's pacing and the
channel's, verifies ownership and sends the deletion; it does so up to
`MaxAttempts` times.  `locks[ch]` names a lock by the call that created it, so two
locks of one channel can be told apart.  External: `message`, what Discord has;
`late`, deletions the client has given up on that may still be carried out.  Time
is kept only as far as it is compared: a global limit is in force or elapsed, and a
call waits for the one it read (`ReadGlobal`), also when it is told of another later.

### DiscordSession

Each critical section of the session mutex is one step, and so is each vault
operation, because the vault has a mutex of its own.  A credential is named by the
call that brought it, and the identity follows from it.  `latest` observes which
attempt nothing has superseded; it is kept apart from the generation, so that the
generation is what is being verified.  `VaultWrite` fails either before or after
the Keychain changed.  The `vault` is one that has been loaded, over a Keychain no
other process writes (the lease of `vault_lock.rs`).  Request and RequestAnswered
are `with_token` and the 401 the remediation adapter turns into a shutdown.

### FoundationStore and DurableJobs

A file is absent, partly written, the legacy ciphertext, or a set of changes, with
`Imported` for the records a legacy store brings along.
`dir` is what processes see, `disk` what each entry may be after a loss of power:
syncing a file settles its content, syncing the directory settles the entries and not
the content.  The backup of a legacy store is created, written (`CopyBackup`) and synced
(`FlushBackup`) in steps; an opening that finds one with the right content goes on with
it (`BeginBackup`), synced or not, which `adopted` observes.
`PowerLoss` picks for each entry one of those.  Calls on one store exclude each
other, so a process has at most one in progress.  `DurableJobs` is the register
the lifecycle assumes; `FoundationStore` implements it with
`value <- dir["active"].has \ {Imported}`.

### ArchiveDb, ArchiveStore and DiscordImport

`ArchiveDb` has one operator per operation of `ArchiveStore`: it takes the content
of the database and returns the content after the transaction, the error and the
reply, so an operation that fails changes nothing by construction of SQLite, not of
the model.  `ArchiveStore` adds the file (`active`, `journal`, `candidate`), the
steps of opening and of the upgrade of a version 1 file, the sessions that callers
hold, and death.  `DiscordImport` adds the job, which compares the metadata of the
file before, between and after its batches, the bounded queue and the thread of the
worker, the owner of the one running import, the lazy owner of the worker, and the
shutdown of all of them; a lock is a variable and a wait is a guard.

### The modules MCRules runs

Each is a component that shares no state with the others.  `MCRules` starts one of
them and leaves the others idle, so that a run is the sum of their states, not the
product.

* `DiscordArchive`: `held` is what the file holds now and `listed` the directory
  that was inspected.  `InspectDirectory`, `Detect`, `Open` and `Visit` start a call,
  `tasks` are the entries it still has to read (`OpenTasks`, `VisitTasks`), and
  `Overwrite` may come before each.  The entries must cover the file without a gap when
  the directory is read (`Tiled`); what an entry is read to its end for is the checksum
  of the bytes that were read, even if the file has changed since.
  `Hints` are inspections a caller may present that are not what `detect` returned.
* `ArchiveSyntax`: the bytes of an input are fed one by one, as chunks may be of any
  size; the state of the guard is compared with definitions over the whole input.
* `TelegramCatalog`: `summary` against `shown` and `version`, the truth at Telegram;
  `dirty` are the marks.  A call reads, is overtaken, and writes; `chat_by_id` removes
  the mark of its chat in a step of its own (`Unmark`), the loop drops the cache and then
  the marks (`ClearMarks`), and loses updates when it lags (`Lag`).  `overtaken` observes
  the chats that were left without the mark they need.  The catalog of one authorization.
* `TelegramReads`: one read of each kind, request by request, against `Histories`; a
  search of named chats stops when it has enough (`Satisfied`), the search of everything
  (`everywhere`) makes both of its halves.
* `TelegramPlanning`: three readings of the rights of an account, from which an
  intent is described, prepared and carried out, and the two sets of rules a plan
  passes: the ones it is made by (`recipe.rs`, `planning.rs`) and the ones its
  envelope is sealed and reopened with (`retract-domain`).
* `SecretVault`: an item is its edition and what that edition can carry; a write that
  fails may have landed, and a process may die after each Keychain call.
* `DiscordRemediation`: two calls of the adapter at once, request by request, with
  the delete client's attempts reduced to look, erase and lose; and the queries of
  `application.rs` over the paged archive.
* `LegacyMigration`: one step, over every list of plans and jobs of `MCRules`.  An error
  code is its name, with or without the prefix that is dropped; what the names are matters
  only in so far as this version knows them.

## 3. What the runs check

| Run | Instance | Shows |
|---|---|---|
| `frozen_job` | one handler and job, batches of 1 and 2; a rate limit, a fault, a crash | `DeletedIsReal`: what is recorded deleted was removed. `RecordIsHonest`: the file names the batch in flight, its counters add up to the batches gone through, sight of one batch at most is lost, what was removed and told of as refused is among the failed, and a job shown as completed went through its plan and had no such call. `WaitingJobHasWorker`. Liveness: `EveryJobEnds`, `CommandsReturn` |
| `frozen_commands` | two handlers, two job identities of one plan, two approvals; a fault, a crash | `CancelIsFinal`, `NoReplay`, `StoppedIsQuiet`, `ApprovalSpentOnce`: what racing handlers may not do |
| `telegram_job` | three compound operations, two batches of one target, two handlers, one call; a rate limit, a clock set back, a trouble, two workers | `PhasesInOrder`: nothing is left before it is cleaned up and nothing removed before it is left, each durably. `CompletedMeansDone`. `SendsAreAllowed`: no native call by a recovered job, after a lost answer, or past a cancel. `OwnRecordsAreAccepted`: the engine writes no record its own store refuses, but where the wall clock was set back or a cancel meets the wait of a rate limit (the race of finding 1, in the Telegram worker). Liveness: `ComesToRest` |
| `telegram_session` | two accounts, three login changes, two generations, three commands by two handlers, two plans, one upset | `ServedByItsContext`: the program settles on no account but the one signed in, and a command is served by the lifecycle of its own context. `RecordedJobsSurvive`: of two lifecycles over one store neither loses what the other recorded |
| `discord_delete` | one deletion and two verifications of one message, two permits, two attempts each, a lock map of one entry, one global limit | `ChannelSerialized`, `ConfirmedIsAbsent`, `EditedSurvives`. Liveness: `CallReturns` |
| `discord_session` | three commands of any kind, two accounts, one failing write | `ForgetErases`, `SupersededChangesNothing`. Liveness: `VerifyingEnds` |
| `store` | two processes, two changes, a new or a legacy profile; two faults, two deaths | `SavedIsDurable`: saved changes survive any loss of power, refused ones are nowhere, a migrated store has its backup, exact unless an opening took over one that was not synced, an open store works on what is there. `IsDurableJobs`: the refinement |
| `archive` | two sources, three items, two sessions of two batches, a new file and two of version 1; queries with pages of one | `StoreReopens`: no sequence of operations and deaths commits a content the next open refuses. `RowsAreTheSessions`: rows change by the session that holds the run or by removal. `PagingIsExact` |
| `discord_import` | two imports in a row; two archives that begin with the same batch, of two and of three batches; a queue of one; two troubles, one of them an upset or both changes of the file | `ReadyHoldsTheSelectedArchive`: a source that is ready has every batch of the archive its fingerprint names, in order, and the rows of the batches stored. `OutcomeIsDurable`: what an import reports is what the store keeps. Liveness: `ImportsComplete`, shutdown included |
| `rules` | each of eight components alone, over the instances in `MCRules` | `CompletedIsInspected` (`DiscordArchive`), `SyntaxIsExact`, `StaleIsMarked` (`TelegramCatalog`), `QueriesAreExact` (the paged reads of `TelegramReads`, and the searches and listings of `DiscordRemediation`), `PlansAreWhatWasOffered`, `SecretsAreKept`, `WhatIsDeletedWasReviewed` (`DiscordRemediation`), `MigrationKeepsHistory` |

Two more runs end in a violation, each of a sentence the repository says of itself.

### Findings

1. `frozen_quarantine` (`QueuedStaysCancellable`).  `docs/TEST_PLAN.md:133` has a rate-limited job stay
   cancellable.  A worker reads its cancellation and then publishes Running
   (`frozen_lifecycle.rs:479-491`); a cancel that publishes Cancelled in between
   makes that a step from a terminal status, which the repository refuses and
   `transition` answers with the quarantine of the whole scope, although the store
   never failed.  From then on no other queued job can be cancelled.
2. `telegram_leave` (`LeavesNothingEligible`).  `docs/TEST_PLAN.md:110` has every
   eligible message deleted before the account leaves a chat.  A batch that fails,
   a timeout of its preflight included, is counted as failed and passed
   (`providers/lifecycle.rs:131-155`); the worker then leaves
   (`remediation/execution.rs:215-223`), and those messages are out of reach.

### Known disagreements

Where the code does not do what is said of it, or what its owner would expect, as met
while modelling it.  A property that such a step would break is stated so that it
holds, and its comment says what it leaves open; a few of these steps (the lag of the
authorization updates, the figures of an intent, the timing of settings and file) are
outside the models.

Of the lifecycle:
* A mutation whose worker had passed the quarantine check (`frozen_lifecycle.rs:538`)
  when another job's save failed is still sent; `error.rs:21` says that no further
  actions were scheduled.
* A cancel during a rate limit may quarantine the Telegram engine as well
  (`execution.rs:540`); `OwnRecordsAreAccepted` excepts it.
* A wall clock that is set back makes the next record of a job older than the last one;
  the repository refuses it (`lifecycle.rs:222`, `engine_context.rs:273`; a new job may
  fail `plans.rs:283` the same way) and the lifecycle is quarantined, although the store
  never failed.  `OwnRecordsAreAccepted` excepts it.
* A prepare of a lifecycle that was replaced meanwhile may commit after its successor
  loaded; nothing is lost, but the successor's next commit is refused and quarantines
  it (`lifecycle.rs:229`).

Of Discord:
* When the answer of a deletion is lost and its retry finds nothing or is refused, the
  call ends in a plain failure (`http.rs:262-268`, 281-286), which the adapter passes on
  as one (`remediation.rs:414`).  The removed message is counted as failed, where
  `docs/ARCHITECTURE.md:63` has an ambiguity stay uncertain and `docs/TEST_PLAN.md:62`
  asks for truthful counters.  `RecordIsHonest` says what is left of the truth: the
  removal is among the failed, and the job is not shown as completed.
* `forget` disconnects and then erases (`session.rs:379`): a restore that completes in
  between stays ready in memory on a credential that is gone; `README.md:114` says
  the in-memory session is cleared.
* A token copied before a sign-out is used for the whole look or deletion that copied
  it, and a 401 for it shuts down whichever session there is by then
  (`remediation.rs:260`).
* More than 200 selected messages are refused as an invalid archive (`query.rs:202`)
  although `remediation.rs:161` takes 100,000; a message named twice is refused only
  after every message was looked at.  A listing of 100,001 to 100,200 conversations is
  refused or not depending on how they fall on the last page.

Of Telegram:
* 100,000 messages may be planned, but an envelope with its chat holds one target
  less and 1,000 steps: a leave with close to 100,000 deletable messages and a selection
  over more than 1,000 chats are offered and refused when published.
* An intent over more than ten messages is offered as of low impact and prepared as of
  medium; one of leaving is offered as high and prepared as medium when nothing can be
  deleted.
* Updates that arrive while the catalog is first loaded are not kept; the load does not
  ask whether a chat it read is still listed; a read that was overtaken may write an
  older summary over a newer one, and `chat_by_id` drops the mark of a change that
  arrived after it wrote (`live_gateway.rs:1687-1689`).  An update that a lagging loop
  skips (291) leaves no mark.  In each case the catalog may show a chat as it no longer
  is until its next update; `StaleIsMarked` excepts them.
* A privacy scan that another search supersedes answers with an empty list as if it
  had found nothing; an initial authorization state may be processed after updates that
  are newer.

Of the files:
* A process that dies between creating the backup of a legacy store and filling it
  (`foundation_store.rs:518`) leaves one that every later opening refuses;
  `persistence/tests.rs:1455` has interrupted migrations retry safely.  A death in the
  first save of a new profile (486) leaves a candidate without an active file, which is
  refused as well.
* One that dies, or whose sync fails, between writing that backup and syncing it
  (`foundation_store.rs:522-523`) leaves a backup the next opening finds identical and
  goes on with, syncing only the directory (539): a loss of power may then leave the
  migrated store with a backup that was cut short, where `docs/STORAGE.md:11` has the
  exact ciphertext retained.  The records are in the migrated store; `SavedIsDurable`
  excepts the backup.
* A legacy store with a finished job that asks for a new review is refused as a whole;
  counts of uncertain deletions are not carried over.
* A death between the creation of the archive file and its schema leaves an empty file
  that is refused for ever; so are a leftover candidate or a journal beside a version 1
  file.  A failed first open is final for the process.
* `finish_import` (`ingest.rs:129`) does not compare the batches appended in this
  attempt with those stored, which earlier attempts may have appended.  Batches read
  from a file while it was changed, and beyond the end of what it held before, stay in
  the source when the file is changed back and the import retried: the source becomes
  ready with records that are not in the archive its fingerprint names.  The invariant
  therefore says that a ready source *holds* its archive, not that it is the archive.
* A batch committed from a file that then changed makes every retry of that source fail,
  when it stands in place of one of the archive; a run whose closing transaction failed
  makes further imports busy until the application starts again.
* Saving the settings writes the hash and then the file: a failure between them leaves
  the new hash with the old identifier.  A failed load of the vault is final for the
  process, which keeps the lease.  `reconcile` guards only the index key against an
  item that lost a key.

### Bounds, and why they are enough

* Job, plan and handler identities: what goes wrong here goes wrong between one
  worker and one or two handlers of the same job; jobs share only `failed`,
  `stopped` and the projection.  Two jobs appear where they compete for a plan
  (`frozen_commands`) or where one suffers from another (`frozen_quarantine`).
* Batches of 1 and 2: a batch can be partly skipped, a second batch follows a first.
* `MaxRateLimits`, `MaxFaults`, `MaxCrashes`, `MaxDeaths`, `MaxTroubles`, `MaxUpsets`,
  `MaxSetbacks`, `MaxApprovals`: one or two of each, enough for each to meet every step and, in
  `store`, each other.  `frozen_commands` has no rate limit: what waiting adds to the
  commands is in `frozen_job`, and in the proofs, which have no bounds.  The bounds stop
  the environment, never the code.
* `telegram_session`: three login changes are out, in, and in as somebody else; three
  commands by two handlers let a third be served by what the first two left.  Left out:
  lag of the broadcast and the stages of the sign-in dialogue.
* `archive`: two sessions, so that one can supersede the other; two batches, so that an
  import can stop between them; pages of one record, so that every boundary between
  records is one between pages.
* `discord_import`: two imports, so that one can retry or supersede the other; archives
  that share a beginning and differ in length, so that a file changed under the reader
  may leave too few batches, other ones or too many; two changes, so that a file can be
  changed back.
* `rules`: a file of an export may be replaced twice, so that it can be changed back
  between two reads.  Limits of the code (pages of 100, 1,000 steps, 100,000 targets, 200
  identifiers) are shrunk to 2 or 3, so that each is met and passed.  Quotas of the
  archive reader are a call that may stop at any step.  The histories a read goes
  through stay as they are while it lasts.  The chat of the plans has four messages, one
  more than a plan may have, two in a batch.
* The Discord client makes three attempts; the instance has two, one that may be retried
  and the last, which are the two kinds the code tells apart.  Its lock map is shrunk to one
  entry, so that pruning happens at once; one global limit may be announced, at any
  attempt.  Its permits are two, one fewer than the calls, so that a call waits for a
  permit while those that have one wait for the channel, the pacing or the limit.  Two of
  the three calls only verify, which is a prefix of the steps of a deletion: what two
  deletions of one message do to each other is in the proofs, which have no bounds.
* `frozen_job` has one handler, so that `CommandsReturn` is checked against the worker and
  the crash; that a stop returns while other handlers recover and start is not: the bound
  on a liveness check with two handlers is out of reach.  What a worker may do after the
  drain is `StoppedIsQuiet`, with two.
* An instance is stopped once, a Discord call and a session command are made once;
  the next is another member of the set.
* Symmetry is used only in runs without liveness and refinement, over sets whose
  members the modules treat alike.

### Fairness, and why the code justifies it

Weak fairness is given to a task that has been spawned or called: the async
runtime polls it until it ends, and requests, captures and verifications carry
timeouts, so that an external answer or its timeout always comes.  In
`DiscordDelete` the deadline of a global limit passes.  In `DiscordImport` the fair
action is any step of the program's own tasks and threads (`System`), which is weaker
than fairness of each.  Callers, owners at a prompt, crashes and reopening owe
nothing.  No strong fairness is assumed.  `EveryJobEnds` excepts a quarantined or
dead process, as the code does.

Deadlock is checked where the states in which everything has been done stutter
(`Rest`, `AtRest`).  It is not checked in `archive`, `discord_import`, `rules`,
`telegram_job`, `telegram_leave` and `telegram_session`, where the system may stop
because every bounded environment action has been taken; in two of them a liveness
property says that nothing stops half way.

## 4. What is proved

TLAPS proves, for every value of the constants, from the assumptions named in the
modules (`NoneAssumption`, `EndsAssumption`, `BoundsAssumption`; `SessionAssumption`;
`CallAssumption`, `BoundAssumption`; `StoreAssumption`; `SizesAssumption`,
`BoundsAssumption`; `IdentityBounds`, `NoneAssumption`, `ServiceBounds`,
`NoOneAssumption`; `ArchiveDbAssumption`, `ArchiveStoreAssumption`,
`DiscordImportAssumption`; `VaultAssumption`, `TelegramCatalogAssumption`,
`RemediationAssumption`; `DiscordArchiveAssumption`, `LegacyMigrationAssumption`,
`TelegramPlanningAssumption`), all of which say no more than that markers are not identities,
that batches of targets are not empty and batches of records finite, that the commands in
progress are finitely many, that there are as many identifiers of sources (UUIDs, in the
code) as imports, that secrets are numbers other than the one that stands for none, that
what an earlier version left (an item, a file, a plan, a job) has the form that version gave it, that a message is known
by its chat and number, that a chat between two has no members, that a selection too large
for a plan is refused before it is read, and that bounds are numbers:

| Theorem | States |
|---|---|
| `FrozenLifecycleProofs!Inductive` | `Spec => []IInv` |
| `FrozenLifecycleProofs!TypeCorrect` | `Spec => []TypeOK` |
| `FrozenLifecycleProofs!CancelFinal` | `Spec => []CancelIsFinal` |
| `FrozenLifecycleProofs!NeverReplays` | `Spec => []NoReplay` |
| `FrozenLifecycleProofs!DeletedReal` | `Spec => []DeletedIsReal` |
| `FrozenLifecycleProofs!QuietAfterStop` | `Spec => []StoppedIsQuiet` |
| `FrozenLifecycleProofs!PlanOnce` | `Spec => []PlanRunsOnce` |
| `FrozenLifecycleProofs!LedgerKept` | `Spec => []LedgerInv`, which no run checks by itself |
| `FrozenLifecycleProofs!ApprovalsSpentOnce` | `Spec => []ApprovalSpentOnce` |
| `FrozenLifecycleProofs!WaitingHasWorker` | `Spec => []WaitingJobHasWorker` |
| `FrozenLifecycleProofs!RecordHonest` | `Spec => []RecordIsHonest` |
| `TelegramCleanupProofs!Inductive` | `Spec => []IInv` |
| `TelegramCleanupProofs!LeavingIsLast` | `Spec => []PhasesInOrder` |
| `TelegramCleanupProofs!CompletedIsDone` | `Spec => []CompletedMeansDone` |
| `TelegramCleanupProofs!OnlyTheStartedWorkerSends` | `Spec => []SendsAreAllowed` |
| `TelegramCleanupProofs!AcceptedInductive` | `Spec => []AcceptedInv` |
| `TelegramCleanupProofs!RecordsAreAccepted` | `Spec => OwnRecordsAreAccepted` |
| `RulesProofs!DeleteInductive` | `Spec => []IInv`, of `DiscordDelete` |
| `RulesProofs!OneCallPerChannel` | `Spec => []ChannelSerialized` |
| `RulesProofs!ConfirmedAbsent` | `Spec => []ConfirmedIsAbsent` |
| `RulesProofs!EditsSurvive` | `Spec => []EditedSurvives` |
| `RulesProofs!VaultInductive` | `VaultSpec => []VaultInv` |
| `RulesProofs!SecretsKept` | `VaultSpec => []SecretsAreKept` |
| `RulesProofs!CatalogInductive` | `CatalogSpec => []CatalogInv` |
| `RulesProofs!StaleMarked` | `CatalogSpec => []StaleIsMarked` |
| `RulesProofs!RemediationInductive` | `RemediationSpec => []RemediationInv` |
| `RulesProofs!DeletesAreReviewed` | `RemediationSpec => []WhatIsDeletedWasReviewed` |
| `RulesProofs!ArchiveInductive` | `ArchiveSpec => []ArchiveInv` |
| `RulesProofs!CompletedMatchesInspection` | `ArchiveSpec => []CompletedIsInspected` |
| `RulesProofs!MigrationIsFaithful` | `MigrationSpec => []MigrationKeepsHistory` |
| `RulesProofs!PlanningInductive` | `PlanningSpec => []PlanningInv` |
| `RulesProofs!PlansAreOffered` | `PlanningSpec => []PlansAreWhatWasOffered` |
| `DiscordSessionProofs!TypeCorrect` | `Spec => []TypeOK` |
| `DiscordSessionProofs!ForgetIsDurable` | `Spec => []ForgetErases` |
| `DiscordSessionProofs!LateAttemptsAreHarmless` | `Spec => SupersededChangesNothing` |
| `FoundationStoreProofs!Inductive` | `Spec => []IInv` |
| `FoundationStoreProofs!SavedSurvives` | `Spec => []SavedIsDurable` |
| `FoundationStoreProofs!ImplementsJobs` | `Spec => IsDurableJobs` |
| `ProviderServiceProofs!Inductive` | `Spec => []IInv` |
| `ProviderServiceProofs!ServedByContext` | `Spec => []ServedByItsContext` |
| `ProviderServiceProofs!RecordsSurvive` | `Spec => RecordedJobsSurvive` |
| `ArchiveStoreProofs!StoreInductive` | `Spec => []StoreInv` |
| `ArchiveStoreProofs!StoreAlwaysReopens` | `Spec => []StoreReopens` |
| `ArchiveStoreProofs!RowsOfTheSessions` | `Spec => RowsAreTheSessions` |
| `ArchiveStoreProofs!PagesAreExact` | `Spec => []PagingIsExact` |
| `DiscordImportProofs!Inductive` | `Spec => []IInv` |
| `DiscordImportProofs!ReadyHolds` | `Spec => []ReadyHoldsTheSelectedArchive` |
| `DiscordImportProofs!OutcomeDurable` | `Spec => []OutcomeIsDurable` |

**The lifecycle.**  None of the properties is inductive.  `CancelIsFinal`, for one,
must rule out that `recover` schedules a second worker for a cancelled job which
then mutates.  That rests on the job being terminal once the cancel has committed
(`CommandsOk`, `AckedOk`); on a worker leaving only a job that is over, and a
second worker never getting past its claim (`EndsOk`), because the repository
refuses a step from a terminal status, which needs the file to know what memory
knows (`RecordsOk`); and on the map and the tasks agreeing (`WorkersOk`).
`NoReplay` needs `AuthorityOk`: every way into a worker, a handler's list of jobs
included, begins with a start of this process.  `BatchesOk` bounds the counts of
the batch in hand, `DeletionsOk` ties a success about to be recorded to what was
removed, `DrainOk` says that a worker spawned after the drain is turned away by its
first check, and `PlansOk` that a plan has one job in both copies.  The proof has
one lemma per part and group of actions; `PublishEffect` and `PublishRecords` say
once what a publication does.

**The ledger of the lifecycle.**  What is spent and what is recorded needs
`LedgerInv`, a second inductive invariant on top of `IInv`, which needs nothing of it.

* `ApprovalSpentOnce` compares the approvals of a plan with the sum of three counts:
  grants, starts between consuming and committing, jobs started.  It is inductive
  once the counted sets are finite (`CountableOk`); each step moves one element from
  one set to the next, and the lemmas on cardinalities say so once.
* `WaitingJobHasWorker` needs `DeadlinesOk`: no deadline outlives a process, because
  opening closes every unfinished job, and none is set but by a worker.
* `RecordIsHonest` relates counters, cursor and what the provider removed, across
  faults.  Its parts are `AgreeOk` (memory and file differ only in quarantine),
  `SumsOk` (the counters of a job add up to the batches it is past), `CursorsOk`
  (where the cursor stands at each step of the worker, and that a batch that is
  mutated has been reached to the last target), `BalancesOk` (who knows of which
  removals: a worker in its loop of all of them; a closed job may miss the one batch
  in flight; before the first fault or death, which `BudgetOk` makes visible, nothing
  is missing), `DenialsOk` (removals that were told of as refused are among the failed
  of the batches behind the cursor; a batch that lost targets so is reached again at
  most, never mutated, and settled as a failure) and `CompletedOk`.
  `EndsOk` of `IInv` is what keeps a second worker from continuing a job of which a batch is missing.

`Ends` gives the cumulative ends of the batches of a plan, as the slices of `chunks`
are cut, so that the size of a batch is a difference of two of them and no sum over a
sequence is needed.

**The Telegram cleanup.**  `RecordsOk`: every record in memory or in the store passes
the validators, and the phase it has counted was acknowledged.  `WorkersOk`: a second
worker meets a job that is over and never enters a phase, so the flags of a command
are about the only worker that can send.  `CommandsOk`: a command past the gate has
the worker out of flight.  `SentOk` places the worker after what the observers saw (a
lost answer, a cancel through the gate).  `PhaseOk` says what each phase has
established: the batch in hand fits the plan, the leave comes at the last cursor, a
removal only once the leave is stored.  `PhasesInOrder` and `SendsAreAllowed` follow
from all of them, `CompletedMeansDone` from `CompletedOk`.

`OwnRecordsAreAccepted` says of every publication that it passes the validators, so it
needs what the validators count, in memory as well as in the store: `AcceptedInv`.  A
record that is *about* to be written must pass, which takes two facts about the worker:
`WholeBatch` (a batch that is sent, or was, has been preflighted to its last target, so
that what was allowed and what was skipped make up its size) and `StatusOk` (only a
cancel ends a job under a worker in its phases, save for a batch that ends it itself).
The targets behind the cursor are a set, `Passed`, and the sum of the code its
cardinality: a step of the cursor adds the disjoint targets of one batch
(`PassedCounts`), with no induction over a sequence.  The exception in the property,
`UndoesCancel`, is the race of finding 1 in the Telegram worker: without it the statement
is false, as it is without the clock that was set back.

**The delete client.**  `HandleInMap`: a call that holds or waits for a lock of its
channel has the one the map has, although pruning removes entries, since the
reference count spares those in use; `LockExclusive`: two critical calls never have
the same.  Together they give `ChannelSerialized`.  `PermitsCounted` (no permit lost
or given twice) and `AccountHeld` are needed for the steps that release on return.
`KnownEdited`: an edit is final, and whoever saw it is not about to send.

**The vault.**  `HolderAlone`: only the process with the lease has a copy of the item or
a call in progress, which is what lets the rest speak of one copy.  `CopyOk`: a copy that
need not be read again is the item, or the emptiness before the first one; a copy that a
failed write has made doubtful (`needs_read`) still tells the truth of every key it has,
because no write changes or drops one.  `CallOk` follows a call: what it is about to write
adds at most the one secret it is about and is of no earlier edition (`Adds`), and once
written, that is what the Keychain has, whatever the write reported.  `KeychainOk` relates
the item to what was said of it; `SecretsAreKept` is a consequence.  The invariant needs
both the copy and the item, since a process that dies after a failed write leaves only the
item, and one that lives on may first write over it.

**The catalog.**  `StaleIsMarked` is not inductive: an update, a mark and a reader take the
responsibility for a stale summary from each other.  `Owed(c)` says who may have it: a mark,
an update still to be processed, or a refresh that has taken the mark and either has yet to
read the chat or has read what it is now.  A reader of a single chat cannot be relied upon,
because it may fail without giving the mark back.  `StaleIsOwed` says that a summary that
is not current is owed, or was overtaken; `OvertakenIsKnown` that whoever holds an outdated
reading is in a race the property excepts, or that what overtook it is announced;
`LoadsAlone` and `ReadersOk` are what the first load needs.  While the loop is about to
drop the marks (`ClearsAlone`) they count for nothing; no update is handled until it has,
so the one that goes with a mark set meanwhile is still to come.

**The remediation adapter.**  `RequestOk` follows a call: a mutation acts for one target of a
plan that was made (`ByAPlan`), and at its n-th look it has seen the n - 1 messages before,
each of the owner.  `PlanSeen` says of every plan that its targets are what was seen when it
was described, and `ErasureSeen` of every deletion that it has both.  That the plan shown and
the steps executed are of the same messages rests on `ByIdentifier`, an ascending sequence of
a finite set: it exists (`Ordered`), and whatever `CHOOSE` takes has exactly the members of
the selection.

**The reader of exports.**  The file may be another one at every read, so the invariant is
about the directory that was accepted (`DirectoryOk`), never about the file: what a read is
told to be good has the checksum the directory has for it.  `ProfileOk` says that a profile,
the caller's copy included, names entries of the directory and every folder once;
`DetectingOk` and `OpeningOk` that the tasks of a call come to a context once and only to
those it has not done, which is why no two channels of `SelectionOk` share a folder, and why
an open that has done all its tasks has left nothing out.  `VisitingOk` and `SinkOk` tie the
position in the tasks of a pass to what the sink has: after an even number of them every
channel in it is complete, after an odd number all but the last.  `PairedIs` and the lemmas
on lists say what the tasks are, whatever ascending order `CHOOSE` takes.

The proof corrected the model.  A checksum was first compared with what the file holds when
the entry ends; that made a property hold by timing which the code has to earn, and did not
admit a file that is replaced after its last byte was read.  The end of an entry now judges
what was read, as `ArchiveInventory::consume` does, and the instance lets a file be changed back.

**The migration.**  One step, so the invariant only says that what was migrated is what
`Migrate` makes of the earlier store.  The argument is in the lists: the codes that are kept
are those of the known places (`SafeCodesAre`), an entry of the history says what its job
said (`HistorySays`), an identifier is found once because jobs are told apart
(`MigratedIsKept`), and each way to a refusal is one of the causes (`RefusedForCause`).

**The plans for Telegram.**  Most of the argument is about operators.  `Cut` says what it
means that batches cut a set of messages; chunks of one chat's messages do (`CutChunks`, by
where a place falls when a list is cut: `PieceOf`), and so does the concatenation of lists
that each cut a part of their own (`CutFlattened`, by the least list at which it would
fail), hence `BatchesCut`.  `Plannable` is what every endpoint makes (`ConstructedAre`); of
such a plan, `StepsAre` gives kinds and targets of its envelope, `TargetsCounted` their
number, `Rebuilt` that its recipe stands for it and for no other, `PlanSeals` that an
envelope fails by its size alone, `PlanPasses` that it passes again under either policy,
`ReasonIs` and `JobCounts` what the owner is asked and the job counts.  The invariant adds
where these hold: `PlanningCurrent` says that the offers and the summary are of the chat as
it is while nothing changes, `PlanningMade` that from its publication on a plan is
`Plannable` and its envelope its own.  `DemandsAreAllowed` is about the state of the last
reading alone, so nothing earlier has to be remembered for it.

The proof corrected the property.  It had every available intent to leave end in a plan; but
`DeletionPlan` refuses more messages than a plan can have (`cleaner-domain/src/lib.rs:528`),
which no instance had.  The property now excepts it, and the instance meets it.

**The archive store.**  The content is a record that every operation maps to another, so the
proof is in two halves.  The first is about `ArchiveDb` alone: `DbOk` (what the schema
admits and validation accepts, source by source in `SourceOk`) is kept by every operation,
and each moves a source only as `Goes` says: its revision grows and, while it does not, its
rows stay; rows change by an append of the session that holds the run, or go with their
source; a session is issued only to a new run.  `SumsAgree` and its companions say that the
ledger of warnings grows with its receipts.  The second half is about the system and uses
nothing but `Steps`, the conjunction of the two: `FileOk` (what is in the file at each step
of opening and upgrading), `SessionsOk` (a session that was revoked no longer holds its run
or has its flag raised), and `PagerOk`: what a reader has seen are the newest of the
matching records (`Above` the last one seen), and they are still all there while the run has
the generation of the cursor.  `RowsAreTheSessions` is then read off `Goes`.

**The store.**  The invariant is about what a loss of power may leave: everything in
`disk["active"]` has what was saved and nothing that was refused (`Fallbacks`), is no
more than processes see (`EntriesOK`), and is migrated only if the backup is there, and
durable unless it was adopted (`MigratedBehind`); the rest (`MigrationOK`, `SaveOK`, `OpenOK`, `LockOK`) says what a
process has established at each step of a migration or save.  `ImplementsJobs` maps
each step: replacing the active file is the commit of the register, the loss of power
its fall-back, and every other step leaves it alone or only decides the outcome.

**The session.**  `SessionInv`: an attempt that carries the session's generation is
the latest one; an attempt to be verified has a token; and the cached vault is the
Keychain unless a read is due.  The first part is what makes comparing generations
sufficient, the last what makes a successful forget true.

**Identity and service.**  `IdentityInv` is about the gateway: generations are numbered
as they begin (`BegunOk`); only the last may be believed (`IdentityOk`); the status
`Pending` means that a verification of the generation is under way (`AttemptsOk`),
so a retry never meets one that is about to publish; and `TruthOk`: an account that
is not the login has its logout yet to be handled, in the queue, by the update loop,
or between its two writes.  Of a context that has been published (`Published`) the
generation is not verified again, hence `Carried`: once it is out of force, it never
is in force again.  That is what makes a check of the context, followed by a wait,
sufficient.  A command, or the registered provider, that holds on to a context holds
a published one (`HeldOk`), so what `CommandsOk` says of a command ("if its context is
in force, then ...") survives every step of the gateway.  `ServedByItsContext` follows
with `SlotOk`; a build that ends after its context has been replaced is turned away by
`Register`.  `BuilderAlone`: while one command builds, nothing is registered and no
worker is left, so the new lifecycle meets no running job; that there is an unused one
(`SomeUnused`) is the pigeonhole principle on the commands.  `RecordsOk` (a lifecycle
knows of its own scope only) and `WorkersOk` (a worker's job is known to its
lifecycle) give what `RecordedJobsSurvive` needs of every publication,
`PublishEffect`; the blocking of foreign jobs is `BlockForeignKeeps`.

**The import.** Between two looks at the file lie batches, waits and the worker's
thread, so the invariant follows the job: `Stages` says which of its fields mean
something at each step, `Queued` that the worker has at most the one command the job
waits for, `Owner` who holds the job lock and what the shutdown has done by then. Of the
data, `Staged` says of every source that its rows are those of its receipts, and of a
ready one that its receipts begin with its archive; `Room` that an identifier is left
for a new source. `Owns` is the tie between the two: the session of a job is that of its
run as long as the source is there, and another client can only remove the source.
`Replay` is the heart of `ReadyHolds`: while the metadata of the file is what it was
when it was hashed, the file is the archive of the fingerprint, and the receipts up to
the job's next batch are the first batches of that archive, either written by this
attempt or found equal by it. A change of the file makes `Replay` say nothing, for good,
and `Verify` and `Verified` turn the job away; so `finish` is only asked by a job of
which the batches are all the archive has. `Phased`, `Cancelled` and `Importing` give
`OutcomeDurable`: what the end of a run was told of its phase, that the flag was raised
before anybody reports a cancellation, and which runs may still be importing. These
parts are operators of a record `j`, not of the variable, so that a step of the job is a
lemma about the record before it and the record after it; each command of the worker is
a lemma about the operator of `ArchiveDb` it runs (`AppendBatchKeeps`,
`FinishImportKeeps`, ...).

An earlier form of the property had a ready source *be* its archive.  Its proof failed
for a good reason: with a third batch and a second change in the instance TLC found the
behaviour described under "Known disagreements".

Each invariant was model-checked before it was proved.  `TypeCorrect` and `PlanOnce` state
what `IInv` contains; no run lists their properties separately.

**Induction.**  The library's induction theorems take an operator as a parameter, which the
installed provers cannot instantiate.  Where a statement about numbers was needed all the
same, it is proved by the least element of the counterexamples: `LeastNatural` of
`ArchiveStoreProofs` follows from the well-foundedness of `<` on the naturals (`WFMin`), a
theorem about sets.  This reaches recursive *functions* whose defining equation can be
established (the sums of `Warnings`, the concatenation of `FlattenSeq`: `FlattenSeqIs`) and
finite sets (`Ordered`, `DescendingExists`); it does not reach the folds of the community
modules that take an operator, `SelectSeq` or RECURSIVE operators.

**Only model-checked.**

* The liveness properties: liveness under fairness and ENABLED are out of the reach
  of the prover.
* `SyntaxIsExact` of `ArchiveSyntax` and `AnswersAreExact` of `TelegramReads`: they
  depend on what folds and selections over sequences compute, and on operators declared
  RECURSIVE.
* `QueriesAreExact`, which contains the reads of `TelegramReads`.

## 5. What is not modelled, and why

* Clocks: times of update (but for a wall clock that is set back, a step of `Publish`),
  expiry of plans and grants, timeouts as durations.  An order that the code derives
  from a clock is taken as it is.
* The sign-in dialogue of Telegram, the correlation of requests and answers in
  `tdjson.rs`, and driving the sign-in browser: external programs behind one call each.
* Encryption, file formats and the encodings of records: a file, an item or a record
  is what can be told apart by what reads it.
* The contents of messages, beyond what selects or counts them: the privacy rules of
  `sensitive.rs` are pattern matching over text.
* Conversions of Telegram data to the neutral domain, IPC decoding, the provider
  registry, prompts, the demo gateway and the user interface: functions of their
  input, or I/O.

## 6. Plan

What was planned as models is there, and every safety property that does not depend on
folds over sequences is proved.  What is left, should the project be carried on:

1. The reads of `TelegramReads`, page by page, as recursive functions over a history, so
   that what was read up to a position can be proved by the least position at which it
   fails.
2. The hazards without a property (`PROJECT.json`): each is a step the code does take and
   that is described under "Known disagreements"; a property belongs there once the code
   has been changed.
