# Smartwatch Clank in TLA+

Smartwatch Clank collects the catalogues of smartwatch makers on a schedule,
stores them in SQLite, computes what changed and posts what is newsworthy to a
Discord channel. This directory models the parts of it that decide what is
stored, what is announced and what is sent, checks them with TLC on small
instances and proves the main results with TLAPS for every instance.

Source paths below are relative to `src/src/smartwatch_clank/`.

## 1. The system

| Part | State it keeps | Operations | Meets |
|---|---|---|---|
| Runner (`core/runner.py`) | none of its own | one execution: epoch, baseline, collect, assess, diff, store | store, collectors, run lock |
| Diff, health, editorial gate (`core/diff.py`, `core/health.py`, `notifications/discord.py`) | none | pure decisions | runner |
| Store (`core/store.py`) | the SQLite tables | one transaction per method | everything |
| Run lock (`core/lock.py`) | a locked file and an owner record | acquire, release | `run`, `backup`, the dashboard |
| Delivery outbox (`notifications/discord.py`, `notifications/delivery_policy.py`) | `notifications`, `delivery_policy`, the `.delivery.lock` | queue, drain, test send, requeue, activation | runs, `deliver`, `test-notify`, `delivery-activation` |
| Schema admission (`core/schema_state.py`, `core/store.py`) | the `schema_version` marker and the tables | inspect, bootstrap, migrate, refuse | every writable open |
| Samsung reconciliation (`intelligence/samsung.py`) | reconciliations, candidates, events, onboarded regions | reconcile, persist | after every run |
| News evidence (`intelligence/news.py`) | evidence records and their timeline | upsert, event | after every `run` |
| Continuity (`core/continuity.py`) | an append-only JSONL file | seed, append, verify | before every `run`, outside its lock |
| Soak state (`core/soak.py`) | active host, host migrations | prepare a cycle | start of every `run` |
| Local controller (`local_collection.py`) | its state under a thread lock | start, run, snapshot | dashboard, run lock, runner |
| QC archive (`qc_archive.py`, `dashboard.py`) | its own database | decide once per discovery | dashboard |
| Garmin cache (`collectors/garmin/catalogue.py`) | a JSON file | load, fetch what is missing, save | its collector |
| HTTP client (`collectors/common.py`) | none | bounded retries | collectors |
| Collectors, classifiers, reports, configuration, deployment | none | parsing, views, start-up | |

How they interact: cron (`50 1-23/2 * * *`) or the soak timer starts `run`, an
operator may start `deliver`, `test-notify`, `delivery-activation`, `backup` or
a run from the dashboard, all on one database. Runs exclude each other and
`backup` by the run lock; senders exclude each other by the delivery grant,
which runs and `deliver` take separately; `delivery-activation`,
`deliver --requeue-failed` and the first and last step of `test-notify` take
neither. Everything else meets only in SQLite transactions.

What is hard, and what makes each part correct:

* **Outbox.** POSTs cannot be undone and their answers can be lost; a drain
  reads its rows once and uses them for minutes. Correct means: a discovery is
  shown once, plus once per lost acknowledgement; it is retried exactly while
  it has attempts left; held history stays in until it is replayed; floors and
  cutoffs are obeyed; nothing waits for ever once Discord stops answering 429.
* **Runner and store.** An execution is a dozen transactions, any of which may
  fail or be the last. Correct means: the discoveries of a run tell exactly how
  its catalogue came from the last healthy one of its epoch; evidence is unique
  and backed; the gate opens only on evidence that was earned.
* **Admission.** A store is opened only when its shape is known, and a killed
  migration of a marked store can be resumed. A bootstrap, or a migration from
  v1 or v2, that is killed after its second table and before the marker leaves a
  store that every later open refuses.
* **Samsung reconciliation.** A first-seen event means first seen, never a first
  look at a region.
* **Around a run.** The registry is seeded before the run lock is taken; the
  host migration, the host, each evidence record and its event commit one by
  one; a backup copies the database and then the registry. Correct means: the
  lock excludes, and names its holder unless the owner record could not be
  written; what a crash leaves between two writes is one item, not a wrong
  history.
* **Dashboards.** Handler threads, controller threads and other dashboards share
  a database, an archive and a lock. Correct means: a decision is given once and
  every answer stays true; a controller tells what its thread does.
* **Collectors.** A page that cannot be had is not a product that was removed,
  but for Garmin's updates, which drop the posts of a failed feed, and a Garmin
  cache that a death took; and a source that never answers well does not hold the
  run for ever.

`PROJECT.json` lists the hazards by line, with the properties that watch them.

## 2. The modules

| Module | What it is |
|---|---|
| `Outbox` | the delivery outbox, its processes and its operators |
| `DeliveryContract` | what the outbox promises about each discovery; `Outbox` implements it |
| `CatalogueDiff` | the pure decisions: diff, collapse, editorial level; and `Tells`, what a diff must say |
| `CatalogueWatch` | what the runner promises a reader of the discoveries; `CollectionRun` implements it |
| `CollectionRun` | executions of one collector against the store |
| `SamsungReconciliation` | support pages against the catalogue after every run: candidates, events |
| `Admission` | opening the store: inspection, bootstrap, migration, marker |
| `RunCycle` | what surrounds the collectors of a `run`, with `backup` beside it: registry, run lock, soak cycle, news evidence |
| `Dashboard` | dashboards, their requests and threads, the archive of decisions |
| `Sources` | the collectors between the web and the catalogue: fetches, classification, cache |
| `OutboxProofs`, `CollectionRunProofs`, `SamsungProofs`, `AdmissionProofs`, `RunCycleProofs`, `DashboardProofs`, `SourcesProofs` | theorems about the modules they extend |
| `CatalogueWatchProofs` | theorems about locked runs, on `CollectionRunProofs`: the diff, what the discoveries tell, `CatalogueWatch` |
| `MC...` | small instances for TLC |

The modules meet in what they abstract of each other. `RunCycle` has one step,
`Collect`, where `CollectionRun` has its executions and `SamsungReconciliation` a
reconciliation; `Dashboard` has `Discover` for them; `Sources` says which
snapshots `CollectionRun` may be given. The run lock is a file with an
owner record in `RunCycle` and a variable elsewhere, which is what `LockExcludes`,
the first half of `HolderNamed`, allows.

### Outbox

One row id is one row of `notifications`: `status`, `attempts`, `notBefore`
(`not_before`) and `discoveredAt` (`discovered_at`, `NoTime` for the marked test
message). `grant` is the `.delivery.lock`, `policy` the activation cutoff. A
drain carries what its Python frame holds: `batch` (the rows still to visit),
`seen` (the `attempts` and `not_before` it read), `cutoff` (the policy it
loaded), `replay` (`include_held`). `copies` counts the messages that reached the
channel; `unrecorded`, `private` and `overtaken` are history variables for the
properties.

`Acquire`, `SelectRows`, then per row `SkipDeferred`, `Hold`, `Post` with
`RecordOutcome`, `PostRateLimited` or `PostRateLimitedNaN`, then `Finish` are
`drain`; `PutTest`, `TestUnconfigured`, `TestBusy`, `TestAcquire`, `TestPost`,
`TestRecord` are `enqueue_test`, whose row is committed before the grant is taken
and marked after it is given back; `Enqueue` is `save_run` with its intent;
`RequeueFailed` and `SetCutoff` are the operators' commands. A POST is answered
well, badly, or badly after the message arrived; or with a 429, which stores a
floor, uses up no attempt and ends the drain. `Crash` is a kill anywhere, and
also a database error in a mark, which leaves the drain by an exception. What
Discord does is external: it is modelled by the answers `_post_webhook` can
return.

### CollectionRun

`runs`, `epochs` and `terminals` are the rows of `runs` (with the observations,
discoveries and intents of the same transaction), `qualification_epochs` and the
`TERMINAL` events, as sequences in id order; `health` is the collector's row of
`collector_health`; `lock` is the run lock. `job[p]` is what the frame of
`_run_one` holds. Collectors do not meet: every query is by collector, so one is
modelled.

`Begin` takes the lock (or not, with `--no-lock`) and an execution id;
`ReadEpoch` and `InsertEpoch` are `prepare_qualification`, whose SELECT is outside
its transaction; `ReadCatalogue` and `CheckHistory` are the two reads of the
baseline; `Collect` is the collector's answer with its assessment, `CollectRaises`
every way it fails; `Succeed` and `Fail` are the three stores of the two
branches; `StoreRaises` is a store error in the `try` block, after which the
`except` branch stores a failure under the same execution; `Crash` is a kill, or a
store error outside the block. `Finish` ends the execution and gives the lock
back; the post-processing of `run` between the two is that of
`SamsungReconciliation` and `RunCycle`.

A `runs` row's `material` stands for app version, configuration fingerprint,
revision, schema and scope; `Trusted` are the materials the gate accepts. The gate (`Qualified`) is asked as
`qualification_gate` may be, without an epoch and without a material to compare, so
it answers for the newest epoch and its two refusals of another one do not arise.
`Paths` tells `run` (which hands the runner an intent factory) from the
dashboard's runs (which do not).

### CatalogueDiff and CatalogueWatch

An observation keeps the fields that decisions look at and `rest` for all
others. `Diff` is `diff_catalogues`, `Collapsed` is `assess_catalogue` with the
configured failure ratio of one half, `EditorialLevel` and `DeliveryEligible`
are the gate of the intent factory. `Tells` is written without `Diff`: a reader
who applies the discoveries to the old catalogue (`Patch`) has the new one, but
for articles that left a feed. `CatalogueWatch` says with it what the
interleaved, failing runner does to a reader: silent learning when an epoch
begins, then exact announcements.

### SamsungReconciliation

`products`, `supports` and `observedAt` are the last healthy catalogues the
collectors left; `records`, `onboarded`, `candidates` and `events` are the four
tables of `intelligence/samsung.py`. A listing is a regional SKU, its region and
base model are functions of it, and the title of a support page is what its
classification tells apart. `ReadProducts`, `ReadSupports`, `ReadBaseline` and
`ReadOnboarding` are the reads before the transaction, each a step, so that a
`--no-lock` run may come between; `Persist` is the transaction and `PersistRefused` its rollback when
the primary key of `source_onboarding` refuses a region another run has onboarded.

### Admission

The store keeps the names of its tables, the columns of `runs` that version 1 did
not have, and the marker. `Open` is the constructor; `ReadTables`,
`ReadLegacyColumns`, `ReadMarker`, `ReadColumns` are the SELECTs of
`inspect_schema`, each its own snapshot; `CreateTable`, `ListColumns`, `AddColumn`
and `StampMarker` are the statements of `_migrate`, each its own transaction.
`DuplicateColumn` is the error of an ALTER that another process has done
meanwhile, `StatementFails` any other database error, `Upgrade` a newer release.
`Verdict` gives the same decisions over one snapshot and is used by properties
only.

### RunCycle

`registry` is the JSONL file: its whole lines, and, once a line was torn, the runs
that were appending then (`torn`), which alone go on beside it. `flock` is the
advisory lock, `lockFile` the text in the file, which outlives the holder;
`unsigned` says that the last holder has no record of its own: the write failed, or
its mount is read-only. `activeHost`, `activeName` and `moves` are the soak tables, `evidence` and
`timeline` the news tables, `partial` and `backup` the two files of `backup_to`.
A `run` goes through `ReadEvents`, `AppendSeed`, `Seeded` (outside the lock),
`Acquire`, `CutOwner`, `SignOwner` (or `StaysUnsigned`, where the error of
either write is swallowed), the read and the four transactions of
`prepare_soak_cycle` (`ReadHost`, `SaveMigration`, `SetHost`, `SetHostname`,
`SetCycleStart`), `Collect`, then `RecordEvidence` and `RecordEvent` per
promoted article, and `Release`; a `backup` through the lock, `OpenCopy`,
`FillCopy`, `Replace` and `SnapshotRegistry`. `Crash` is a kill or an exception
anywhere: the kernel drops the lock.

### Dashboard

`server` and `schema` are the stages of `serve` and of `QCArchive.migrate`;
`decided` is `qc_decisions`, whose unique constraint is `MayInsert`; `controller`
is each `LocalCollectionController`'s state. Requests are handler threads of
`ThreadingHTTPServer`; `AskRun` and `AskDecision` need a local operator, `AskQueue`
does not. A collection is a request's `run_finalized`, a controller's thread or
the command line; all take one run lock. `found` counts the rows of
`discoveries`. `answers` and `page` remember what was answered, for the
properties. In the repository the native launchers make the controller and no
route calls its `start`; `Start` is that method as it stands.

### Sources

`web` is what each URL holds and may change at any time. A collection fetches its
URLs in turn or in parallel (`Turn`); a request reads the page (`GetText`), is
refused for good (`Refuse`: 403, 429, the relay, a body that does not parse) or
fails (`Fail`, up to `Attempts` times). `OnFailure` says what a page that cannot
be had means: Samsung, Amazfit, COROS support and the news collectors raise, Garmin's
updates skip, Garmin's catalogue skips and keeps a cache file written in place
(`CutCache`, `FillCache`). `Cascades` are the classifiers: the order of their
rules, over signals that stand for phrases and patterns. `turn` is the order in
which the answers arrived; where two items share an identity, it decides which one
stands (`Position`, `Deciding`), except for the crawler, which goes through its
products in the sitemap's order. `steady` remembers which page has held which
identity ever since the collection began. It is kept by page, and not by identity,
for a reason: an item that moves from a page not yet read to one already read is
held by the source all along and seen by nobody, so a collector that reads its
pages at different times cannot promise more than `RemovalTold` says.

## 3. What is checked

Every run is small enough for minutes and large enough for its question: two
rows are an order and a neighbour, two processes are every pair, one fault of a
kind is any point at which it can strike.

| Run | Shows | Bounds |
|---|---|---|
| `drains` | `SnapshotFresh`, `RetryBudget`, `HeldUntilReplayed`, `CutoffRespected`, `ImplementsContract`, types | 2 rows, 2 drains, 2 attempts, one crash, requeue and cutoff, clock to 1 |
| `tests` | `GrantExclusion`, `DuplicatesExplained`, `SentIsFinal` | 2 rows, a drain and a test send, one crash and requeue, a 429 that asks for no wait or for nan |
| `floors` | `RetryFloorBounded`, `FloorRespected`, `QueueSettles` | 2 rows, 2 drains, 429s that ask for no wait, have no header or are above the ceiling, any number of them, no crash, clock to 2 |
| `history` | `HistoryTells`, `ResetsOnlyOnChange`, `HealthMirrorsLastRun`, `ImplementsWatch`, types | 3 locked executions of 2 processes, 2 materials, 6 catalogues, one store error, one crash |
| `ledger` | `ExecutionLedger`, `GateEarned`, `EveryRunReports` | 2 executions, one process locked and one not, trusted and untrusted material and trigger, one store error, one crash |
| `candidates` | `EventsAccount`, `EventsAreNews`, `FirstSightKept`, types | 3 reconciliations of a locked and a `--no-lock` run, listings of two regions and two base models, every set of healthy regions, one crash |
| `openers` | `AdmittedComplete`, `MarkedNeverStranded`, `MarkerNeverFalls`, `MarkedOpensSucceed` | 2 openers, 12 stores of every generation, one crash, one statement error, one newer release |
| `cycle` | `HolderNamed`, `SeedsPresent`, `HostTrail`, `EvidenceAccounted`, `BackupSettled`, `LockComesFree` | 2 runs on 2 hosts, a backup on a read-only mount, 3 commands, 2 seeds, 3 articles, one fault: a kill or an owner record that is not written |
| `dashboard` | `AnswersStand`, `ArchivesOpen`, `ControllerTells`, `CollectionsSettle` | 2 dashboards (one read-only), 2 requests, 2 threads, a run, 3 requests in all, one crash |
| `sources` | `RemovalsTrue`, `CollectionsEnd` | 3 collectors, one for each way to fail, 2 pages each, 2 attempts, 3 collections, two edits (a listing may move to another page), one crash |

The catalogues of `history` are the empty one, one watch, three watches, a price
cut, a respecification that loses a watch, and watches beside an article:
together they reach every kind of change, a collapse, an acceptable shrink and an
article that leaves. `MAX_ATTEMPTS` (5) and the times of the retry floors are
constants; two attempts already separate the first failure from the last. The
clock bound also bounds the floors, so a 429 that would point beyond it is not
taken in that state; earlier states take it, and `floors` has 429s that ask for no
wait, which may go on for ever at any time. In `openers` one table stands for
those made before the marker's, one for those after it, and one column for each
step of the history of `runs`; the twelve stores are the absent, the empty and the
damaged file, each generation, and stores whose marker is missing or ahead. Seven
hundred product pages and two hundred queue rows are two pages and one row: the
limits are constants.

Executions, commands and requests are bounded, so the runs of `CollectionRun`,
`SamsungReconciliation`, `RunCycle`, `Dashboard` and `Sources` say
`CHECK_DEADLOCK FALSE`: the scheduler may simply start no more. The outbox always
can drain and a store can always be opened, so their runs check deadlock.
Symmetry between processes is used in `drains` and `history` only, where no
liveness is checked.

**Fairness.** `floors` assumes that a process that has begun goes on (every
POST has a 15 s timeout), that time passes, and strong fairness of `Acquire` for
plain drains: a drain gives up at once when the grant is taken, and the schedule
tries again every two hours for ever, when the holder is long done. That 429s end is no fairness but the hypothesis of
`QueueSettles` (`LimitsEnd`): a 429 uses up no attempt and ends the drain at its
row, so a Discord that limits the sender for ever keeps that row and all behind it.
`ledger`,
`cycle`, `dashboard` and `sources` assume that an execution, a command, a
collecting thread and a collection go on once they have begun (every fetch has a
timeout, every lock attempt returns at once; see section 5 for a source that
drips). `openers` also assumes that the
store is opened again and again, as the schedule does. Nothing is assumed of
faults, crashes, operators, edits of the web, or of the beginning of executions,
commands, requests and collections.

### Where the code and its documents disagree

Two disagreements are kept as runs that must end in a violation.

| Run | What happens |
|---|---|
| `terminal` | a store error after the healthy terminal leaves a failed last run row beside healthy evidence; the gate qualifies the execution all the same (`core/runner.py:142`, against `docs/qualification-provenance.md:58-62`: divergent evidence is ineligible) |
| `updates` | the posts of a Garmin feed that cannot be had once are stored as removed (`PRODUCT_REMOVED`), and as new ones (`NEW_DEVICE`) when it is back (`collectors/garmin/updates.py:110`, against lines 34-36: only a genuinely new post appears as new) |

The others are stated by a definition and can be seen by adding it to the named
configuration (drop its other properties).

| Definition | Configuration | What happens |
|---|---|---|
| `NeverBothPost` | `MCOutbox_tests` | a marked test row is posted by a drain and by its own sender (`notifications/discord.py:404`, against its lines 19-20) |
| `PrivateStaysOut` | `MCOutbox_tests`, `Aims` with `"elsewhere"` | a test row meant for `--webhook` is left pending and posted to the configured channel (`notifications/discord.py:414`, against `cli.py:135-136`) |
| `DrainNeverRaises` | `MCOutbox_tests` | `Retry-After: nan` raises out of `drain`, which "never raises" (`notifications/discord.py:178`) |
| `ShrunkenNeverReplaces` | `MCCollectionRun_history` | a new epoch switches the collapse check off (`core/runner.py:98`, against `README.md:39`) |
| `EligibleHaveIntents` | `MCCollectionRun_history`, `Paths` with `"local"` | dashboard runs store eligible discoveries without intents (`local_collection.py:52`, against `README.md:16-17`) |
| `RefusedUntouched` | `MCAdmission_openers` | an opener that fails halfway, or that a newer release overtakes, is refused although the store was changed (`core/store.py:94`, against `SchemaStateError`) |
| `QueueHoldsUndecided` | `MCDashboard_dashboard`, `MaxFound = 2` | an undecided discovery older than the newest 200 leaves the queue for good (`dashboard.py:69`, against lines 58-63) |
| `UnrecognisedKept` | `MCSources_sources`, a product page without signals | an unrecognised Garmin product is dropped (`collectors/garmin/catalogue.py:118`, against lines 73-75) |

The outbox's three concern the marked test message or a malformed header; for
discoveries the promises hold.

Two more definitions fail that no document promises; they show why the checked
properties are no stronger.

| Definition | Configuration | What happens |
|---|---|---|
| `UnmarkedOpensSucceed` (a `PROPERTY`) | `MCAdmission_openers` | a bootstrap or an early migration that dies between its second table and the marker is refused for ever (`core/schema_state.py:216-233`, and 265-271 for an empty marker table) |
| `QueueSettlesAnyway` (a `PROPERTY`) | `MCOutbox_floors` | 429s without end keep the head of the queue and what is behind it (`notifications/discord.py:508-521`) |

## 4. What is proved

TLAPS proves the following for every set of processes, rows, catalogues,
materials, stores, listings, dashboards and bounds that satisfies the assumption
each module names.

* `OutboxProofs`: `TypeOK`, `GrantExclusion`, `SnapshotFresh`,
  `DuplicatesExplained`, `RetryBudget`, `SentIsFinal`, `HeldUntilReplayed`,
  `RetryFloorBounded`, `FloorRespected`, `CutoffRespected`, `ImplementsContract`.
  None of the safety invariants is inductive alone: that a snapshot stays fresh
  needs that only the grant's holder writes a discovery's row while it is queued,
  which needs to know where every process is (`ProcessShape`) and who holds the
  grant (`GrantExclusion`); the count of copies needs both. `IInv` is their
  conjunction. The action properties follow from it step by step. A floor is
  respected because the drain compares the clock with a floor that is still the
  row's (`SnapshotFresh`); the cutoff also needs what a plain drain knows of the
  policy while none overtook it (`PolicySeen`). `DeliveryContract` sees a row's
  status, its copies, the acknowledgements it lost and whether somebody is about
  to record an answer; the proof maps each step of the outbox that touches a
  discovery's row to one step of the contract, and all others to stuttering.
* `CollectionRunProofs`: `TypeOK`, `ExecutionLedger`, `GateEarned`, with or
  without the run lock. `ExecutionLedger` rests on what an execution has stored at
  each stage (`StageLedger`), on no two executions sharing an id (`Distinct`) and
  on the tables holding only executions that were begun (`Begun`). The steps that
  store nothing are one case (`Internal`); the others are `BeginLedger`,
  `RowLedger`, `EvidenceLedger` and `EndLedger`. `GateEarned` then follows from
  the evidence being backed.
* `CatalogueWatchProofs`: `DiffTells`, that `diff_catalogues` tells exactly how one
  catalogue came from another, for any two; and, when every run takes the lock
  (`Unlocked = {}`), `HistoryTells`, `ResetsOnlyOnChange`, `HealthMirrorsLastRun`
  and `ImplementsWatch`. With the lock there is one execution, and what it read is
  still true when it stores: `Locked` says so for each stage, together with the
  order of the rows (`Tabled`). In the refinement the store of a healthy run is the
  only step a reader sees; it is `CatalogueWatch`'s learning in silence when the
  epoch has no healthy run yet, and its announcement otherwise.
* `SamsungProofs`: `TypeOK`, `EventsAccount`, `FirstSightKept`, `EventsAreNews`,
  locked or not. The first three are facts of one transaction (`PersistAccounts`,
  `StepRemembers`); besides the types they need that a process under way has a
  time (`Timed`), 0 being kept for what has not happened. That an event says the
  truth about the earlier reconciliations needs that candidates and onboarded
  regions remember them (`NewsInv`).
* `AdmissionProofs`: `TypeOK`, `AdmittedComplete`, `MarkerNeverFalls`,
  `MarkedNeverStranded`. A verdict is put together from reads of several moments, so
  `AdmittedComplete` rests on the store only growing (`Grows`) and on what each
  stage already knows of it (`StageOK`); the others follow from the same step
  lemmas.
* `RunCycleProofs`: `HolderNamed`, from only locking processes coming to the lock
  and readers never signing it (`Roles`), with or without errors in the writes of
  the record; `SeedsPresent`, from what a run has read or written before it is done
  seeding (`Known`), and, for how often an event may be there, from the runs that
  may still append it and the lines that have it never exceeding the runs there are
  (`Bounded`, for which the runs are a finite set); and, when no run is started with
  `--no-lock`, `HostTrail`, from where the run inside the lock is between the
  migration and the host (`Trail`), `EvidenceAccounted` and `BackupSettled`.
  A record lacks its last event only while it is in hand or when the process that
  wrote it died (`Pending` counts both); that the timeline goes forward needs that
  nothing in it is later than the feed of the run at work (`FeedDated`) and that
  a record in hand bears the date of that feed (`Sighted`). A backup shows what the
  moment of its copy showed, when no record was in hand (`Counted`); a database
  with a timeline was worked on under a seeded registry (`Founded`), and the
  registry is copied after the database (`Whole`, `Beside`).
* `DashboardProofs`: `AnswersStand`, `ArchivesOpen`, `ControllerTells`, each from
  an invariant of its own: what a request that decides has in hand, what a
  dashboard that starts has made of the archive, and which one thread is behind
  what a controller says.
* `SourcesProofs`: `RemovalsTrue`, for any collectors of the seven, any pages and
  any edits. While nobody has died, the cache holds every product of the last
  catalogue, and what a collection loaded or read of a page shows what the page has
  held all along (`Lasting`, `Gathered`); so a collection that is ready has a page
  that holds the item (`ReadyHolds`) and reports it in some state
  (`ObservedType`, which needs that every cascade ends in one: `CascadesType`).

The proofs ask of the constants only what the modules name: besides types, that
the placeholders (`None`, `Nothing`, `Nobody`, `NoTime`) are not values, that
catalogues and the addresses of a source are finite, and that a page has a content
at first. `Unlocked = {}` is no assumption of a module but a hypothesis of the
theorems above that need it: with a `--no-lock` run beside a locked one they fail
(TLC finds it as soon as `Unlocked` names one), and the code does not promise
them.

Only model-checked: the liveness properties `QueueSettles`, `EveryRunReports`,
`MarkedOpensSucceed`, `LockComesFree`, `CollectionsSettle` and `CollectionsEnd`,
which are out of the prover's reach. Every safety and action property of a passing
run, and both refinements, are proved.

## 5. What is not modelled

Rendering of messages, redaction, reports, wording, pages, configuration parsing
and the deployment scripts: they keep no state these properties tell apart. Of the
collectors, markup, word lists, patterns and the sitemaps are left out; an item
carries the signals its text shows, and the sitemap of a source is fixed.
`collectors/coros/updates.py` is left out: it reads a second section only when the
first was found (lines 65-72) and drops months it does not recognise (95-98), so
what its page holds and what it reports differ by markup, which the model does not
have. A request is assumed to return: the timeouts of the code are per socket
operation, and a source that sends a byte now and then is not modelled. The
hash check of the continuity registry only reads. The warning ratio of
`assess_catalogue` only words a warning. In-memory databases, for which the grant
is skipped, cannot be shared and are left out. Waits are steps without a duration,
but for the retry floors. A SQLite transaction is one step, and so is the locking
call of the platform.

## 6. The plan

1. *Done*: the modules above, their runs and their theorems.
2. *Done*: a theorem for every safety and action property the runs check, and for
   both refinements.
3. Of `CatalogueDiff`: shrinking over several runs, and instances that accept empty
   catalogues.
4. A composition of `CollectionRun` and `Outbox`: from a source's change to the
   channel, on the two abstract specifications they implement.
