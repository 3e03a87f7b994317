# Formal models of the Scope rating pipeline

TLA+ models of the service under `app/`: a pipeline that reads rating workbooks
(`.xlsm`, one MASTER sheet each) into PostgreSQL, with a database-backed queue,
SCD Type 2 company history, a snapshot series per company, quality signals,
change-data-capture, retention, a schema registry, API keys and an approval
workflow. TLC checks every module
on small instances, TLAPS proves the central invariants for instances of any
size. `PROJECT.json` lists the runs, what each checks, which lines of the code
each definition stands for, and the findings.

Contents: [1 the system](#1-the-system), [2 modules](#2-modules),
[3 runs](#3-runs), [4 fairness and deadlock](#4-fairness-and-deadlock),
[5 proofs](#5-proofs), [6 where the code and its text
disagree](#6-where-the-code-and-its-text-disagree),
[7 abstractions](#7-abstractions), [8 what is not
modelled](#8-what-is-not-modelled), [9 plan](#9-plan).

## 1 The system

### Components, their state and operations

| Component | Code | State | Operations |
|---|---|---|---|
| Ingestion queue | `queue.py`, worker loop in `pipeline.py` | `ingestion_tasks`: status, claimed_by, claimed_until, attempts | enqueue, claim_next, complete, fail_task, queue_stats, run_pipeline_from_queue |
| File loader | `pipeline.py` | `uploads`, `companies`, `company_change_log`, `snapshots`, `rating_migrations`, `ingestion_watermarks` | `_load_file`, reprocess_upload |
| Batch run | `pipeline.py` | `pipeline_runs`, the session, the counts | run_pipeline, `_with_retry` |
| Application start, FX rates | `main.py`, `fx.py`, `routers/fx.py` | `fx_rates`, the first schema version, what each instance has got to | lifespan, seed_v1, seed_default_rates, add_rate, latest_rate |
| CDC outbox | `cdc.py` | `cdc_events` | emit_insert, emit_update, publish_pending |
| Retention | `retention.py` | `retention_policies`, and whatever they delete | enforce_policy, enforce_all_policies |
| Schema registry | `schema_registry.py` | `schema_versions` | check_compatibility, register_new_version |
| API keys, roles, tenants | `security.py`, `routers/admin.py` | `api_keys`, `tenants` | get_current_key, require_role, create and revoke keys, create tenants |
| Approval workflow | `routers/workflow.py` | `snapshot_approvals`, `snapshots.approval_status`, `analyst_assignments` | approve_snapshot, create and end assignments |
| Extractor | `extractor.py` | none, a scan of the sheet | extract |
| Rating engine | `rating_engine.py` | none | derive_anchor, apply_notches, derive_final_rating, notches_between, migration_direction |
| Validation and rules | `validator.py`, `expectations.py`, `routers/rules.py` | `validation_rules`, issues and score of an upload | validate, validate_with_ge, compute_quality_score, create and deactivate rules |
| Quality signals | `analytics.py` | flags of credit metrics, issues | stale years, estimates, coverage, methodology change, weight drift, cliffs |
| Analytics endpoints | `routers/analytics.py` | none, queries | metric_trend, sector_benchmark, migration_matrix |
| Read endpoints | `routers/companies.py`, `snapshots.py`, `uploads.py`, `observability.py` | none, queries | history, change log, compare, latest, statistics |
| Lineage events, exports, configuration | the rest | none that others use | messages without an answer, formatting, wiring |

### How they interact

`run_pipeline` (start-up and `POST /uploads/ingest`) and
`run_pipeline_from_queue` (workers) call `_load_file` for one file at a time and
commit after each. `_load_file` reads the sheet (extractor), validates it,
derives a rating, writes all its rows in one transaction and lets `cdc.emit_*`
add events to the same transaction. Everything else meets through the database:
workers at the task rows, concurrent loads at the company rows and unique keys,
relays and retention at `cdc_events`, approvals and loads at `snapshots`,
instances that start together at the seeded tables, requests at the rows of
keys and assignments. The read endpoints derive the same figures from different
tables.
Sessions run at PostgreSQL's default READ COMMITTED, so a statement sees what
has been committed when it starts, and a `SELECT ... FOR UPDATE` that had to
wait checks its condition again on the row it waited for.

### What is hard

* Concurrency: workers that claim, loads of one company, relays, registrations,
  decisions on one snapshot. All are read-then-write without serialisable
  isolation.
* Failure: a worker or a run dies between two commits; a commit succeeds and
  its acknowledgement is lost; one file of a batch, one policy or one statement
  of a transaction fails; a retry on a session whose transaction is broken.
* Order: times are taken before locks are, so rows are committed in another
  order than they are dated, and so are the events that tell of them.
* Numbers: weights compared in floating point at a threshold, series with gaps
  whose neighbours are not next to each other, two detectors of one thing.
* Absence: no tenant, no rating, no previous snapshot, a blank cell. Each has a
  meaning of its own in some query, and they meet.

### What makes each component correct

* Queue: a task is run by one worker at a time, at most four times, and is
  settled honestly; no task is forgotten, but for those whose worker died.
* Loader: one current row per company, versions that form a chain, no lost
  transition, snapshots that tick only on change and point at the metadata of
  their own file, migrations between consecutive snapshots, tenants that do not
  touch each other, a file processed once.
* Batch run: a bad file spoils no other, counts tell the truth, retries help.
* Start: whoever serves finds the schema and a rate for every currency, and
  instances that start together do not keep each other from starting.
* Outbox: every row has its event, every event is published, once, and by a
  single relay after those of the rows it refers to; relays that overlap may pass
  each other.
* Retention: only what has expired goes, and one failing policy does not stop
  the others.
* Registry: versions numbered without gaps, breaking changes marked.
* Keys: a revoked key lets nobody in and is not brought back by a request that
  had read it.
* Extractor: values stand under their year and their label; a series loses no
  value without an issue; fields and metrics name the cell they come from. Where a
  row has a gap it is known by how far values move.
* Rating engine: a better profile never gives a worse anchor; moves add up.
* Signals: the stored score is that of the stored issues; a weight that drifts
  is reported in the end; marks of stale and estimated years can be relied on;
  what a load files as a cliff the trend endpoint shows.
* Endpoints: what they derive from different tables agrees.
* Approvals: the status of a snapshot follows from its stored decisions.

## 2 Modules

| Module | Models | State ↔ code |
|---|---|---|
| `TaskDelivery` | what the queue promises, abstractly | phase, handouts and committed work of each task |
| `IngestionQueue` | `queue.py`, `run_pipeline_from_queue` | one function per column of `ingestion_tasks`; `pc`/`job` are a worker's position and the task it holds; the counters of its run; the ghost `loads` counts what was committed |
| `FileLoad` | `_load_file`, reprocess, the commit | one set of rows per table; `tx` is what a transaction has read, locked and decided; `pc` names the statement it is before |
| `BatchRun` | `run_pipeline`, `_with_retry` | state of the session, of the run's row, the counts |
| `ReadModel` | the read endpoints and the migration matrix | the tables of `FileLoad`, which it extends |
| `Startup` | lifespan, `fx.py`, `routers/fx.py`, seed_v1 | where each instance or request is, what its seeding has found and will insert, the rates |
| `CdcOutbox` | `cdc.py` and those who write or purge its table | committed rows and events, the uncommitted ones of each load, each relay's locked batch |
| `Retention` | `retention.py` | rows with their age; the policies still to come and the results of those that were enforced |
| `SchemaRegistry` | `register_new_version`, `check_compatibility` | the versions; what each call in flight has read |
| `Access` | `security.py`, keys, tenants and assignments | the rows; each request between the look-up of its key and the commit of its handler |
| `Approval` | `approve_snapshot` | status, approvals, row lock, each request's transaction |
| `Extractor` | `extract` | sheet read so far, fields, lists, series, issues, provenance |
| `RatingEngine` | `rating_engine.py` and the migration of `_load_file` | input, result, sequence of migrations |
| `Detectors` | `validator.py`, `expectations.py`, the detectors of `analytics.py` | none, operators over one workbook and the one before |
| `Signals` | how `_load_file` combines the detectors, `routers/rules.py`, metric_trend | uploads with issues and score, snapshots with their flags, rules, the year |
| `Benchmarks` | percentile, ranks, classify_trend | the values read so far |

The proofs of section 5 are in `IngestionQueueProofs`, `FileLoadProofs` (with
`ReadModel`), `StartProofs`, `CdcOutboxProofs`, `ServiceProofs`,
`ExtractorProofs` and `DerivedProofs`; `SetLemmas` holds the facts about numbers,
sets and sequences that several of them use.

`IngestionQueue` takes a load as one step with the outcomes the queue can tell
apart; `BatchRun` does the same with an attempt. `FileLoad` is the inside of
that step. `IngestionQueue` implements `TaskDelivery` under a refinement mapping
(`ImplementsDelivery`): absent, pending, claimed and settled tasks are its
phases, the attempts its handouts, committed loads its work.

`Detectors` and `Signals` are what `FileLoad` leaves out of a load: which issues,
score and flags it stores; `CdcOutbox` is what it leaves out of the events.

Each `MC` module gives specifications their model values and functions; the
`.cfg` files name the bounds. `MCStart`, `MCService` and `MCDerived` bring
several specifications that share no state into one instance: a variable
`topic`, chosen at the start, says which of them a behaviour is about, and the
others stay as they began. `MCFileLoad` lets loads overlap or not, over empty
tables or after a first load. Definitions called `X_Something` above a
definition `X` are plausible bugs of the same code; `PROJECT.json` says which
property each of them violates when it replaces `X`. Nothing else uses them.

### Actions and the code, for the two central modules

`IngestionQueue`: `ClaimFlush` is claim_next up to its flush, when the row lock
is taken; `ClaimCommit` is the commit after `files_attempted += 1`, when others
see the claim. `LoadCommit`, `LoadRaise` and `LoadAckLost` are the ends of
`_with_retry(load_one)`. `Complete`, `CompleteRaise`, `CompleteAckLost` are
complete() and its commit. `FailTask` is the except branch. `Crash` ends a
worker anywhere. `LeaseExpire` lets five minutes pass. `Finish` closes the run
when the queue is empty.

`FileLoad`: `Gate` is extract and the content-hash gate; `Unreadable` the failed
upload; `ReadPrevious` reads prev_snap; `InsertUpload` takes snapshot_at and
flushes the upload (or waits for, or meets in `DuplicateUpload`, the unique
key); `SelectCompany`, `LockCompany`, `DropStaleRow` and `NoCompany` are the
one `FOR UPDATE` statement of `_get_or_create_company` with PostgreSQL's wait
and re-check; `DetectDelta`, `CountUploads` and `FindWatermark` read the latest
fingerprint, the processed uploads and the watermark, one statement each;
`Commit` installs every row that the rest of `_load_file` wrote. `Raise` rolls
back from anywhere.

## 3 Runs

Eight runs pass; the four marked *violation* show the findings of section 6.
None takes more than three minutes with two workers on a small machine.

| Run | Instance | Shows |
|---|---|---|
| `queue` | 2 tasks of different urgency, 2 workers, 2 attempts, 1 death, lost acknowledgements, fair; 256 520 states | claims exclude each other, the counters of tasks and runs agree, the queue implements `TaskDelivery`, only deaths orphan a task, everything else is settled, every call ends |
| `queue_lost_task` | 2 tasks, 2 workers, 1 death, fair | *violation*: a task whose worker died is never delivered |
| `load_serial` | 1 session, 4 files of 2 companies, 4 loads; under the default tenant or under two tenants; 818 180 states | history, series, migrations and watermarks agree; tenants are isolated; the read endpoints agree with each other |
| `load_concurrent` | 2 sessions, 3 files, 3 loads, 1 tenant, over empty tables or after a first load, fair; 147 596 states | what row lock and unique keys guarantee when loads interleave; every load ends |
| `load_recheck_race` | 2 sessions on a seeded table | *violation*: a second current row |
| `read_latest` | as `load_serial` | *violation*: /snapshots/latest lists a company twice |
| `start` | 2 instances, 1 request to seed, made to one of them, 2 currencies, 2 days, 1 rate entered by hand, 1 failure, fair; and 2 files, one sometimes unreadable, 3 runs, 2 retries, deaths, lost acknowledgements, fair; 91 018 states | seeding is complete and unambiguous, all instances come to serve; stored counts are honest, a batch loads a file once, errors of one file do not reach the next, every run ends |
| `start_reseeds` | 1 instance, 3 days, 1 rate entered by hand, 1 failure | *violation*: a service that seeds, serves, takes a rate by hand and is restarted on a later day supersedes that rate |
| `outbox` | 2 loaders, 2 relays, batches of 2, 2 loads after one that failed or that was published and expired, 1 dying relay, fair; 276 580 states | every row of a load has its event, events are published once, and before those of rows they refer to only from a batch taken while another relay held these; every event is published |
| `sheet` | 2 columns; all sheets of 2 rows, of 3 rows around the time series, of 4 rows of list labels; 2 425 052 states | which row is a field, how far a gap moves values and pairs segments, which losses are reported, what provenance names |
| `derived` | one load of every series of 3 years and 2 metrics, blanks, signs and falls of 49.994 to 50% included; 3 loads with segment weights around both thresholds, the third of one segment at most; 2 loads under rules that come and go; 3 loads in 2 years; every pair of profiles, then histories of 3 loads; samples of up to 6 values; 143 288 states | score and issues agree, drift is reported, marks and cliffs are consistent; anchors are monotone, adjustments pull their way, migrations add up; quartiles, ranks and trends fit together |
| `service` | registry: 2 callers, 2 labels, 3 versions; approvals: 3 analysts, 3 decisions; access: 2 requests, 2 keys, 1 slug, 1 assignment; retention: 4 policies, one per branch of the code, 3 rows; 805 905 states, symmetric | numbering and honesty of versions; a status follows from the audit trail; ends are final and late requests refused; only what expired goes, a failing policy stops no other |

Several properties are conjunctions: the parts are named and commented beside
them (`HistoryIsSound`, for example, is `OneCurrentRow`, `NeverWithoutCurrent`
and `HistoryIsAChain`). `load_serial` checks what needs loads of a company not
to overlap, `load_concurrent` what holds when they do; `OneCurrentRow` and what
rests on it hold in the first and fail in the second (`load_recheck_race`).

### Why the bounds are enough

* Two workers and two tasks give every overlap of claims; a third worker adds a
  copy of one of them. `MaxAttempts` is 2 rather than 4: first, last, and a
  failure in between are all there. One death is enough to orphan a task and
  leave a survivor.
* The files of `MCFileLoad` cover the cases of a load: same metadata with other
  content, other metadata with the same content, another company, no rating. A
  chain of three versions needs three loads; the fourth serves skips and
  reprocessing. Two sessions give every pair of statements.
* In `start` two instances give every pair of looking first and inserting later,
  a second currency a seeding that is interrupted in between, a second day a
  restart after midnight. Each conflict takes an instance down once; the one
  failure adds a restart that no conflict explains. In its batch runs the first file may be bad or raise while the second is good, which
  is where a session is handed on; three runs give a run, its repetition after a
  death and a reprocess; two retries are a first, a middle and a last attempt.
* One load writes three events at most, so two loads and batches of two split a
  load's events over two batches, and two loaders commit in another order than
  their events occurred. `MCCdcOutbox` begins after one load, which either was
  rolled back or was approved, published and expired: the two loads then meet at
  no company, or both wait for the same row and one finds it closed. One death
  leaves a relay that goes on.
* Three registered versions distinguish "the one before" from "the first"; two
  columns and two to four rows give a gap on either side of a value, a repeated
  header and a repeated label. The ratings of `derived` are the whole scale.
* Retention tables need one row on each side of the cutoff and one policy per
  branch of the code.
* Three analysts are needed for an update that overlaps two others. Two
  requests and two keys let one revoke the key the other is using.
* A series of three years has a gap, a first and a last neighbour, and every
  order of repeated, falling and blank values; weights of 450, 500 and 600
  thousandths make steps at the warning threshold, at and beyond the error
  threshold, and a creep below it needs three snapshots, where one segment is enough. Samples of six values put
  quartiles on and between positions.

Proofs lift these bounds for all invariants and action properties (section 5).

## 4 Fairness and deadlock

Weak fairness is assumed only for the steps of a process that has begun and can
go on: a worker's step in `IngestionQueue` (`WorkerStep`), a session's next
statement in `FileLoad` (`Proceed`), the step of a run in `BatchRun` (`Step`),
of a seeding in `Startup` (`Step`), of a relay in `CdcOutbox` (`Relaying`). The
code justifies it: each is a thread that executes its next statement. Starting
is fair in three places, where nothing in the code starts anything and whoever
operates the service does: a worker, a relay, and a service instance that has
exited, which docker-compose.yml does not restart. `WorkEnds`,
`EventuallyPublished` and `AllServe` are meant under that assumption: they say
that trying again suffices.
In `IngestionQueue` the passing of a lease's time is fair too
(`LeaseExpire`); it makes `queue_lost_task` a statement about the code and not
about a clock that stands still. Deaths, errors, lost acknowledgements that a
worker could go on without, the submission of new work, ageing and retention are
never forced.

Where a cfg says `CHECK_DEADLOCK FALSE` the model stops because a bound (loads,
versions, decisions, rows, runs, values) is used up, or because nothing has been
asked of it; that concurrent loads cannot block each other for ever is
`LoadsEnd`. The queue runs do check for deadlock.

## 5 Proofs

Checked by TLAPS, for every value of the constants that satisfies the named
assumptions of the modules. Every invariant and every action property that a
passing run checks is proved, as a theorem that names it; what TLC alone shows
is at the end of this section.

### What the queue promises (`IngestionQueueProofs`)

`TypeCorrect`, `ClaimsExclude`, `LoadsBounded`, `OutcomesHonest`,
`SettledForGood`, `Ledger`, and `RefinesDelivery`: the queue and its workers
implement `TaskDelivery`, with and without lost acknowledgements. The inductive
invariant adds to the types that a worker's position determines the row of its
task (uncommitted claims are held by one worker, committed ones have its mark),
that loads are bounded by attempts with one to spare while a load is still to
come, and what each status says of loads and attempts. `MutualExclusion` alone
is not inductive: it needs that a claimable task is held by nobody. `Ledger`
compares sums over all tasks with sums over all workers. A sum is the number of
its units there (`Total`), so that a step which charges one task and one worker
adds one element to each side; what runs have counted is compared with the
tasks through what each worker has still to count, and tasks without an owner
with the workers that died.

### What a load leaves behind (`FileLoadProofs`)

* Loads that overlap in any way, for any number of sessions and tenants, the
  default tenant included: `Locks` (no two loads hold one company row),
  `Transitions` (no lost or forked transition), `ChangeLog` (the log tells exactly
  what each version changed). Stamps are fresh, so the row a load inserts has an
  id that no row, no other load and no logged change has; a row that is held is
  current, and remains so because the one load that could close it is its holder;
  hence a commit closes a row without a successor, gives it one, and logs the
  difference of the two.
* The same loads where every file has a tenant (`NULL \notin Tenant`):
  `AlwaysCurrent`, `Isolation`, and with `NULL \notin File` also `Once` and
  `Metadata`. The strengthening says that the rows a load found, the one it
  holds and the watermark it will update are of its own tenant and company, and
  that the unique key of uploads holds among the committed ones and those that
  loads in progress have flushed. The assumption is needed: the default tenant's
  queries have no tenant filter (pipeline.py:127), a load of its may close the
  row of a tenant, and the key exempts it.
* Loads that follow one another, in whichever sessions (`SerialSpec` of
  `FileLoad`: `Alone`, and `Apart`, the default tenant is used alone or not at
  all): `History`, `Series`, `Migrations`, `Watermark`, `SerialIsolation`.
  These fail when loads overlap, which is what `load_recheck_race` shows. The
  invariant `SInv` says of the tables that they are dated, keyed and counted
  alike (a company's snapshots are as many as its processed uploads), and of the
  one load in progress, statement by statement, that what it has read is still so
  (`SessionOK`): the locked row is the company's one current row, `prev` its last
  snapshot, the version one more than there are snapshots, and no stamp is above
  its own. A commit then appends at the end of every chain.
* What the read endpoints derive, under `SerialSpec`: `Endpoints`. `RInv` says
  how the tables refer to each other: each upload with a name has its company and
  each company an upload; a change belongs to a version after the first; a
  migration belongs to the snapshot it led to and the one before (`LedTo`), and no
  rated first snapshot is without one. Statistics are
  then equal because their rows can be matched one to one (`Matching`). That the
  change log replays to the current row is shown by following a field backwards
  to the last version that changed it. For the migration matrix the stamps are
  gone through one by one: at each of them at most one company gets a snapshot,
  which takes the place of the one before it, so the holders of a rating grow by
  who enters it less who leaves it (`OneStamp`, `Flow`), and the cells of a row or
  column add up to just these migrations (`SumOfClasses`). `NamesAssumption`,
  that every file names a company, is the extractor's: a missing name is the
  empty string (extractor.py:94, :276), and the column is NOT NULL.

### Starting and batches (`StartProofs`)

`Seeding`: what a seeding has passed, currency by currency, is in the table or
among the rows it will insert, and rates are never deleted, so an instance that
gets past it has all; the unique key makes the second of two commits fail rather
than double a rate. `Reports` and `BadFiles`: files have their turns in order,
an attempt leaves at most one upload, and a session that met an error inside the
transaction refuses every further attempt; so no turn stores two uploads, and
the counts of a run are those of its turns (`CountsOfTurns`, a count as the number
of turns that ended so). `FilesAssumption` says that a directory has every file
under one name.

### Events (`CdcOutboxProofs`)

`Relays`, `OneRelay` and `Capture`. The row of a snapshot's event was committed
before, or comes with it, so events that an event refers to are older, and a load
that has not committed has events that none of the committed ones refers to
(`Uncommitted`). A relay takes the oldest that nobody has locked, so what it
leaves out is either published or in another batch; in the second case the
history variable `ahead` has the event (`OrderInv`), and with a single relay
there is no second case. An event leaves the outbox only once it has been sent,
and no event is locked twice.

### The service around it (`ServiceProofs`)

* Registry: `RegistryTypes`, `Numbering`, `Honesty`, `VersionsKept`. Number and
  check come from separate reads, and yet breaking_change speaks of the version
  right before: had another version come in between, the number would be taken
  and the unique key (subject, version) would refuse the commit. A call
  that may still insert its version, because nobody took the number, has been
  checked against the version right before it (`CallFits`).
* Approvals: `AuditTrail`. decision_at is read under the row lock, which is held
  to the commit, so of the decisions that update the status the last to commit is
  the latest; one that does not update it had read a stored decision.
* Keys and assignments: `Refusals` and `Ends`. The commit of a look-up writes
  last_used_at and no other column, so a request that read a key before its
  revocation cannot bring it back; the clock, which counts revocations, is at
  least at the time of every look-up.
* Retention: `Retained`. A policy sees only old rows of its own table, and a
  policy that fails leaves a result like one that does not.

The last three are parts of one instance (`ServiceSpec` of `MCService`), and the
theorems are about it; the constants remain arbitrary.

### Sheets (`ExtractorProofs`)

`LayoutOfSheets`, `Losses` and `Lineage`, for sheets of any width and length.
Each variable of the scan is described by the sheet read so far: a field by the
last row with its label, the years by the last header, a metric by the last row
that has a cell under its year (`FieldsInv`, `YearsInv`, `ListsInv`, `LayoutInv`),
provenance and issues alike (`TraceInv`, `DriftInv`). What the cells kept of a
row amount to is shown by induction over the columns (`KeptByColumn`,
`GapsByColumn`): a kept cell stands as many places left of its column as the row
has gaps before it, and every place has a column (`KeptOfTaken`). So the three
theorems hold of every sheet, with gaps and without; on one whose headers have
none, a value is read from the column of its year.

### Figures (`DerivedProofs`)

* Loads (`SignalsHold`, `Filed`, `Drift`, `Marks`, `TrendShowsCliffs`), for any set of
  well-formed workbooks (`WellFormed`: weights and years are numbers), rules and
  years. `SignalsInv` says how the marks of each stored snapshot follow from its
  series and what its upload was scored on. That a drift below the threshold for k
  loads moves a weight by at most k times the threshold goes by the loads between
  the two snapshots; that stale years add nothing to a series without blanks goes
  by the last year that is not stale.
* Ratings (`Migrations`, `RatingScale`): the notches of consecutive migrations
  telescope (`WayTo`); monotone anchors are shown on the numbers of the scale, where
  an average rounded toward the worse rating stays between its two profiles.
* Sector figures (`SectorFigures`), for samples of any size and any integers.
  `sorted()` is what it puts in each place: the least value that that many do not
  exceed (`Sorted`); ranks count, quartiles interpolate between two places, and
  both are compared through the number of values at most v.

`SetLemmas` has what these rest on: a non-empty set of naturals has a least, a
bounded one a greatest element; what holds of 0 and of every successor holds of
all (stated of a set, since the prover cannot instantiate an operator); a finite
set can be listed as a sequence; matched sets are of one size, and the sizes of
classes add up.

### What is proved and in no run, and what is only model-checked

Some proved formulas are in no run, since the proof says more than a run would:
`LoadsPaidFor`, `SettledHonestly`, `NoPendingLimbo` and `SettledIsFinal` say of
the queue's own variables what the refinement of `TaskDelivery` rests on,
`LocksExclude` is what `TransitionsPairUp` rests on, and `NeverWithoutCurrent` is
a part of `HistoryIsSound`. The types of the queue and the registry
(`TypeCorrect`, `RegistryTypes`) are proved and not run.

Only model-checked are the liveness properties (`WorkEnds`, `LoadsEnd`, `RunsEnd`,
`AllServe`, `EventuallyPublished`): temporal proofs under fairness, and ENABLED,
are out of the prover's reach here. The definitions that a proof goes through by
induction are recursive functions or sets for that reason, never RECURSIVE
operators or folds, which the prover cannot see into.

## 6 Where the code and its text disagree

Four runs are marked *violation*, and `PROJECT.json` quotes the text they refute.

1. `queue_lost_task`: a task claimed by a worker that died is never delivered,
   because claim_next only takes pending tasks (queue.py:85).
2. `load_recheck_race`: a company can have two current rows. The `FOR UPDATE`
   waits for a row, finds it closed, does not see the successor, and the load
   starts again at version 1 (pipeline.py:129).
3. `read_latest`: /snapshots/latest takes the latest snapshot of each company
   row, and a company has one for each version of its metadata
   (routers/snapshots.py:50); the sector benchmark groups in the same way.
4. `start_reseeds`: "first-run" rates are seeded again at every start on a new
   day, and supersede what was entered by hand (fx.py:37).

The models reproduce more behaviour that a reader of the docs may not expect;
the properties are stated so that they hold with it:

* Queue: a worker loads every task for its own tenant, whatever the task's
  (pipeline.py:567).
* Loader: two first loads of a company find no row to lock and both insert one
  (:133); snapshot_at is taken before the wait for the row, so a series may tick
  without a change, and a migration may start at a snapshot that is not the one
  before, when loads overlap (:321, :287), and two first loads number theirs
  alike (:374); a rating after an unrated snapshot
  counts as a first one (:414); a load without a tenant changes rows of others
  (:127); reprocessing a file for a real tenant meets the unique key of its own
  upload (models.py:166); the default tenant can process a file twice
  (pipeline.py:274).
* Batch: an error before the first commit rolls back the run's row, and every
  later upload then refers to a run that is gone (:516, `NoSuchRun`); a retry
  inside a broken transaction cannot succeed (:64, `Refused`).
* Outbox: SKIP LOCKED lets a relay pass over events that another holds, so with
  two of them a snapshot may be published before its upload and its company, and
  stay so for as long as it takes to call a relay again if the other dies
  (cdc.py:121); consumers must wait for rows they do not know. Closing a company
  row, a failed upload, a status changed by delta detection and an approval write
  no event (pipeline.py:164, :256, :365, workflow.py:135).
  cdc.py:9 says events are never deleted; a retention policy of cdc_events
  deletes those that are published (retention.py:69).
* Start: two instances that seed together may both find a rate missing; the
  commit of one fails and its start with it (fx.py:42).
* Retention: a policy on uploads sets a NOT NULL column to NULL (retention.py:56);
  the probe for a timestamp column aborts the transaction on tables without
  uploaded_at (:129); cdc_events and provenance are deleted for every tenant (:69).
* Registry: a breaking version is stored before it is "rejected" with a 409
  (schema_registry.py:169).
* Extractor: a gap in the year header shifts values to other years
  (extractor.py:245), and the record of a methodology or risk behind a gap names
  another column than the one it stands in (:287); a text in "Industry weight" is
  dropped without an issue, and the weights behind it go to the segments before
  theirs (:296); values beyond the shortest of the three lists (:335), and cells
  beyond the years of the header (:251), are left out without one; scores and
  weights have no provenance (:294).
* Quality signals: models.py:391 says a year is an estimate if it is after the
  year of submission, the code takes that year too (analytics.py:68); stale
  years are found by "every credit metric" (analytics.py:27), which is every one
  that both years have.
* Validation: validator.py checks sector_specific_factor_1, expectations.py does
  not; the default tenant is checked by the rules of all tenants
  (pipeline.py:229).
* Analytics: "most recent snapshot wins" (routers/analytics.py:216), but rows are
  ordered by metric_year only, so any snapshot of the year may win. The endpoint
  rounds the percentage to two decimals before it compares it with -50 (:237,
  :239), the load compares the quotient (analytics.py:187): a fall by 49.996% is
  a cliff for the one and none for the other. The endpoint also looks across
  years without a value and calls an improvement from a negative value a cliff.
* Endpoints: they take companies by name and so mix tenants; /companies/compare
  knows one version of a company only, and after a change of metadata that
  brought no delta the current version has no snapshot.
* Approvals: a decision equal to the status that was read does not write it, so
  an overlapping one may leave an older decision standing (workflow.py:135).

## 7 Abstractions

* Times. Stamps are distinct and grow; a load's stamp names the rows it inserts,
  so the id of an upload or snapshot is its snapshot_at and the id of a company
  row its valid_from. A lease has a time left or none.
* Files. A file is a model value that stands for its bytes and their SHA-256;
  its company, SCD fields and content (what content_fingerprint covers) are
  functions of it. Credit metrics and methodologies are not in the fingerprint,
  so files that differ in them only have the same content. A failed upload has
  an empty hash in the code and NULL in the model. Uploads that failed during a
  reprocess do not name the upload they came from, here as in the code.
* Texts. The change log keeps `str()` of old and new values; the model keeps the
  values. In `Extractor` a number put in a field is its `str()`, blank is NULL,
  and the text "5" and the number 5 are kept apart.
* Retries. Inside `FileLoad` `_with_retry` adds nothing to `Raise`, because the
  retry of a broken session raises as well; `BatchRun` models the session, where
  only a connection failure before the first statement can be retried.
* `claimed_by` names a process in the code and a worker in the model, where each
  worker has an id of its own; `HolderOwnsRow` uses it to say that nobody has
  claimed the row since, and no action reads it. `complete` is also called when
  `_load_file` returned failed or skipped, and is never given an upload id.
* `CdcOutbox` has one company and keeps of an event what it is about, not its
  states. A load there has the statements that decide about events; the rest is
  FileLoad's. `Retention` keeps results by table name, as the code does.
  `SchemaRegistry` has one subject, whose mode is always BACKWARD, since nothing
  sets another. `Extractor` sheets have at least three columns, no booleans and no
  NaN. `RatingEngine` takes the adjustment already parsed: a number, or a text
  without one. `Approval` leaves the UPDATE out when the value is what was read,
  as the ORM does.
* `Access` keeps of last_used_at whether it is set and of tenants their slugs; its
  clock counts revocations. `Startup` counts days and keeps the source of a rate,
  not its value.
* `Detectors` knows of a text field whether it is blank, known or odd, and has
  weights in thousandths; where the code compares floating-point numbers at
  exactly the threshold, either outcome is allowed. `Signals` has one load at a
  time, and its metrics are integers, in units of the last decimal that the column
  keeps; what a workbook has beyond that decimal, and what floating point does to
  figures of more than a dozen digits, is not modelled. The check that a name has
  at most 255 characters (expectations.py:95) is left out: the column the name is
  stored in has that length (models.py:150), so a load with a longer one fails and
  stores no issue. `Benchmarks` has integers and counts quartiles in
  quarters.
* `EndpointsAgree` is about states between loads: each query is one statement,
  but two of them may have a commit in between.
* models.py speaks of row-level security; there is none in the code, so no model
  has it.

Bounds on counters: `MaxLoads` (loads, `FileLoad`, `CdcOutbox`, `Signals`,
`RatingEngine`), `MaxAttempts` (the code's MAX_ATTEMPTS), `MaxCrashes` (deaths),
`MaxRuns` and `Retries` (`BatchRun`), `MaxRows` (`Retention`, `Extractor`),
`MaxVersions` (`SchemaRegistry`), `MaxDecisions` (`Approval`), `Days`,
`MaxManual` and `MaxFailures` (`Startup`), `MaxKeys` and `MaxAssigned`
(`Access`), `MaxValues` (`Benchmarks`), and `At`, the times of events in
`CdcOutbox`, which `MaxLoads` loads never exceed.

## 8 What is not modelled

* OpenLineage events: posted without waiting for an answer, an exception is
  swallowed, nothing reads them. START is posted before the gate and never ended
  for a file that is skipped; COMPLETE is posted before the commit.
* Exports format rows that are only read; the CSV writes a score of 0 as blank.
* The Great Expectations library itself; what the code asks of it is in
  `Detectors`.
* Look-ups of single rows by id, filters by sector, country and currency, the
  catalog, and the lists of migrations, methodology changes and weight drifts,
  which filter rows that modelled steps have stored.
* Opening a workbook, hashing, and the pattern that gives a label its normal form.
* normalise_to_usd and emit_delete, which have no caller; pg_notify in enqueue,
  which has no listener.
* Configuration, logging, schemas, the session factory. The isolation level,
  autoflush off and the session's autobegin are taken from db.py.

## 9 Plan

A rule for all of it: one run for each question, with several properties of one
module and instance in the same run, and properties that are parts of one
statement stated together; new modules should bring one run each, and a weaker
run or property makes room for a deeper one.

Order: what decides whether data is lost or wrong came first (queue, loader,
batch), then what other processes do to the same tables (outbox, retention,
registry, approvals), then the pure parts (extractor, rating engine,
validation and signals, endpoints), then start-up, keys and the proofs about
them.

Done: the modules of section 2, their runs, and the proofs of section 5. Possible
from here:

1. A composition of queue and loader, in which the load step of `IngestionQueue`
   is a load of `FileLoad`, to state end-to-end delivery: an enqueued file ends
   as an upload of its company.
2. An abstract SCD history, one chain of versions for each company, that
   `FileLoad` implements where loads follow one another, and the types of
   `FileLoad` as a theorem.
