# MacroLens: formal models of the backend

MacroLens collects macro-economic series from statistical agencies, keeps every
vintage of every observation, serves the latest ones, and runs alerts, document
processing and AI analyses over them. A FastAPI process, a scheduler and any
number of workers share one PostgreSQL database; nothing else coordinates them.
The correctness of the system is therefore mostly the correctness of what
concurrent READ COMMITTED sessions do to shared rows, and that is what the
modules here are about.

This directory holds TLA+ modules of that code, TLC configurations that check
them on small instances, and TLAPS proofs for instances of any size. Paths are
relative to the repository; `api/` stands for
`src/backend/src/macrolens_api/` and `worker/` for
`src/backend/src/macrolens_worker/`. `PROJECT.json` maps every definition to the
lines it models.

## 1. Inventory

| Component | State | Operations | What is hard | What makes it correct |
|---|---|---|---|---|
| Durable job queue: `api/services/jobs.py`, `api/models.py` (`Job`) | `app.job` rows | `enqueue_job`, `reserve_job`, `reserve_jobs` | callers racing on one idempotency key while a worker runs the job | one row per key, never reset by a second insert |
| Worker runner: `worker/runner.py` | a row's status, attempts, lock owner and lock time; tasks of a process | `claim_job`, `heartbeat_job`, `finish_job`, `fail_job`, `worker_loop` | unlocked read then write by id; lapsing leases; crashes; commits that fail or fail only apparently | attempts bounded, one run at work, nothing stranded, everything settled in the end |
| Operator job endpoints: `api/routers/admin.py` | the same rows | `create_job`, `retry_job` | a retry races with every worker session | attempts stay bounded |
| Sync and publication: `worker/tasks/sync.py` | runs, batches, `observation_vintage`, `observation_latest`, bounds of a series | `sync_provider`, `_merge_observation`, `decide_observation_merge`, `_quarantine` | overlapping syncs decide from rows others replace; one bad observation must undo all; a job run twice | newest vintage served, archive immutable, nothing of a failed sync visible |
| Publication rollback: `api/routers/admin.py` | the same tables | `rollback_publication_batch` | rollback after rollback; rollback next to a sync | serving rows come from what is still published |
| Provider adapters: `worker/providers/*.py` | none; a provider's API outside | `probe`, `fetch` | short pages and histories that change; windows and batches; answers with other series in them | what is taken is the series, whole |
| Ingestion quality: `worker/tasks/ingestion_quality.py` | none | `validate_ingestion_completeness` | gaps, grids, excused and derived nulls, revisions | passes exactly the series a reader can rely on |
| History batches: `api/routers/admin.py` | child jobs and marker jobs; a batch has no row | `create_provider_history_batch`, `sync_series_history_manually`, `_history_batch_public` | concurrent requests, replays, a child that crashes | one batch at work; its status follows its children |
| Mapping approval: `api/services/source_mappings.py`, `worker/tasks/mappings.py`, `api/cli.py` | probe jobs, `source_series` | probe, approve, edit, import, retry | edits that read before an approval and write after it | what is ingested is what was probed and approved, or for TradingView the registry's row |
| AI analyses: `api/routers/ai.py`, `worker/tasks/ai.py` | `ai_run`, citations | create, run, cancel, fail with the job | cancel races with completion and with `fail_job`; the handler commits before its job does | an analysis ends as its job does; what everybody has seen cancelled stays so; citations are the answer's |
| Alerts: `worker/tasks/notifications.py`, `worker/tasks/email.py`, `api/routers/workspace.py` | `alert_rule.last_evaluated_at`, notifications, e-mail jobs | `evaluate_alerts`, `send_email_notification`, the rules' endpoints | watermark against commit order, cooldown, overlapping evaluations | events announced once within the cooldown, none lost |
| Documents: `worker/tasks/documents.py`, `api/routers/documents.py` | documents, versions, chunks, summaries | fetch, parse, embed, summarise | a chain of jobs that each commit and then enqueue the next | versions are a history; a queued parse makes the document readable or fails |
| Authentication: `api/routers/auth.py`, `api/dependencies.py` | refresh sessions | login, refresh, logout, edit of a user | rotation concurrent with logout, with replay or with itself | one live session per login; what was ended stays so |
| Series reading: `api/services/series.py`, `data_browser.py`, `transforms.py`, `compare.py` | none | observations at a cutoff, revisions, browser, CSV, analytics | many queries for one question, over a history syncs add to | readers agree; order and facets say what the rows say |
| AI evidence: `api/services/ai_context.py` | frozen contexts | `snapshot_context` | a cutoff in the past | as Series reading |
| Scheduler: `worker/scheduler.py` | none (keys carry the slot) | `enqueue_schedule_tick` | several schedulers | one job per provider and slot, by the key |
| Rate limiter: `api/middleware.py` | hits per client, in Redis | `dispatch`, `_cleanup` | window edge | at most N hits in a window |
| Workspace, sharing, releases, FOMC, licences, storage, CLI, web | rows edited by one request, or none | CRUD, I/O, presentation | little | ownership checks |

How they interact: API requests, the scheduler and handlers *insert jobs*;
workers *claim* them and call the handler (`execute_job`), which uses its own
database session; the handler's commit and the job's completion are two
transactions, so every handler must stand being run again. A sync asks an adapter
for the approved mappings of its provider, passes what it gets through the
quality gate, and publishes it; alerts, readers and contexts read what syncs
publish. The admin endpoints write the rows that workers write.

## 2. Modules

| Module | Contents |
|---|---|
| `JobLedger` | the abstract queue: what it promises to whoever submits a job |
| `JobQueue` | the queue, the runner and the operator's endpoints, in detail |
| `JobQueueProofs` | its theorems, among them that it implements `JobLedger` |
| `AnalysisJobs` | AI analyses, composed with `JobQueue`: the user's requests, the handler, and what `fail_job` writes of them |
| `AnalysisProofs` | its theorems, among them that it is a queue |
| `ServingStore` | the abstract store: what publication promises to readers |
| `Publication` | syncs of one series, publication and rollback, in detail |
| `PublicationProofs` | its theorems, among them that it implements `ServingStore` |
| `HistoryBatch` | the backfills an operator asks for, over the jobs they insert |
| `HistoryProofs` | its theorems |
| `Documents` | one document from its source to its readers |
| `DocumentProofs` | its theorems |
| `Mappings` | the mappings of one series: probes, approvals and who else writes them |
| `Sessions` | the refresh sessions of one user |
| `Alerts` | alert rules, their evaluations, notifications and e-mails |
| `Nulls` | the constant `None`, which the modules of the services share |
| `Probes` | what each adapter's probe reports, which `Mappings` takes as given |
| `Paging`, `Windows`, `Extracts` | a fetch: page by page; by years and batches; and what is taken of an answer |
| `Quality` | the gate between a fetch and `Publication` |
| `Readings` | readers of the history at a cutoff, next to syncs |
| `Browser` | the data browser's filters, facets, order and metrics |
| `SessionProofs` | the theorems of `Sessions` |
| `MappingProofs` | those of `Mappings`, `Probes`, `Paging`, `Windows` and `Extracts`: from a probe to what is fetched |
| `ReaderProofs` | those of `Alerts`, `Readings`, `Browser` and `Quality`: what becomes of the observations |
| `MCJobQueue`, `MCAnalysisJobs`, `MCPublication`, `MCHistoryBatch`, `MCDocuments` | their instances |
| `MCServices` | the instance of the ten components `Mappings`, `Sessions`, `Alerts` and `Probes` to `Browser` |

The ten components of `MCServices` share no row with one another, so that a
behaviour of it is one of the part that its variable `part` names. It extends
all ten (a definition carries its module's name where two would clash), so that
the properties it checks are the very ones the theorems state. The variables of
the parts not at work stay as they begin, or are `None`. Each component can be
used by itself.

### JobQueue and the code

`job` is the `app.job` table. `phase`, `runner` and `seen` are the local state of
`_execute_with_heartbeat` for each attempt of each job, `beat` that of its
`_heartbeat_loop`, and `retrySeen` the session of a `retry_job` request.

* `claim_job` is one step, `Claim`: it selects with `FOR UPDATE SKIP LOCKED` and
  updates in the same transaction. The order of the queue and rows skipped
  because another session may have them locked are part of it.
* `finish_job`, `fail_job`, `heartbeat_job` and `retry_job` select without a
  lock and update by primary key. Each is a `...Read` and a `...Commit` step, and
  `Put` says what SQLAlchemy's flush does: a column is in the UPDATE only when
  the session changed it from the value it had read. (A retry of a queued row
  therefore does not write its status at all.)
* A commit that raises may have been applied (`FinishRaises`); `finish_job`
  stands inside the `try`, so `fail_job` runs next.
* `Crash` is a worker's death or shutdown: its tasks and sessions are gone, rows
  stay, and a worker of the same id comes back.
* Time is abstract: a lock time is fresh or stale, `run_after` is past or not.

A handler is one step that returns or raises. Payloads, error texts and
`finished_at` are left out; `result` is the attempt whose result the row holds.

### AnalysisJobs and the code

The module extends `JobQueue`; each of its actions is a step of the queue, of
the handler or of a request, and says what becomes of the others' state.
`analysis` and `citations` are the tables `ai_run` and `ai_citation`; `handler`,
`read` and `draft` are the session of `run_ai_analysis` (`read` also that of
`fail_job`), `cancelRead` that of a cancel request.

* `Create` reserves the job and inserts the analysis in one transaction.
* The handler commits "running" (`HandlerStarts`), or "failed" when it has no API
  key (`HandlerRefuses`), asks the model, refreshes the row (`HandlerRefreshes`)
  and commits the answer with its citations (`HandlerStores`). Neither commit is
  that of its job, so a worker may die or `finish_job` fail in between. Each
  status is written by primary key, with `Put`, from the row last read.
* A cancel request reads (`CancelReads`) and commits (`CancelCommits`) likewise.
* `fail_job` reads the job and then the analysis (one step, `FailReads`) and
  writes both (`FailCommits`). `finish_job` does not touch the analysis.

The evidence is a set of citation numbers, an answer those it cites; an invalid
answer is one that raises. Contexts, prompts, report text and token counts are
left out. A wait for a row lock between two handlers of one analysis is a delay
and not modelled; that (run, citation number) is unique is.

### Publication and the code

`regime` says what a behaviour is like and never changes: whether the syncs take
the advisory lock, which batches the operator may roll back, and whether a
rollback waits for the syncs. `archive`, `latest`, `batch`, `run` and `bounds` are committed rows.
`sync_provider` is one long transaction: `drafts` and `dirty` are the rows it has
written and not committed, and it sees them over the committed ones (`Archived`,
`Serving`). Reading and deciding (`MergeDecides`) and writing (`MergeWrites`) are
separate steps, so another sync may commit in between; the write waits for locks
(`KeyLocked`, `RowLocked`) and the upsert's `WHERE excluded.vintage_at > ...` is
evaluated again when it has them, as PostgreSQL does. `MergeFails` is the
rollback of one observation's savepoint and `Fail` that of the publication's.
`Settle` is the flush of the superseded batch and the queries of the bounds,
`Commit` the final commit. `Begin` inserts the run under its business key, which is
the job and a hash of the mappings it finds verified (`ScopeOf`): an execution of
the job waits for another that found the same ones, and fails once that has
committed; one that finds others, since the job names none and a mapping was
approved or revoked in between, goes ahead and publishes again. Two executions
have the same mode, since it is the job's. `Die` is a worker's death in any step.

A rollback request reads (`RollbackReads`) and later writes and commits
(`RollbackCommits`), column by column where the row still exists (`Restored`).

Abstractions: one provider and one series; `value` stands for all compared
columns; quality gates are the choice between `Quarantine` and `Stage`; the
provider states every observation as "normal"; the reads of a rollback are one
step, with one request per batch at a time; the row lock that an
`ON CONFLICT` whose `WHERE` is false keeps is not kept; observations are merged
in any order.

### HistoryBatch and the code

A batch is the jobs that carry its id. `Replay`, `Reuse` and `Create` are the
exits of `create_provider_history_batch`: under the lock (`Holding`) a request
finds its own earlier answer (`Replay`) or an active batch (`Reuse`, which leaves
a marker job so that a repetition finds it); otherwise it goes on (`Begin`) to
insert a child for each source that no backfill has succeeded for, or a marker
when nothing is left (`Create`). A single-series backfill and a
manual sync do not lock; each reads and inserts. `Claim`, `Finish`, `Fail` and
`Dies` are the workers, `Retry` the operator, `MappingChanges` whoever changes
which sources are eligible. `Report` is the status the endpoint computes.

Of the queue only what these requests can observe is here. A child's result is
left out: a backfill of one source that publishes nothing raises, so a succeeded
child has no error in it.

### Documents and the code

`run[j]` is the session of a job at work: it loads the document (`LoadFetched`,
`LoadParsed`, `ReadVersions`) and later commits (`StoreFetched`, `StoreParsed`)
what it changed of that. The next job is enqueued in transactions of its own after that
commit (`EnqueueEmbed`, `EnqueueSummary`), so a worker may die in between, and a
job that was enqueued once is never enqueued again (`Enqueued`). `Collides` is
the unique constraint on versions. A body is a download by its hash, `TextOf`
what a parse extracts; chunks and embeddings are made of their version alone.
Leases hold here: a job has one run at a time.

### Mappings, Sessions and Alerts and the code

* `Mappings`: an identity stands for all fields `source_mapping_fingerprint`
  hashes. `probing` is what the run of a probe has read of its mapping, `writer`
  the requests under way with the row they hold. `approve_mapping_from_probe`
  locks what it reads and is one step (`Approve`); an edit, a registry import and
  a retry read (`BeginPatch`, `BeginSeed`, `BeginRetry`) and write at their
  commit the columns they have changed from what they read (`Column`, `Merged`).
  The registry import has two ways. Agencies' mappings keep an approval whose
  evidence is of the registry's identity and lose any other (`CommitSeed`);
  TradingView's (`_seed_tradingview_registry`, `OfTradingView`,
  `CommitTradingViewSeed`) are made verified and primary, with no job and no
  fingerprint, whenever the registry marks them READY, whatever they were and
  without a probe: TradingView's adapter has none, so that a probe of theirs always
  raises. The unique index on the primary mapping of a series fails that commit when
  another mapping is primary. `raced` remembers approvals, and imports of
  TradingView, that overlapped with another request on the row or found it changed.
* `Sessions`: a token is the row it was made with, and is never forged; expiry is
  left out, since it only ends sessions. The `login` a row descends from is not a
  column; it is kept to speak of families. `BeginRefresh` locks the row until
  `Refresh`; a replay or a logout walks the family it sees (`Descend`, one
  generation at a time, flushing and so locking what it has revoked before each
  query) and commits in `EndWalk`, so a rotation may commit a child it has not
  seen (`escaped.walks`). Likewise a login or a refresh may slip past an edit of
  the user (`escaped.edits`).
* `Alerts`: a document is stamped when its transaction begins and seen when it
  commits. An evaluation takes the time and the rules (`BeginEvaluation`), looks
  at each (`Decide`) and commits all notifications, watermarks and e-mail jobs at
  once (`CommitEvaluation`), or dies. Revision and FOMC rules are new_document
  rules over other rows and are not repeated. An e-mail goes out before its job
  is finished (`Deliver`, `FinishMail`).

### Probes, Paging, Windows, Extracts and Quality and the code

* `Probes`: a probe goes through stages, and a record per adapter says where the
  adapters differ. The checks of `MappingProbeResult` are `Contradicts`,
  the class `Classify`. All fields that pin an identity are one comparison.
* `Paging`: the provider's history may gain or lose a row between any two
  requests, and an answer may be short. A row is its period, and a page, which
  has each row once and in order, the set of its rows. Changes of a value alone are left out: an answer has then the value it had when
  it was given, which no adapter can tell. FRED's fetch checks where the history
  begins in a backfill only (`FredBackfill`).
* `Windows`: requests are computed as the adapters do, and `Take` collects what
  an honest provider answers to each. No request depends on the answer to another,
  so their order is left out. Treasury's nominal and real rates are one
  group here.
* `Extracts`: an answer grows row by row to any that the provider could give, and
  `Extract` is what the adapter makes of it. EIA, FRED and DOL ask for one
  series and take every row, so `Paging` has all of them. An entry of the Treasury's
  without a date is passed over and is no row; an answer of BLS without data is
  taken as it is. The aggregations max and
  last of NY Fed are used by no mapping of the registry and are left out.
* `Quality`: every snapshot of a few periods, with every configuration of the
  mapping that the registry uses. A frequency is a step and, from monthly to
  annual, a grid (`gridded`, `OnGrid`). A week or a day is not aligned to
  anything (`_is_period_aligned` returns true), so a weekly snapshot may have
  further rows between those that are a week apart from its first.

### Readings and Browser and the code

* `Readings`: the value of an observation is never updated, so a period and a
  vintage stand for it. A vintage is the time of its fetch, or with FRED's
  vintage backfill one that FRED reports. `Points` is what each reader selects,
  `Denied` and `Unavailable` when it refuses.
* `Browser`: the metrics are computed from all rows of a series (`Metric`) and
  the order from those another query picks (`SortRows`). Search, availability
  states, rounding, offsets and the CSV are left out; a licence allows display or
  does not. Exports of more than 10,000 points or series are refused in the code;
  the instances and the models have no such cap, which only takes answers away.

## 3. Runs

| Run | Instance | Properties |
|---|---|---|
| `leases` | 2 workers, 2 tasks each; a two-attempt sync whose leases hold; a one-attempt probe whose leases may lapse under a run and which the operator retries | `TypeOK`, `AttemptsCountRuns` of both; `OneRunAtWork`, `QueuedHasAttemptLeft` and the refinement of `JobLedger` for the sync |
| `live` | 2 workers, 2 priorities, the sync's leases may lapse, no retry by hand, fairness | `RunningIsLeased`, `EventuallySettledOrSpent` |
| `analyses` | an analysis of 2 attempts and 2 sources, 2 workers, its leases hold, fairness | `SettledTogether`, `CitationsAreTheAnswers`, `CancelledStays`, `EventuallyEnded` |
| `publication` | 4 syncs, 3 of them executions of one job of which 2 find the same mappings, 6 fetches over 2 periods; in one regime the syncs overlap freely and nothing is rolled back, in the other they run one after the other and the operator rolls any active batch back between them | `TypeOK`, `NewestServed`, `PublishedOnce`, `BoundsMatchServed`, `FirstRollbackRestores` and the refinement of `ServingStore` |
| `history` | 2 batch requests of one source each, 2 sources, a backfill of one of them, a manual sync, retries of anything, fairness | `TypeOK`, `OneBatchAtWork`, `SameAnswer`, `BackfilledOnce`, `EventuallyOver` |
| `documents` | 2 bodies of 2 texts, a fetch that is retried, parses, an embedding and a reader's summary, 3 settings of licences, fairness | `TypeOK`, `VersionsAreAHistory`, `QueuedParseSettles` |
| `services`: mappings | 2 mappings of one series, one of them TradingView's, 3 probes, one edit, import or retry at a time, of the other | `IngestedIsVouchedFor` |
| `services`: imports | the same with 2 requests at a time, imports and edits of TradingView's | `IngestedIsVouchedFor` |
| `services`: sessions | 2 requests at a time, 3 sessions, 1 edit of the user | `OneLivePerLogin`, `EndedLoginIsOver`, `AdmittedSinceEdit` |
| `services`: alerts | a rule of each of 4 kinds, 2 evaluations at a time, a document, an e-mail of 2 attempts, 3 ticks | `NotFlooded`, `NoDocumentLost` |
| `services`: probes | 8 adapters, every stage and configuration | `ClassIsEarned` |
| `services`: paging | 4 periods in pages of 2, 4 pages at most, 2 changes of the history | `CompleteIsWhole` |
| `services`: windows | 2 series, 3 years, windows of 2, batches of 1, one row the provider lacks | `WindowsCover` |
| `services`: extracts | answers of 3 rows, 2 codes, 2 descriptions, 3 periods, 2 values or none | `WholeAndUnmixed` |
| `services`: quality | 4 periods, one of them revised, steps of 1 and 2, with a grid and without | `PassesWhenWhole` |
| `services`: readings | 2 syncs, 2 periods, 7 kinds of readers, 2 ticks | `CutoffIsKept` |
| `services`: browser | 2 series with 7 lists of sources, 2 facets and a publication filter; or every series of up to 4 periods against 2 others, 5 metrics | `FacetsPredict`, `RankedAsShown` |
| `stale_row`, `torn_row`, `refetch`, `identity`, `as_of` | small | violations, section 6 |

`services` has a further type invariant, `ServicesTypeOK`, of the part at work.
`NewestServed` is the property the two-step merge puts at risk: without the
upsert's `WHERE` clause it fails. Each property of `Publication` names the
regimes it is about. `ImplementsServingStore` says all that
readers can see; `ServedIsArchived`, which is a part of it, is a theorem only.

**Bounds.** Two attempts are the least with a retry and a terminal failure, and
two tasks on two workers the least where two runs of a job could meet on one
worker or on two; in `leases` the workers are symmetric (no definition tells
them apart, and the run has no liveness property). Three syncs allow a
publication before, between and after the two that race (with a fourth, to run a
job twice next to them), and the fetches contain, relative to one
another, a newer vintage, an older one, an equal one with another value, one
with the raw object of another vintage, and nothing. Two periods make a batch
partly valid. Two sources are enough for
an answer to cite some and not others, and for a batch that leaves one over.
Two bodies are the least that a source can return to. Two requests at a time are
every pair of handlers of `Sessions`, and three sessions a rotation next to a
walk. Three ticks are a day and a half with two ticks to the day: a digest slot,
a cooldown and a tick after both. Two pages and a half make a page that is full,
one that is not, and a row that moves from one page to the next. A missing row
may be any. Three rows are two of the mapping and one other, or the reverse.
Four periods at two steps have a gap, a
period off the grid, a null at the start and one later, and an old newest value.
The proofs have none of these bounds. `AttemptLimit` bounds
`max_attempts`, `MaxBorn` the times a row of `HistoryBatch` is created at,
`MaxSessions`, `MaxEdits`, `MaxTime`, `MaxPages` (also of the code), `MaxChanges`
and `MaxRows` what their names say. `Mappings` bounds who is edited (`Edited`),
to which status (`Statuses`) and which probes are retried (`Retried`).

**Deadlock.** `publication`, `torn_row`, `services`, `identity` and `as_of` set
`CHECK_DEADLOCK FALSE`: syncs are used up, the clock of `Alerts` and `Readings`,
sessions and attempts are bounded, and a probe, a fetch, an extract, a gate and
an answer are over when they are. The others check it.

**Assumptions as constants.** `HeldJobs` are the jobs whose leases do not lapse
under a run at work: what the heartbeat is for, but what the code cannot
guarantee (one failing heartbeat ends the loop). `Exclusive` are those of them
that nobody retries by hand, `Unattended` all that nobody retries. A property
that needs it is stated of those jobs, next to others that have no such luck.
In `Publication` the assumption is the `regime` of a behaviour, and `Regimes` the
ones an instance has: `serialised` is the advisory lock that `sync_provider`
takes for TradingView backfills only, so the overlapping regime is the general
case; `waits` says that no rollback overlaps a sync or another rollback, which no
code enforces. The theorems are about every set of regimes; `torn_row` shows
what an operator who does not wait can do.

**Fairness.** `live`, `stale_row`, `analyses`: claiming, because workers poll in
a loop that survives exceptions; every step of a run, because handlers have I/O
timeouts and tasks go on to their `finally`; lapsing of leases and of back-off,
because time passes. `history`: a queued job with an attempt left is claimed, and
a run ends. `documents`: the same of the parses. Enqueueing, requests, crashes, heartbeats
and manual retries are never required.

## 4. Proofs

The theorems hold for every value of the constants that satisfies the named
assumptions of the modules, which TLC evaluates in every run. Some of the
assumptions are more than naming. Sets are finite where something is counted or a
newest is taken: syncs, periods and vintages (`FiniteAssumption`,
`PeriodsOfReadings`), evaluations at a time (`BoundsAssumption`, since the
cooldown is counted in them), periods of a snapshot (`UnitsAssumption`), rows of a
paged history (`PagesAssumption`), series of a request (`WindowsAssumption`) and
listed ones (`ListedAssumption`). That does not restrict a program that has run
for a finite time. `CasesAssumption` says that a browser's request is one its
endpoint accepts over a catalog as the tables have it, with the values of a
series integers (`PointsAssumption`) where the code has decimals: only sums,
comparisons and percentages are taken of them. A backfill reaches further back
than an incremental fetch (`WindowsAssumption`: `Recent < LastYear`), and years
count from 1, so that `ThisYear - Recent` is one. The numbers of workers, jobs,
requests, sessions, documents, rules, attempts, ticks, pages, batches and rows are
otherwise arbitrary.

Every proof has the same layout: an inductive invariant out of named parts, a
lemma per action (or per kind of step) that it keeps them, one lemma that `Next`
does, and the theorems, each from what the invariant says. Induction over numbers
(a newest version, a newest vintage, a chain of sessions) is done by a least
counterexample or by cardinality, since the library's induction theorems cannot
be used with these provers; so do the sorts, counts and windows of the readers
and adapters, which is why their modules are about sets with the number of an
element in them, not about recursion over lists.

### The queue and its analyses

| Theorem | Statement |
|---|---|
| `TypeCorrect` | `Spec => [](TypeOK /\ SessionsHoldRows)` |
| `AttemptsBounded` | `Spec => []AttemptsCountRuns` |
| `RunningLeased` | `Spec => []RunningIsLeased` |
| `OneRunAtATime` | `Spec => []OneRunAtWork` |
| `QueuedCanRun` | `Spec => []QueuedHasAttemptLeft` |
| `QueueImplementsLedger` | `Spec => ImplementsLedger` |
| `AnalysesRunOnTheQueue` | `AnalysisSpec => Spec` |
| `AnalysisTypeCorrect` | `AnalysisSpec => []AnalysisTypeOK` |
| `AnalysesSettle` | `AnalysisSpec => []SettledTogether` |
| `CitationsMatch` | `AnalysisSpec => []CitationsAreTheAnswers` |
| `CancelledForGood` | `AnalysisSpec => CancelledStays` |

`JobQueueProofs`. `SessionsHoldRows` strengthens the type invariant: a session
that is about to commit holds a row it has read, which the typing of what `Put`
returns needs. `AttemptsCountRuns` is inductive together with the type and with
`AbsentIsUntried`. `LeaseInv` strengthens `RunningIsLeased` with what sessions
remember: the row a run read was running and owned. `ExclusiveInv` strengthens
`OneRunAtWork`: a run between its read and its commit read the row as it still
is, except for the lock time, so the unlocked write hits the row the check was
made on. From it every action maps to an action of the ledger or to a stutter
(`LedgerStep`); a step of a job outside `Exclusive` is a stutter.

`AnalysisProofs`. Every step of `AnalysisNext` is a step of the queue or leaves
the queue alone, so all theorems of `JobQueueProofs` hold of the analyses' jobs.
`SettledTogether` is not inductive: it says nothing of the sessions that are
about to write. `SettledInv` adds that a session about to write read the status
as it still is, unless the analysis has been cancelled since; that the analysis
is ended once its handler has returned; and that a cancel request never holds a
cancelled row. That the session at work is the only one comes from
`ExclusiveInv`, which is where the leases are needed. `CitedInv` adds that
the citations a handler about to store an answer will delete are all there are.
`CancelledStays` is an action property and needs no lease: by `HeldInv` a session
about to write a status has read the row, and a handler among them has not read
that it is cancelled; by `UnaskedInv` no analysis is cancelled before it has a
job.

### Publication

| Theorem | Statement |
|---|---|
| `PublicationTypes` | `Spec => []TypeOK` |
| `PublishedJustOnce` | `Spec => []PublishedOnce` |
| `NewestAlwaysServed` | `Spec => []NewestServed` |
| `ServingFromArchive` | `Spec => []ServedIsArchived` |
| `BoundsFollow` | `Spec => []BoundsMatchServed` |
| `FirstRollback` | `Spec => FirstRollbackRestores` |
| `PublicationImplementsStore` | `Spec => ImplementsServingStore` |

The invariant is `Types /\ RowsInv /\ ServingInv`. `RowsInv` is what PostgreSQL
gives in every regime: who owns the uncommitted rows (`OwnInv`), that a key is
archived or drafted once and a serving row held by one sync (`KeyInv`, `LockInv`),
that a business key has one sync at a time (`RunInv`), and that what is written is archived
or drafted (`SourceInv`). `PublishedOnce`, that a key of the archive is written once
and a business key publishes once, follows from it alone; it says nothing of two
executions of a job that found different mappings, which do both publish. `ServingInv`
is about the regimes without a rollback that overlaps (`Undisturbed`): the rows a
sync holds uncommitted are newer than those they replace, and at least as new as
all it has drafted (`NewerInv`), which survives the commits of others because
nobody makes a serving row older and because the upsert's `WHERE` is evaluated on
the row it then locks; what a rollback has read is so until it commits
(`QuietInv`); while nothing was rolled back the serving row is the newest of its
period (`NewestInv`); the syncs under the advisory lock are one at a time and the
bounds they read are the bounds (`SerialInv`). `FirstRollback` is an action
property from `QuietInv` and `NewestInv`: what the rollback restores is the newest
of what the other batches have archived, and what it does not touch was that
already.

`PublicationImplementsStore` maps every commit of a sync to `Publish`, every
commit of a rollback to `Withdraw`, and every other step to a stutter
(`StoreStep`): readers see a batch in one piece, never a vintage that another
replaced or lost, and a row that is served moves back only when a batch is
withdrawn. That what a sync commits is newer than what it replaces is `NewerInv`,
under its own keys `KeyInv` and `SourceInv`, once `PastInv`; that a rollback writes
what it read, `QuietInv`. The mapping is that of the behaviours in which no
rollback overlaps; of the others it shows an empty store and says nothing.
`ServingFromArchive` (what is served was archived by a sync that succeeded) is a
part of the same invariant, and is proved and no longer checked by a run.

### History batches

| Theorem | Statement |
|---|---|
| `HistoryTypes` | `Spec => []TypeOK` |
| `BatchesTakeTurns` | `Spec => []OneBatchAtWork` |
| `AnswersRepeat` | `Spec => []SameAnswer` |
| `SourcesBackfilledOnce` | `Spec => []BackfilledOnce` |

`OneBatchAtWork` is kept by `LockInv`: one request at a time goes on under the
lock, it has found no row of its own and no active child, and no child comes back
to work while it inserts its own, since the single attempt of each older child is
spent (`Spent`, with `RowsInv`), so that neither a worker nor a retry can run it.
`AnswerInv` says that the rows a request has left agree on the batch and that
every answer was read from one of them; `ToBackfill` that a child which can
still run is of a source no batch has backfilled.

### Documents

| Theorem | Statement |
|---|---|
| `DocumentTypes` | `Spec => []TypeOK` |
| `VersionsNumbered` | `Spec => []VersionsAreAHistory` |

The invariant states the history with its length: there is an m such that the
versions are numbered 1 to m, each number and each text once, all but m
superseded (`History`), and a parse that is about to store has read a number up to
m (`Behind`). A parse stores the number after the one it read; the unique keys
(`Collides`) let it through only if that is still m, so a commit extends the
history by one or fails.

### Sessions, mappings and what is fetched of them

| Theorem | Statement |
|---|---|
| `SessionTypes` | `SessionsSpec => []SessionsTypeOK` |
| `OneLive` | `SessionsSpec => []OneLivePerLogin` |
| `EndedIsOver` | `SessionsSpec => []EndedLoginIsOver` |
| `AdmittedIsRecent` | `SessionsSpec => []AdmittedSinceEdit` |
| `MappingTypes` | `MappingsSpec => []MappingsTypeOK` |
| `IngestedVouchedFor` | `MappingsSpec => []IngestedIsVouchedFor` |
| `ClassEarned` | `ProbesSpec => []ClassIsEarned` |
| `PagingTypes` | `PagingSpec => []PagingTypeOK` |
| `CompletePages` | `PagingSpec => []CompleteIsWhole` |
| `WindowTypes` | `WindowsSpec => []WindowsTypeOK` |
| `WindowsAddUp` | `WindowsSpec => []WindowsCover` |
| `ExtractTypes` | `ExtractsSpec => []ExtractsTypeOK` |
| `ExtractsUnmixed` | `ExtractsSpec => []WholeAndUnmixed` |

`SessionProofs`. The rows of a login are a chain: each but the last was rotated
into the next, and a row is rotated once because a refresh holds the lock of a
live row nobody else refreshes (`RotationInv`), so only the last can be live
(`ChainInv`). A request that revokes a family has one row to go on from, has seen
everything below it, and what is live of the family is in its list, ahead of it,
or escaped it (`WalkInv`); when nothing is ahead, its commit ends all the rest.
`EditInv` is the same for an edit of the user, which reads all live rows at once.

`MappingProofs`. A probe tests the identity whose fingerprint it leaves, and a
run has its job until the job is taken from it (`ProbeInv`). A mapping that is
ingested from by an approval nobody raced stands on the evidence it names
(`StandInv`), because every request that holds its row holds it as it is, and
nobody holds its probe to retry it (`ReadInv`): a late write then merges into the
row it was computed from. A mapping of TradingView has no probe that could have
succeeded, hence no approval; if it is ingested from and its import was not raced,
its row is the registry's, because an edit that changes the identity or the status
leaves it unverified and the import rewrites every column.

`ClassEarned` needs that a probe which goes on has met no failure (`OutcomeInv`),
and that the evidence of a failure has no identity, which no adapter's issues can
make up for (`FailureBlocks`).

`CompletePages`. Pages are cut by the number of a row in a history that changes
between them, so nothing says where a page lies in the history that was opened.
What is inductive (`PagingInv`) is coarser: while rows only come, or only go, and
the total is the one of the first answer, the history is the one that was opened,
so all that is received is of it (`SameTotal`). A fetch that ends has as many
rows as that total and none twice, at once or by the check at the end
(`RepeatsCaught`, `RowsAddUp`): a subset of the same size is the whole. Without a
total, or with a row gained and another lost, the argument and the property stop
at the same place.

`WindowsAddUp`. `WindowsInv` says that what a fetch has, with what its requests
still to be made will bring, is exactly what is wanted; it holds of the plan, one
lemma per adapter (`BlsCovers`, `NyFedCovers`, `TreasuryCovers`,
`VintagesCovers`), and an answer moves its rows from one side to the other. The
plans rest on `InSomeRun`: every number of a range is in one of the runs it is cut
into, for years (`YearWindowsHave`) and for a set in batches (`BatchesHave`).

`ExtractsUnmixed`. An extract is made in one step from an answer that may have any
rows, so the invariant is about the answer (`Answered`, `G17Listed`: the months of
the G.17 table come in order), and the work is that what the adapter resolves by
code, or by code and description, are the rows of the mapping and no others
(`MatchingIsMeant`), that the position of a G.17 row among those of its year is
its month (`MonthsInOrder`), and that a derived value is taken from the row just
before (`PreviousOf`, `DifferenceIsSound`).

### Alerts, readers, browser and gate

| Theorem | Statement |
|---|---|
| `AlertTypes` | `AlertsSpec => []AlertsTypeOK` |
| `CooldownKept` | `AlertsSpec => []NotFlooded` |
| `DocumentsNotified` | `AlertsSpec => []NoDocumentLost` |
| `ReadingTypes` | `ReadingsSpec => []ReadingsTypeOK` |
| `CutoffAnswersAgree` | `ReadingsSpec => []CutoffIsKept` |
| `BrowserTypes` | `BrowserSpec => []BrowserTypeOK` |
| `FacetsCounted` | `BrowserSpec => []FacetsPredict` |
| `SortKeyIsMetric` | a metric of all rows of a series, when shown, is that of the rows kept for the order |
| `RankedByShown` | `BrowserSpec => []RankedAsShown` |
| `QualityTypes` | `QualitySpec => []QualityTypeOK` |
| `PassesMeansWhole` | `QualitySpec => []PassesWhenWhole` |

All in `ReaderProofs`. Evaluations of alerts overlap and commit in any order, so
`NotFlooded` is not
inductive; what is, is that each evaluator's own notifications of a rule lie
further apart than the cooldown, also from the one it is about to make
(`SpacedInv`). Within a cooldown there is then at most one of each evaluator, and
an injection into the evaluators bounds their number. For `NoDocumentLost` an
evaluation whose time is past a document has seen it unless it was overtaken
(`SeenInv`), and a watermark that is past an awaited document has its notification
(`NotedInv`, also of what evaluations have read and decided and not yet committed).

`CutoffAnswersAgree`. What an answer was made of stays in the archive
(`AnswerInv`), so a later answer at its cutoff or a later one knows at least as
much, and its newest vintage of a period is no older (`NewestKnown`). A period that
the later answer leaves out was pushed out of the reader's window by a window full
of later periods (`WindowIsFull`, `LeftOutForLater`), by counting.

`RankedByShown`. The order looks at the rows another query keeps of a series, the
last two with a value and those the last is compared with (`SortRowsOf`), the
metric at all of them. `SortKeyIsMetric` is that they agree
whenever the metric is shown; `OrderIsStrict` and `EveryRank` (series of a finite
set each have a place, and every place a series) that the page lists them in that
order; `SamePage` and `DeniedUnseen` that values which may not be displayed have
no part in it. `FacetsCounted` compares the series a facet counts with those the
request finds when the value is chosen (`CountsAreFound`), through the filters of
both.

`PassesMeansWhole`. The gate reads values and nulls off the newest rows of a
snapshot with several vintages, a reader the series that is left of it
(`NewestRow`, `CountedAsShown`). That no complaint is left (`FaultlessPasses`) is
equivalent to what a reader relies on (`PassingIsReliable`): the complaints look
for periods that are missing between the first and the last, which says that
every period a whole number of steps after the first is there (`WholeOrMissing`);
on a grid nothing else can be between them (`OnTheGrid`, `GridIsWalked`), and of a
week or a day the property claims no more; and the null dropped for a difference
is the one at its start (`NullsExcused`).

### Model-checked only

* `EventuallySettledOrSpent`, `EventuallyEnded`, `EventuallyOver` and
  `QueuedParseSettles`: liveness under fairness is out of the prover's reach.
* `ServicesTypeOK`: the type of whichever of the parts is at work. It says no
  more than its parts; nine of them are theorems (`SessionTypes`, `MappingTypes`,
  `AlertTypes`, `ReadingTypes`, `BrowserTypes`, `QualityTypes`, `PagingTypes`,
  `WindowTypes`, `ExtractTypes`) and `ProbesTypeOK` is a conjunct of the invariant
  behind `ClassEarned`.
* That the five runs of section 6 are violated is a behaviour each, not a theorem.

Every other invariant and action property of a run is a theorem.

## 5. Not modelled, and what is left

What is done: the queue, publication, analyses, history batches, documents,
mappings, sessions and alerts; the providers' probes and fetches; the quality
gate; readers at a cutoff and the browser; each with the proofs of its safety
properties, and the refinements of `JobLedger` and `ServingStore`.

Left, in this order:

1. The composition of `JobQueue` with `Publication`: a job's outcome against the
   batch it published, when a worker dies between the two commits. `Publication`
   has the re-execution of a job, with the mappings it finds then, without its
   queue.
2. Readers next to a rollback: `Readings` has the archive alone, which a rollback
   does not touch.
3. Three hazards without a property (`PROJECT.json` says why of each): a revision
   stored with a status its provider never states, an e-mail that goes out twice,
   and a digest slot that the day's earlier evaluation uses up.

Not modelled, and not planned:

* The formats of answers and files (dates, numbers, XML, ZIP, HTML, PDF, XLSX),
  redaction of what is stored of them, and the WebSocket protocol and the name
  tables of TradingView: parsers of external formats without shared state.
* The arithmetic of the scheduler's slots: that a slot is enqueued once is the
  idempotency key, which `JobQueue` has; that a tick falls into it is up to the
  clock.
* The rate limiter: one script that Redis runs in one piece, and in its absence
  a list of one process. Nothing else reads what it counts.
* Workspaces, favourites, sharing, releases, FOMC meetings, reports, taxonomies:
  each request writes rows nobody else writes at the same time, after an
  ownership check.
* Search, statistics, contributions, availability states and CSV text of the
  readers; prompts, contexts of documents and the client of the model.
* The command line (but for the registry import, in `Mappings`), seed and demo
  data, object storage, the response schemas, and the web application.

## 6. Where the code and its documents disagree

Each is a run that TLC finds violated.

* `stale_row` / `StaleRowIsRecovered`: `claim_job` requires an attempt left of a
  stale running row too (`worker/runner.py:46`), so a row whose last attempt
  crashed stays `running` for ever; its docstring says that a stale running row
  is reclaimable.
* `torn_row` / `LatestIsProjection`: a rollback reads a serving row, a sync
  replaces it and commits, and the rollback then updates by primary key only the
  columns that differ from what it had read (`api/routers/admin.py:1060`). With
  the vintages 1 and 2 equal in value and 3 a revision, rolling back 2 while 3 is
  published leaves vintage 1 with the value of 3.
  `src/docs/conclusions/2026-08-03-project-purpose-analysis.md:76` calls the latest
  value a mere projection for serving.
* `refetch` / `FetchedIsParsed`: `fetch_document` sets a known document to
  processing (`worker/tasks/documents.py:219`) and enqueues its parse under a key
  that holds the body. When the source returns to a body it had before, that job
  exists and has ended, nothing parses it, and the document stays hidden although
  the handler returns `queued_for_parsing`.
* `identity` / `ChangedIdentityIsRevoked`: an edit of a mapping reads the row
  before its approval commits and writes afterwards; the columns of the approval
  were NULL when it read them and so are not written (`api/routers/admin.py:808`).
  The new identity is left verified with the fingerprint of the old one. The
  conclusions of the mapping's work order say that a change of identity revokes.
* `as_of` / `CutoffIsReproducible`: a reader at a cutoff takes what has a vintage
  up to it, and a vintage is the time of the fetch, before its commit. A sync in
  flight changes what an earlier cutoff shows. The task card that introduced
  cutoffs says that an attached context must be reproducible at its cutoff.

Other consequences of the code that the models have, and that no document of the
repository contradicts:

* A lease that lapses lets a stale run complete a newer attempt's row; the
  properties of exclusion are stated of jobs whose leases hold.
* Without the advisory lock two batches of a provider become active together,
  and the second of two rollbacks may serve what the first withdrew. A rollback
  restores only `observation_latest`; the readers of the history see the
  withdrawn vintages as before, and the bounds of the series stay.
* A job that names no mappings finds those that are verified when it runs. When it
  is run again after one was approved or revoked its business key is another
  (`worker/tasks/sync.py:398`), and it publishes a second batch; `PublishedOnce` is
  of a job and the mappings it found.
* The registry import makes TradingView's mappings verified and primary without a
  probe (`api/cli.py:332-374`), and restores them so after an edit has disabled
  them. The work order of one mapping of BLS draws the lesson that a seed must not
  be a privileged way round the gate, and its prompt says that no seed may bypass
  approval
  (`src/docs/conclusions/2026-08-13-ML-20260813-002-m0-bls-cpi-headline.md:53` and
  `:59`); for TradingView the code does bypass it, as `CommitTradingViewSeed` does,
  and `IngestedIsVouchedFor` states what holds instead. An edit that had read such
  a row before the import, when it was in need of review, and commits after it changes
  the identity of a verified row (`raced`). No series of this commit's registries
  has mappings of both kinds; the instance has one, as the import would take it.
* A weekly series that must have no gaps passes the gate with further rows off
  its rhythm: only days seven apart from the first are looked for.
* A sync that had read the active batch before a rollback of it committed writes
  it as superseded over `rolled_back`, so that the withdrawal leaves no trace in
  the status; the theorems about serving are stated without such an overlap.
* A revision that is fetched again from the same raw object is compared with the
  status its provider states, differs, and has its publication quarantined.
* A digest rule that was evaluated earlier in the day is not due in its slot.
* A probe of EIA whose second request has no answer raises instead of reporting
  (`worker/providers/eia.py:216`, against the checks of `MappingProbeResult`).
* The browser may rank a series by a metric that the row shows as unavailable,
  when the newest row of the series has no value, since the order looks at rows
  with a value; and facet counts leave the publication filter out.
