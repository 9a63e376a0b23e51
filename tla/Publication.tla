----------------------------- MODULE Publication -----------------------------
(***************************************************************************)
(* Publishing the observations of one series: sync_provider of              *)
(* macrolens_worker/tasks/sync.py and rollback_publication_batch of         *)
(* macrolens_api/routers/admin.py.                                          *)
(*                                                                          *)
(* A sync is one long READ COMMITTED transaction.  What it has written is   *)
(* its own (drafts, dirty) until it commits, and holds the locks PostgreSQL *)
(* gives it: another sync waits for an uncommitted row under the same key.  *)
(* Each of its statements reads what is committed at that moment.           *)
(***************************************************************************)
EXTENDS Naturals, FiniteSets, FiniteSetsExt

CONSTANTS
    Syncs,          \* executions of sync_provider; each has a batch of its own
    Jobs,           \* the jobs that execute them
    JobOf,          \* sync -> its job; a retried or doubled job has several
    Scopes,         \* the sets of mappings a sync may find verified and primary
    ScopeOf,        \* sync -> the one it finds; two executions of a job that names
                    \* no mappings may find different ones
    Periods,        \* the periods of the series
    Vintages,       \* vintage_at
    Values,         \* value and value_text, NULL being one of them
    Raws,           \* raw objects, NULL being one of them
    Stagings,       \* what a fetch may stage: one observation per key
    NoRow, NoBatch, NoMerge, NoUndo,
    Regimes         \* what a behaviour may be like, see regime

Observation ==
    [period : Periods, vintage : Vintages, value : Values, raw : Raws]

ASSUME JobsAssumption == JobOf \in [Syncs -> Jobs] /\ ScopeOf \in [Syncs -> Scopes]
ASSUME PeriodsAssumption == Periods \subseteq Nat \ {0} /\ Vintages \subseteq Nat
ASSUME StagingsAssumption ==
    \A staged \in Stagings :
        /\ staged \subseteq Observation
        /\ \A o1, o2 \in staged :
              o1.period = o2.period /\ o1.vintage = o2.vintage => o1 = o2
ASSUME FiniteAssumption == IsFiniteSet(Syncs) /\ IsFiniteSet(Periods) /\ IsFiniteSet(Vintages)
ASSUME RegimesAssumption ==
    Regimes \subseteq [serialised : BOOLEAN, rollbacks : SUBSET Syncs, waits : BOOLEAN]

VARIABLES
    regime,     \* serialised: the syncs take pg_advisory_xact_lock; rollbacks: the
                \* batches the operator may roll back; waits: no rollback overlaps
                \* a sync or another rollback
    run,        \* sync -> its committed ingestion.run row
    batch,      \* sync -> its committed publication_batch row
    archive,    \* data.observation_vintage
    latest,     \* data.observation_latest: period -> row
    bounds,     \* first_period and latest_period of the series, 0 for NULL
    stage,      \* sync -> where it is
    todo,       \* sync -> staged observations not merged yet
    merging,    \* sync -> the merge decided on and not written yet
    drafts,     \* sync -> observation_vintage rows inserted, not committed
    dirty,      \* sync -> observation_latest rows written, not committed
    spoiled,    \* sync -> an observation was rejected, or there was none
    previous,   \* sync -> the active batch it found
    settling,   \* sync -> the activation time and the bounds it will write
    undo        \* batch -> what a rollback request has read

tables == <<run, batch, archive, latest, bounds>>
locals == <<todo, merging, drafts, dirty, spoiled, previous, settling>>
vars == <<regime, tables, stage, locals, undo>>

Serialised == regime.serialised
Rollbacks == regime.rollbacks
OperatorWaits == regime.waits

ObservationStatus == {"normal", "revised"}
VintageRow ==
    [period : Periods, vintage : Vintages, value : Values, raw : Raws,
     status : ObservationStatus, batch : Syncs]
LatestRow ==
    [vintage : Vintages, value : Values, status : ObservationStatus, batch : Syncs]
BatchStatus == {"none", "failed", "active", "superseded", "rolled_back"}
BatchRow ==
    [status : BatchStatus,
     previous : Syncs \cup {NoBatch},
     activated : Nat]
Bounds == [first : Periods \cup {0}, last : Periods \cup {0}]
Decision ==
    [observation : Observation, inserts : BOOLEAN, updates : BOOLEAN,
     vintageStatus : ObservationStatus, latestStatus : ObservationStatus]
Undo ==
    [touched : SUBSET Periods,
     statuses : [Syncs -> BatchStatus],
     seen : [Periods -> LatestRow \cup {NoRow}],
     restored : [Periods -> LatestRow \cup {NoRow}]]

\* The rows are records, so that NULL is none of them.
ASSUME NoneAssumption == NoRow \notin LatestRow /\ NoBatch \notin Syncs /\ NoMerge \notin Decision

NothingDirty == [p \in Periods |-> NoRow]
NoBounds == [first |-> 0, last |-> 0]
Unsettled == [at |-> 0, seen |-> NoBounds, new |-> NoBounds]

Init ==
    /\ regime \in Regimes
    /\ run = [r \in Syncs |-> "none"]
    /\ batch = [r \in Syncs |-> [status |-> "none", previous |-> NoBatch, activated |-> 0]]
    /\ archive = {}
    /\ latest = NothingDirty
    /\ bounds = NoBounds
    /\ stage = [r \in Syncs |-> "idle"]
    /\ todo = [r \in Syncs |-> {}]
    /\ merging = [r \in Syncs |-> NoMerge]
    /\ drafts = [r \in Syncs |-> {}]
    /\ dirty = [r \in Syncs |-> NothingDirty]
    /\ spoiled = [r \in Syncs |-> FALSE]
    /\ previous = [r \in Syncs |-> NoBatch]
    /\ settling = [r \in Syncs |-> Unsettled]
    /\ undo = [b \in Syncs |-> NoUndo]

InFlight(r) == stage[r] \notin {"idle", "over"}

\* The transaction of r is over, committed or not.
End(r) ==
    /\ stage' = [stage EXCEPT ![r] = "over"]
    /\ todo' = [todo EXCEPT ![r] = {}]
    /\ merging' = [merging EXCEPT ![r] = NoMerge]
    /\ drafts' = [drafts EXCEPT ![r] = {}]
    /\ dirty' = [dirty EXCEPT ![r] = NothingDirty]
    /\ spoiled' = [spoiled EXCEPT ![r] = FALSE]
    /\ previous' = [previous EXCEPT ![r] = NoBatch]
    /\ settling' = [settling EXCEPT ![r] = Unsettled]

-----------------------------------------------------------------------------
(* From the job to the staged observations *)

\* f"{provider_code}:{mode}:scope-sha256:{scope_key}:{job_id}"; the mode is the
\* job's, the scope key a hash of the mappings found.
BusinessKey(r) == <<JobOf[r], ScopeOf[r]>>

\* INSERT of the run under its business key: it waits for one under the same key
\* that is not committed, and raises when one is.
BeginAnew(r) ==
    /\ stage[r] = "idle"
    /\ stage' = [stage EXCEPT ![r] = "fetching"]
    /\ UNCHANGED <<tables, locals, undo>>
Begin(r) ==
    /\ stage[r] = "idle"
    /\ Serialised => \A s \in Syncs : ~InFlight(s)
    /\ \A s \in Syncs : BusinessKey(s) = BusinessKey(r) => ~InFlight(s)
    /\ OperatorWaits => \A b \in Syncs : undo[b] = NoUndo
    /\ stage' = [stage EXCEPT ![r] =
                    IF \E s \in Syncs : BusinessKey(s) = BusinessKey(r) /\ run[s] # "none"
                    THEN "over" ELSE "fetching"]
    /\ UNCHANGED <<tables, locals, undo>>

\* _quarantine, or blocking completeness issues: the run is committed alone.
Quarantine(r) ==
    /\ stage[r] = "fetching"
    /\ run' = [run EXCEPT ![r] = "quarantined"]
    /\ End(r)
    /\ UNCHANGED <<batch, archive, latest, bounds, undo>>

ActiveBatches == {b \in Syncs : batch[b].status = "active"}

\* WHERE status = 'active' ORDER BY activated_at DESC LIMIT 1
LastActivated ==
    IF ActiveBatches = {} THEN NoBatch
    ELSE CHOOSE b \in ActiveBatches :
            \A c \in ActiveBatches : batch[c].activated <= batch[b].activated

Stage(r, staged) ==
    /\ stage[r] = "fetching"
    /\ stage' = [stage EXCEPT ![r] = "merging"]
    /\ todo' = [todo EXCEPT ![r] = staged]
    /\ spoiled' = [spoiled EXCEPT ![r] = staged = {}]
    /\ previous' = [previous EXCEPT ![r] = LastActivated]
    /\ UNCHANGED <<tables, merging, drafts, dirty, settling, undo>>

-----------------------------------------------------------------------------
(* Merging one observation: decide_observation_merge and _merge_observation *)

\* What a statement of r sees: what is committed and what r has written.
Archived(r) == archive \cup drafts[r]
Serving(r, p) == IF dirty[r][p] # NoRow THEN dirty[r][p] ELSE latest[p]

SameKey(row, o) == row.period = o.period /\ row.vintage = o.vintage
SameValue(row, o) == row.value = o.value

UpdatesLatest(o, row) == row = NoRow \/ o.vintage > row.vintage
Revises(o, row) == row # NoRow /\ o.vintage > row.vintage /\ ~SameValue(row, o)
Conflicts(o, row) == row # NoRow /\ o.vintage = row.vintage /\ ~SameValue(row, o)

VintageStatus(o, row) == IF Revises(o, row) THEN "revised" ELSE "normal"
LatestStatus(o, row) ==
    IF Revises(o, row) THEN "revised" ELSE IF row = NoRow THEN "normal" ELSE row.status

\* A row of the same raw object must be the same in all its columns, among
\* them the status, which the provider states as "normal".
Replays(row, o) == SameKey(row, o) /\ row.raw = o.raw
SameReplay(row, o) == SameValue(row, o) /\ row.status = "normal"

ReplayedDifferently(r, o) == \E row \in Archived(r) : Replays(row, o) /\ ~SameReplay(row, o)
Rewritten(r, o) == \E row \in Archived(r) : SameKey(row, o) /\ ~SameValue(row, o)

\* The sync goes on with the next observation.
Leave(r, o) == todo' = [todo EXCEPT ![r] = @ \ {o}]

\* The rows read find the observation unacceptable.
MergeRejects(r, o) ==
    /\ stage[r] = "merging"
    /\ o \in todo[r]
    /\ \/ ReplayedDifferently(r, o)
       \/ /\ ~\E row \in Archived(r) : Replays(row, o)
          /\ Rewritten(r, o) \/ Conflicts(o, Serving(r, o.period))
    /\ spoiled' = [spoiled EXCEPT ![r] = TRUE]
    /\ Leave(r, o)
    /\ UNCHANGED <<tables, stage, merging, drafts, dirty, previous, settling, undo>>

\* The same raw object has been merged before: nothing is written.
MergeReplays(r, o) ==
    /\ stage[r] = "merging"
    /\ o \in todo[r]
    /\ \E row \in Archived(r) : Replays(row, o) /\ SameReplay(row, o)
    /\ Leave(r, o)
    /\ UNCHANGED <<tables, stage, merging, drafts, dirty, spoiled, previous, settling, undo>>

\* The decision, from the rows as they are now.
MergeDecides(r, o) ==
    /\ stage[r] = "merging"
    /\ o \in todo[r]
    /\ ~\E row \in Archived(r) : Replays(row, o)
    /\ ~Rewritten(r, o)
    /\ ~Conflicts(o, Serving(r, o.period))
    /\ stage' = [stage EXCEPT ![r] = "writing"]
    /\ merging' = [merging EXCEPT ![r] =
          [observation   |-> o,
           inserts       |-> ~\E row \in Archived(r) : SameKey(row, o),
           updates       |-> UpdatesLatest(o, Serving(r, o.period)),
           vintageStatus |-> VintageStatus(o, Serving(r, o.period)),
           latestStatus  |-> LatestStatus(o, Serving(r, o.period))]]
    /\ Leave(r, o)
    /\ UNCHANGED <<tables, drafts, dirty, spoiled, previous, settling, undo>>

\* Rows another sync has written and not committed are locked.
KeyLocked(r, o) == \E s \in Syncs \ {r} : \E row \in drafts[s] : SameKey(row, o)
RowLocked(r, p) == \E s \in Syncs \ {r} : dirty[s][p] # NoRow

DraftOfNoBatch(r, m) ==
    [period |-> m.observation.period, vintage |-> m.observation.vintage,
     value |-> m.observation.value, raw |-> m.observation.raw,
     status |-> m.vintageStatus, batch |-> NoBatch]
Draft(r, m) ==
    [period |-> m.observation.period, vintage |-> m.observation.vintage,
     value |-> m.observation.value, raw |-> m.observation.raw,
     status |-> m.vintageStatus, batch |-> r]
Upserted(r, m) ==
    [vintage |-> m.observation.vintage, value |-> m.observation.value,
     status |-> m.latestStatus, batch |-> r]

\* ON CONFLICT DO UPDATE .. WHERE excluded.vintage_at > the row's
UpsertAlways(r, m) ==
    IF m.updates
    THEN [dirty EXCEPT ![r][m.observation.period] = Upserted(r, m)]
    ELSE dirty
Upsert(r, m) ==
    IF m.updates /\ UpdatesLatest(m.observation, Serving(r, m.observation.period))
    THEN [dirty EXCEPT ![r][m.observation.period] = Upserted(r, m)]
    ELSE dirty

MergeWrites(r) ==
    /\ stage[r] = "writing"
    /\ LET m == merging[r] IN
        /\ m.inserts => ~KeyLocked(r, m.observation)
        /\ m.inserts => ~\E row \in archive : SameKey(row, m.observation)
        /\ m.updates => ~RowLocked(r, m.observation.period)
        /\ drafts' = IF m.inserts
                     THEN [drafts EXCEPT ![r] = @ \cup {Draft(r, m)}] ELSE drafts
        /\ dirty' = Upsert(r, m)
    /\ stage' = [stage EXCEPT ![r] = "merging"]
    /\ merging' = [merging EXCEPT ![r] = NoMerge]
    /\ UNCHANGED <<tables, todo, spoiled, previous, settling, undo>>

\* The savepoint of the observation is rolled back: its key was committed in
\* the meantime, it is a deadlock's victim, or the statement failed.
MergeFails(r) ==
    /\ stage[r] = "writing"
    /\ stage' = [stage EXCEPT ![r] = "merging"]
    /\ merging' = [merging EXCEPT ![r] = NoMerge]
    /\ spoiled' = [spoiled EXCEPT ![r] = TRUE]
    /\ UNCHANGED <<tables, todo, drafts, dirty, previous, settling, undo>>

-----------------------------------------------------------------------------
(* The end of a sync *)

Merged(r) == stage[r] = "merging" /\ todo[r] = {}

\* The publication savepoint is rolled back; run and batch are committed.
FailKeepingRows(r) ==
    /\ Merged(r) /\ spoiled[r]
    /\ run' = [run EXCEPT ![r] = "quarantined"]
    /\ batch' = [batch EXCEPT ![r] = [@ EXCEPT !.status = "failed", !.previous = previous[r]]]
    /\ archive' = archive \cup drafts[r]
    /\ latest' = [p \in Periods |-> Serving(r, p)]
    /\ End(r)
    /\ UNCHANGED <<bounds, undo>>
Fail(r) ==
    /\ Merged(r) /\ spoiled[r]
    /\ run' = [run EXCEPT ![r] = "quarantined"]
    /\ batch' = [batch EXCEPT ![r] = [@ EXCEPT !.status = "failed", !.previous = previous[r]]]
    /\ End(r)
    /\ UNCHANGED <<archive, latest, bounds, undo>>

ServedBeforeFlush(r) == {p \in Periods : latest[p] # NoRow}
Served(r) == {p \in Periods : Serving(r, p) # NoRow}

\* A settled sync has written the status of the batch it supersedes.
BatchLocked(b) == \E s \in Syncs : stage[s] = "settled" /\ previous[s] = b

Now == 1 + Max({batch[b].activated : b \in Syncs} \cup {settling[r].at : r \in Syncs})

\* The flush of the previous batch's status takes the lock of its row, then
\* the bounds of the series are read.
Settle(r) ==
    /\ Merged(r) /\ ~spoiled[r]
    /\ previous[r] # NoBatch => ~BatchLocked(previous[r])
    /\ stage' = [stage EXCEPT ![r] = "settled"]
    /\ settling' = [settling EXCEPT ![r] =
          [at   |-> Now,
           seen |-> bounds,
           new  |-> IF Served(r) = {} THEN bounds
                    ELSE [first |-> Min(Served(r)), last |-> Max(Served(r))]]]
    /\ UNCHANGED <<tables, todo, merging, drafts, dirty, spoiled, previous, undo>>

\* What an UPDATE leaves in a column: the session's value when it differs from
\* the one it read, what is in the table otherwise.
Put(current, seen, new) == IF new = seen THEN current ELSE new

Activated(r) ==
    [b \in Syncs |->
        IF b = r THEN [status |-> "active", previous |-> previous[r], activated |-> settling[r].at]
        ELSE IF b = previous[r] THEN [batch[b] EXCEPT !.status = "superseded"]
        ELSE batch[b]]

Commit(r) ==
    /\ stage[r] = "settled"
    /\ run' = [run EXCEPT ![r] = "succeeded"]
    /\ batch' = Activated(r)
    /\ archive' = archive \cup drafts[r]
    /\ latest' = [p \in Periods |-> Serving(r, p)]
    /\ bounds' = [first |-> Put(bounds.first, settling[r].seen.first, settling[r].new.first),
                  last |-> Put(bounds.last, settling[r].seen.last, settling[r].new.last)]
    /\ End(r)
    /\ UNCHANGED undo

\* An exception outside the observation's savepoint, a lost connection, or the
\* death of the worker: nothing of r is committed.
Die(r) ==
    /\ InFlight(r)
    /\ End(r)
    /\ UNCHANGED <<tables, undo>>

-----------------------------------------------------------------------------
(* The operator: POST /admin/publication-batches/{id}/rollback *)

Touched(b) == {row.period : row \in {v \in archive : v.batch = b}}

\* The newest vintage of the period that is not the batch's.
BeforeAny(b, p) ==
    LET others == {v \in archive : v.period = p /\ v.batch # b} IN
    IF others = {} THEN NoRow
    ELSE LET v == CHOOSE v \in others : \A w \in others : v.vintage <= w.vintage
         IN [vintage |-> v.vintage, value |-> v.value, status |-> v.status, batch |-> v.batch]
Before(b, p) ==
    LET others == {v \in archive : v.period = p /\ v.batch # b} IN
    IF others = {} THEN NoRow
    ELSE LET v == CHOOSE v \in others : \A w \in others : w.vintage <= v.vintage
         IN [vintage |-> v.vintage, value |-> v.value, status |-> v.status, batch |-> v.batch]

\* The status check and the queries, which lock nothing.
RollbackReads(b) ==
    /\ b \in Rollbacks
    /\ OperatorWaits => \A s \in Syncs : ~InFlight(s) /\ undo[s] = NoUndo
    /\ undo[b] = NoUndo
    /\ batch[b].status = "active"
    /\ undo' = [undo EXCEPT ![b] =
          [touched  |-> Touched(b),
           statuses |-> [c \in Syncs |-> batch[c].status],
           seen     |-> latest,
           restored |-> [p \in Periods |-> Before(b, p)]]]
    /\ UNCHANGED <<tables, stage, locals>>

\* DELETE and UPDATE by primary key, or INSERT.
Restored(current, seen, new) ==
    IF new = NoRow THEN (IF seen = NoRow THEN current ELSE NoRow)
    ELSE IF seen = NoRow THEN new
    ELSE [vintage |-> Put(current.vintage, seen.vintage, new.vintage),
          value |-> Put(current.value, seen.value, new.value),
          status |-> Put(current.status, seen.status, new.status),
          batch |-> Put(current.batch, seen.batch, new.batch)]

RollbackCommits(b) ==
    /\ undo[b] # NoUndo
    /\ ~BatchLocked(b)
    /\ batch[b].previous # NoBatch => ~BatchLocked(batch[b].previous)
    /\ \A p \in undo[b].touched :
          /\ \A s \in Syncs : dirty[s][p] = NoRow
          /\ undo[b].restored[p] # NoRow => (undo[b].seen[p] = NoRow <=> latest[p] = NoRow)
    /\ latest' = [p \in Periods |->
                    IF p \in undo[b].touched
                    THEN Restored(latest[p], undo[b].seen[p], undo[b].restored[p])
                    ELSE latest[p]]
    /\ batch' = [c \in Syncs |->
                    IF c = b THEN [batch[c] EXCEPT !.status = "rolled_back"]
                    ELSE IF c = batch[b].previous
                         THEN [batch[c] EXCEPT
                                 !.status = Put(@, undo[b].statuses[c], "active"),
                                 !.activated = Now]
                    ELSE batch[c]]
    /\ undo' = [undo EXCEPT ![b] = NoUndo]
    /\ UNCHANGED <<run, archive, bounds, stage, locals>>

\* The rows have changed under the request, or the database refuses.
RollbackFails(b) ==
    /\ undo[b] # NoUndo
    /\ undo' = [undo EXCEPT ![b] = NoUndo]
    /\ UNCHANGED <<tables, stage, locals>>

-----------------------------------------------------------------------------
MergeStep(r) ==
    \/ \E o \in todo[r] : MergeRejects(r, o) \/ MergeReplays(r, o) \/ MergeDecides(r, o)
    \/ MergeWrites(r) \/ MergeFails(r)
SyncStep(r) ==
    \/ Begin(r) \/ Quarantine(r) \/ \E staged \in Stagings : Stage(r, staged)
    \/ MergeStep(r)
    \/ Fail(r) \/ Settle(r) \/ Commit(r) \/ Die(r)
RollbackStep(b) == RollbackReads(b) \/ RollbackCommits(b) \/ RollbackFails(b)

Next ==
    /\ UNCHANGED regime
    /\ \/ \E r \in Syncs : SyncStep(r)
       \/ \E b \in Syncs : RollbackStep(b)

Spec == Init /\ [][Next]_vars

-----------------------------------------------------------------------------
(* Properties *)

TypeOK ==
    /\ run \in [Syncs -> {"none", "quarantined", "succeeded"}]
    /\ batch \in [Syncs -> BatchRow]
    /\ archive \subseteq VintageRow
    /\ latest \in [Periods -> LatestRow \cup {NoRow}]
    /\ bounds \in Bounds
    /\ stage \in [Syncs -> {"idle", "fetching", "merging", "writing", "settled", "over"}]
    /\ todo \in [Syncs -> SUBSET Observation]
    /\ merging \in [Syncs -> Decision \cup {NoMerge}]
    /\ drafts \in [Syncs -> SUBSET VintageRow]
    /\ dirty \in [Syncs -> [Periods -> LatestRow \cup {NoRow}]]
    /\ spoiled \in [Syncs -> BOOLEAN]
    /\ previous \in [Syncs -> Syncs \cup {NoBatch}]
    /\ settling \in [Syncs -> [at : Nat, seen : Bounds, new : Bounds]]
    /\ undo \in [Syncs -> Undo \cup {NoUndo}]

\* No rollback reads or writes next to a sync or another rollback.
Undisturbed == Rollbacks = {} \/ OperatorWaits
Untouched == \A b \in Syncs : batch[b].status # "rolled_back"

\* As long as nothing is rolled back, the serving row of a period is its newest
\* archived vintage, although syncs of the same period decide from rows that
\* other syncs replace before they write.
NewestServed ==
    Rollbacks = {} =>
        \A row \in archive :
            /\ latest[row.period] # NoRow
            /\ latest[row.period].vintage >= row.vintage

\* The latest table is a projection of the archive: every serving row has its
\* vintage in the archive, with the same value, published by a sync that
\* succeeded.  Nothing of a quarantined or dead sync is ever seen.
ServedIsArchived ==
    Undisturbed =>
        \A p \in Periods : latest[p] # NoRow =>
            /\ run[latest[p].batch] = "succeeded"
            /\ \E row \in archive :
                  /\ row.period = p /\ row.vintage = latest[p].vintage
                  /\ row.value = latest[p].value
                  /\ run[row.batch] = "succeeded"

\* The latest value is only "a projection for serving": no serving row has a
\* vintage and a value that no vintage of the archive has, even when a rollback
\* and a sync write the same rows.
LatestIsProjection ==
    \A p \in Periods : latest[p] # NoRow =>
        \E row \in archive :
            /\ row.period = p
            /\ row.vintage = latest[p].vintage /\ row.value = latest[p].value

\* Nothing is published twice: two syncs that insert one vintage at the same
\* time do not both commit it ("the same vintage with a different value is
\* blocked"), and what a job publishes with the mappings it finds is of one run
\* of it, even when the queue retries it or runs it twice.  (The mappings are in
\* the key: a job that names none and finds others when it is run again does
\* publish again.)
PublishedOnce ==
    \A v, w \in archive :
        /\ v.period = w.period /\ v.vintage = w.vintage => v = w
        /\ BusinessKey(v.batch) = BusinessKey(w.batch) => v.batch = w.batch

\* The bounds of the series are those of its serving rows, while syncs are
\* serialised and until something is rolled back.  (A sync that overlaps with a
\* rollback may write "superseded" over "rolled_back", and leave the old bounds.)
BoundsMatchServed ==
    Serialised /\ Undisturbed /\ Untouched =>
        LET served == {p \in Periods : latest[p] # NoRow} IN
        bounds = IF served = {} THEN NoBounds
                 ELSE [first |-> Min(served), last |-> Max(served)]

\* The first rollback serves again, of every period, the newest vintage of the
\* other batches, and no row of a period they do not have.
FirstRollbackRestores ==
    [][\A b \in Syncs :
          /\ OperatorWaits
          /\ batch'[b].status = "rolled_back"
          /\ Untouched
          => \A p \in Periods :
               LET others == {v \in archive : v.period = p /\ v.batch # b} IN
               IF others = {} THEN latest'[p] = NoRow
               ELSE /\ latest'[p] # NoRow
                    /\ latest'[p].vintage = Max({v.vintage : v \in others})
                    /\ latest'[p].batch # b]_vars

\* Readers see the publications of a ServingStore: batches in one piece, an
\* archive that only grows, and serving rows that only move on to newer vintages
\* or, when a batch is rolled back, to the newest of the other batches.  Of a
\* behaviour in which a rollback may overlap, nothing is said.
Stored(rows) == IF Undisturbed THEN rows ELSE {}
Store == INSTANCE ServingStore WITH
            Batches <- Syncs,
            None <- NoRow,
            archive <- Stored(archive),
            serving <- IF Undisturbed THEN latest ELSE NothingDirty,
            published <- Stored({r \in Syncs : run[r] = "succeeded"})
ImplementsServingStore == Store!Spec
=============================================================================
