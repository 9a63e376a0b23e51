----------------------------- MODULE HistoryBatch -----------------------------
(***************************************************************************)
(* Backfills an operator asks for: the history batches, the single-series   *)
(* backfills and the manual syncs of macrolens_api/routers/admin.py, over   *)
(* the jobs they insert.  A batch has no table of its own: it is the jobs   *)
(* that carry its id, and what is reported of it is computed from them.     *)
(*                                                                          *)
(* Batch requests hold an advisory lock to the end of their transaction;    *)
(* workers and the retry endpoint do not.  Of the queue only what a request *)
(* can observe is kept here: JobQueue has the rest.                         *)
(***************************************************************************)
EXTENDS Naturals, FiniteSets

CONSTANTS
    Sources,        \* source series; a smaller number sorts first
    Keys,           \* idempotency keys of batch requests; also the batches' ids
    None,
    Limit,          \* key -> limit of its request
    Single,         \* sources an operator backfills one by one
    Slots,          \* the minutes manual requests are made in
    Window,         \* how many active jobs a manual request looks at
    ManualAttempts, \* max_attempts of a manual request's job
    MaxBorn         \* bound of the model on created_at

ASSUME SourcesAssumption == Sources \subseteq Nat /\ IsFiniteSet(Sources) /\ Single \subseteq Sources
ASSUME KeysAssumption == None \notin Keys
ASSUME LimitAssumption == Limit \in [Keys -> Nat \ {0}]
ASSUME WindowAssumption == Window \in Nat \ {0} /\ ManualAttempts \in Nat \ {0} /\ MaxBorn \in Nat

Child(k, s) == [kind |-> "child", key |-> k, source |-> s]
Children == {Child(k, s) : k \in Keys, s \in Sources}
Markers == [kind : {"marker"}, key : Keys]
Singles == [kind : {"single"}, source : Single, slot : Slots]
Latests == [kind : {"latest"}, slot : Slots]
Manual == Singles \cup Latests
Jobs == Children \cup Markers \cup Manual

VARIABLES
    job,        \* the rows of app.job these requests insert
    runs,       \* jobs with a run at work
    begun,      \* batch requests that have found nothing to reuse
    asked,      \* manual requests that have found no active job
    eligible,   \* sources with a verified primary mapping
    answers,    \* key -> the batches its requests were answered with
    born        \* the last created_at

vars == <<job, runs, begun, asked, eligible, answers, born>>

Status == {"absent", "queued", "running", "succeeded", "failed"}
Row == [status : Status, attempts : 0..ManualAttempts + 1, batch : Keys \cup {None}, born : 0..MaxBorn]

Absent == [status |-> "absent", attempts |-> 0, batch |-> None, born |-> 0]
New(status, batch) == [status |-> status, attempts |-> 0, batch |-> batch, born |-> born + 1]

Init ==
    /\ job = [j \in Jobs |-> Absent]
    /\ runs = {}
    /\ begun = {}
    /\ asked = {}
    /\ eligible \in SUBSET Sources
    /\ answers = [k \in Keys |-> {}]
    /\ born = 0

Exists(j) == job[j].status # "absent"
Active(j) == job[j].status \in {"queued", "running"}
MaxAttemptsShared(j) == ManualAttempts + 2
MaxAttempts(j) == IF j \in Manual THEN ManualAttempts ELSE 1

-----------------------------------------------------------------------------
(* POST /providers/{code}/history *)

\* The jobs that carry the digest of a request's key.
Requested(k) == {j \in Children \cup Markers : j.key = k /\ Exists(j)}

\* The requests that hold the advisory lock another one waits for.
LockIgnored == {}
Holding == begun

Answer(k, batch) == answers' = [answers EXCEPT ![k] = @ \cup {batch}]

\* The key was used before: the batch it was answered with then.
Replay(k) ==
    /\ Holding = {}
    /\ \E j \in Requested(k) : Answer(k, job[j].batch)
    /\ UNCHANGED <<job, runs, begun, asked, eligible, born>>

Newest(js) == {j \in js : \A i \in js : job[i].born <= job[j].born}
ActiveChildren == {j \in Children : Active(j)}

\* A batch is active: it answers this request too, and a marker remembers that.
MarkerIfNeeded(k, batch) == [job EXCEPT ![[kind |-> "marker", key |-> k]] = New("succeeded", batch)]
MarkerNever(k, batch) == job
ReuseMarker(k, batch) == MarkerIfNeeded(k, batch)
Reuse(k) ==
    /\ Holding = {} /\ born < MaxBorn
    /\ Requested(k) = {}
    /\ \E j \in Newest(ActiveChildren) :
          /\ job' = ReuseMarker(k, job[j].batch)
          /\ Answer(k, job[j].batch)
    /\ born' = born + 1
    /\ UNCHANGED <<runs, begun, asked, eligible>>

\* Nothing to reuse.  The transaction, and with it the lock, goes on.
Begin(k) ==
    /\ Holding = {} /\ born < MaxBorn
    /\ Requested(k) = {}
    /\ ActiveChildren = {}
    /\ begun' = begun \cup {k}
    /\ UNCHANGED <<job, runs, asked, eligible, answers, born>>

\* Sources a scoped backfill has succeeded for, whoever asked for it.
CompletedByBatches == {j.source : j \in {i \in Children : job[i].status = "failed"}}
Completed == {j.source : j \in {i \in Children \cup Singles : job[i].status = "succeeded"}}
Candidates == eligible \ Completed
Selected(k) ==
    {s \in Candidates : Cardinality({c \in Candidates : c < s}) < Limit[k]}

\* The children, or a marker when there is nothing left to do.
Create(k) ==
    /\ k \in begun /\ born < MaxBorn
    /\ job' = IF Selected(k) = {} THEN ReuseMarker(k, k)
              ELSE [j \in Jobs |-> IF j \in {Child(k, s) : s \in Selected(k)}
                                   THEN New("queued", k) ELSE job[j]]
    /\ Answer(k, k)
    /\ begun' = begun \ {k}
    /\ born' = born + 1
    /\ UNCHANGED <<runs, asked, eligible>>

RequestFails(k) ==
    /\ k \in begun
    /\ begun' = begun \ {k}
    /\ UNCHANGED <<job, runs, asked, eligible, answers, born>>

-----------------------------------------------------------------------------
(* POST /providers/{code}/sync and .../series/{id}/history *)

\* Active jobs that make a manual request superfluous.  Any sync of the provider
\* stands for a latest sync; a backfill of one series only for the same.
Equivalent(j) ==
    IF j \in Latests THEN {i \in Children \cup Manual : Active(i)}
    ELSE {i \in Children \cup Singles : Active(i) /\ i.source = j.source}

\* The newest active sync jobs, up to the limit of the query.
Looked(seen) ==
    LET active == {i \in Children \cup Manual : Active(i)} IN
        /\ Cardinality(seen) = IF Cardinality(active) < Window THEN Cardinality(active) ELSE Window
        /\ \A i \in seen, o \in active \ seen : job[o].born <= job[i].born

ManualReads(j) ==
    /\ j \notin asked
    /\ j \in Singles => j.source \in eligible
    /\ \E seen \in SUBSET {i \in Children \cup Manual : Active(i)} :
          Looked(seen) /\ seen \cap Equivalent(j) = {}
    /\ asked' = asked \cup {j}
    /\ UNCHANGED <<job, runs, begun, eligible, answers, born>>

\* INSERT ... ON CONFLICT DO NOTHING; the key is that of the minute.
ManualInserts(j) ==
    /\ j \in asked /\ born < MaxBorn
    /\ job' = IF Exists(j) THEN job ELSE [job EXCEPT ![j] = New("queued", None)]
    /\ asked' = asked \ {j}
    /\ born' = born + 1
    /\ UNCHANGED <<runs, begun, eligible, answers>>

-----------------------------------------------------------------------------
(* What workers and operators do to the jobs *)

Lost(j) == job[j].status = "running" /\ j \notin runs

Claim(j) ==
    /\ job[j].status = "queued" \/ Lost(j)
    /\ job[j].attempts < MaxAttempts(j)
    /\ job' = [job EXCEPT ![j].status = "running", ![j].attempts = @ + 1]
    /\ runs' = runs \cup {j}
    /\ UNCHANGED <<begun, asked, eligible, answers, born>>

Settle(j, status) ==
    /\ j \in runs
    /\ job' = [job EXCEPT ![j].status = status]
    /\ runs' = runs \ {j}
    /\ UNCHANGED <<begun, asked, eligible, answers, born>>

\* A marker is of a type that no worker knows.
Finish(j) == j \notin Markers /\ Settle(j, "succeeded")
Fail(j) == Settle(j, IF job[j].attempts >= MaxAttempts(j) THEN "failed" ELSE "queued")

Dies(j) ==
    /\ j \in runs
    /\ runs' = runs \ {j}
    /\ UNCHANGED <<job, begun, asked, eligible, answers, born>>

\* A run at work loses its lease to a retry.
Retry(j) ==
    /\ Exists(j)
    /\ job' = [job EXCEPT ![j].status = "queued"]
    /\ runs' = runs \ {j}
    /\ UNCHANGED <<begun, asked, eligible, answers, born>>

\* Mappings are approved and revoked.
MappingChanges(s) ==
    /\ eligible' = IF s \in eligible THEN eligible \ {s} ELSE eligible \cup {s}
    /\ UNCHANGED <<job, runs, begun, asked, answers, born>>

Next ==
    \/ \E k \in Keys : Replay(k) \/ Reuse(k) \/ Begin(k) \/ Create(k) \/ RequestFails(k)
    \/ \E j \in Manual : ManualReads(j) \/ ManualInserts(j)
    \/ \E j \in Jobs : Claim(j) \/ Finish(j) \/ Fail(j) \/ Dies(j) \/ Retry(j)
    \/ \E s \in Sources : MappingChanges(s)

Spec == Init /\ [][Next]_vars

\* Workers poll, and handlers return or raise.
Fairness == \A j \in Jobs : WF_vars(Claim(j)) /\ WF_vars(Finish(j) \/ Fail(j))
FairSpec == Spec /\ Fairness

-----------------------------------------------------------------------------
(* GET /providers/{code}/history/{batch_id}: _history_batch_public *)

BatchJobs(b) == {j \in Jobs : Exists(j) /\ job[j].batch = b}
Of(b, statuses) == {j \in BatchJobs(b) \cap Children : job[j].status \in statuses}

ReportWaiting(b) ==
    LET failed == Of(b, {"failed"}) succeeded == Of(b, {"succeeded"}) IN
        CASE Of(b, {"queued", "running"}) # {} \/ failed \cup succeeded = {} -> "queued"
          [] failed # {} /\ succeeded # {} -> "partial_failure"
          [] failed # {} -> "failed"
          [] OTHER -> "succeeded"
Report(b) ==
    LET failed == Of(b, {"failed"}) succeeded == Of(b, {"succeeded"}) IN
        CASE BatchJobs(b) \cap Children = {} -> "empty"
          [] Of(b, {"queued", "running"}) # {} ->
                IF Of(b, {"running"}) \cup failed \cup succeeded # {} THEN "running" ELSE "queued"
          [] failed # {} /\ succeeded # {} -> "partial_failure"
          [] failed # {} -> "failed"
          [] OTHER -> "succeeded"

-----------------------------------------------------------------------------
(* Properties *)

TypeOK ==
    /\ job \in [Jobs -> Row]
    /\ runs \subseteq Jobs
    /\ begun \subseteq Keys
    /\ asked \subseteq Manual
    /\ eligible \subseteq Sources
    /\ answers \in [Keys -> SUBSET Keys]
    /\ born \in 0..MaxBorn

\* Two batches are never at work at the same time: children that can still run,
\* or whose run was lost, are all of one batch, although workers and retries
\* change jobs while a request that has found none active goes on.
Unspent(j) == Active(j) /\ ~(job[j].status = "queued" /\ job[j].attempts >= MaxAttempts(j))
OneBatchAtWork ==
    \A i, j \in Children : Unspent(i) /\ Unspent(j) => job[i].batch = job[j].batch

\* A batch request that is repeated is answered with the same batch, also when
\* it was answered with somebody else's and that one has ended since.
SameAnswer == \A k \in Keys : Cardinality(answers[k]) <= 1

\* However batches, single backfills, crashes and retries follow one another,
\* no source is backfilled by two batches.
BackfilledOnce ==
    \A s \in Sources :
        \A k, l \in Keys : job[Child(k, s)].status = "succeeded"
                            /\ job[Child(l, s)].status = "succeeded" => k = l

Ended(b) == Report(b) \in {"succeeded", "partial_failure", "failed", "empty"}

\* A batch ends, unless a child of it is stranded: its worker died, or it was
\* retried, with its only attempt spent.
Stranded(j) == Active(j) /\ j \notin runs /\ job[j].attempts >= MaxAttempts(j)
EventuallyOver ==
    \A b \in Keys :
        BatchJobs(b) # {} ~> (Ended(b) \/ \E j \in BatchJobs(b) : Stranded(j))
=============================================================================
