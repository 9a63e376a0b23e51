------------------------------- MODULE JobQueue -------------------------------
(***************************************************************************)
(* The PostgreSQL-backed job queue of macrolens_worker/runner.py and        *)
(* macrolens_api/services/jobs.py, with the operator's retry endpoint.      *)
(*                                                                          *)
(* Every worker task, heartbeat task and API request is a process of its    *)
(* own.  A session of the code that reads a row without locking it and      *)
(* commits later is two steps here, with the row it read kept in between;   *)
(* the commit writes only the columns the session changed, as SQLAlchemy    *)
(* does.  claim_job locks the row it reads, so it is one step.              *)
(***************************************************************************)
EXTENDS Naturals, FiniteSets

CONSTANTS
    Workers,            \* worker ids; a restarted container keeps its id
    NoWorker,           \* locked_by IS NULL
    NoRow,              \* no row read by a session
    Jobs,               \* idempotency keys callers enqueue under
    AttemptLimit,       \* bound of the model on any job's max_attempts
    MaxAttempts,        \* job -> max_attempts
    Priority,           \* job -> priority
    Concurrency,        \* worker_concurrency
    RetryJobs,          \* jobs the operator may retry by hand
    HeldJobs            \* jobs whose leases never lapse under a run at work

Attempts == 1..AttemptLimit
Runs == Jobs \X Attempts        \* <<j, n>> is the n-th attempt of job j

ASSUME WorkersAssumption == NoWorker \notin Workers
ASSUME AttemptsAssumption ==
    AttemptLimit \in Nat /\ MaxAttempts \in [Jobs -> Attempts]
ASSUME PriorityAssumption == Priority \in [Jobs -> Nat]
ASSUME ConcurrencyAssumption == Concurrency \in Nat \ {0}
ASSUME RetryAssumption == RetryJobs \subseteq Jobs
ASSUME LeaseAssumption == HeldJobs \subseteq Jobs

VARIABLES
    job,        \* the app.job table
    phase,      \* run -> where its task is in _execute_with_heartbeat
    runner,     \* run -> the worker id its task was started with
    seen,       \* run -> the row finish_job or fail_job has read
    beat,       \* run -> where its _heartbeat_loop is
    retrySeen   \* job -> the row a retry_job request has read

vars == <<job, phase, runner, seen, beat, retrySeen>>

Status == {"absent", "queued", "running", "succeeded", "failed"}
Row == [status   : Status,
        attempts : 0..AttemptLimit,
        lockedBy : Workers \cup {NoWorker},
        lockedAt : {"none", "fresh", "stale"},  \* against the lock timeout
        due      : BOOLEAN,                     \* run_after <= now
        elders   : SUBSET Jobs,                 \* created_at: the older jobs
        result   : 0..AttemptLimit]             \* the attempt that wrote it
Phase == {"idle", "running", "finishing", "raised", "failing", "closing", "over"}

\* The rows are records, so that NULL of a session is none of them.
ASSUME NoRowAssumption == NoRow \notin Row

AbsentRow ==
    [status |-> "absent", attempts |-> 0, lockedBy |-> NoWorker,
     lockedAt |-> "none", due |-> FALSE, elders |-> {}, result |-> 0]

NewRow(elders) ==
    [status |-> "queued", attempts |-> 0, lockedBy |-> NoWorker,
     lockedAt |-> "none", due |-> TRUE, elders |-> elders, result |-> 0]

Init ==
    /\ job = [j \in Jobs |-> AbsentRow]
    /\ phase = [r \in Runs |-> "idle"]
    /\ runner = [r \in Runs |-> NoWorker]
    /\ seen = [r \in Runs |-> NoRow]
    /\ beat = [r \in Runs |-> "off"]
    /\ retrySeen = [j \in Jobs |-> NoRow]

\* A run whose handler, finish_job or fail_job is still to be completed.
AtWork(r) == phase[r] \in {"running", "finishing", "raised", "failing"}
\* A task worker_loop still counts against its concurrency.
Active(r) == AtWork(r) \/ phase[r] = "closing"

-----------------------------------------------------------------------------
(* Enqueueing *)

Exists(j) == job[j].status # "absent"

\* INSERT ... ON CONFLICT (idempotency_key) DO NOTHING, then the resolved row.
EnqueueOverwriting(j) ==
    /\ job' = [job EXCEPT ![j] = NewRow({k \in Jobs : Exists(k)})]
    /\ UNCHANGED <<phase, runner, seen, beat, retrySeen>>
Enqueue(j) ==
    /\ job' = IF Exists(j) THEN job
              ELSE [job EXCEPT ![j] = NewRow({k \in Jobs : Exists(k)})]
    /\ UNCHANGED <<phase, runner, seen, beat, retrySeen>>

-----------------------------------------------------------------------------
(* Claiming *)

ClaimableWithoutLeaseCheck(j) ==
    /\ job[j].attempts < MaxAttempts[j]
    /\ \/ job[j].status = "queued" /\ job[j].due
       \/ job[j].status = "running"
ClaimableUnlimited(j) ==
    \/ job[j].status = "queued" /\ job[j].due
    \/ job[j].status = "running" /\ job[j].lockedAt = "stale"
ClaimableWhenQueued(j) ==
    /\ job[j].attempts < MaxAttempts[j]
    /\ job[j].status = "queued" /\ job[j].due
Claimable(j) ==
    /\ job[j].attempts < MaxAttempts[j]
    /\ \/ job[j].status = "queued" /\ job[j].due
       \/ job[j].status = "running" /\ job[j].lockedAt = "stale"

\* ORDER BY priority DESC, created_at
Precedes(k, j) ==
    \/ Priority[k] > Priority[j]
    \/ Priority[k] = Priority[j] /\ k \in job[j].elders

\* Another session may hold the row's lock, and SKIP LOCKED passes over it.
Contended(k) ==
    \/ retrySeen[k] # NoRow
    \/ \E n \in Attempts : phase[<<k, n>>] \in {"finishing", "failing"} \/ beat[<<k, n>>] = "renewing"

Busy(w) == {r \in Runs : runner[r] = w /\ Active(r)}

Claim(w, j) ==
    /\ Cardinality(Busy(w)) < Concurrency
    /\ Claimable(j)
    /\ \A k \in Jobs : Claimable(k) /\ Precedes(k, j) => Contended(k)
    /\ LET n == job[j].attempts + 1 IN
        /\ job' = [job EXCEPT ![j] = [@ EXCEPT !.status = "running", !.attempts = n,
                                               !.lockedBy = w, !.lockedAt = "fresh"]]
        /\ phase' = [phase EXCEPT ![<<j, n>>] = "running"]
        /\ runner' = [runner EXCEPT ![<<j, n>>] = w]
        /\ beat' = [beat EXCEPT ![<<j, n>>] = "beating"]
    /\ UNCHANGED <<seen, retrySeen>>

-----------------------------------------------------------------------------
(* The task of a run: _execute_with_heartbeat *)

\* The check heartbeat_job, finish_job and fail_job begin with.
Owns(j, n) == job[j].status = "running" /\ job[j].lockedBy = runner[<<j, n>>]

\* What a session's flush leaves in a column: its own value when that differs
\* from the value it read, what is in the table otherwise.
Put(current, read, new) == IF new = read THEN current ELSE new

\* The write finish_job, fail_job and retry_job share.
ReleaseKeepingOwner(row, read, status) ==
    [row EXCEPT !.status = Put(@, read.status, status),
                !.lockedAt = Put(@, read.lockedAt, "none")]
Release(row, read, status) ==
    [row EXCEPT !.status = Put(@, read.status, status),
                !.lockedBy = Put(@, read.lockedBy, NoWorker),
                !.lockedAt = Put(@, read.lockedAt, "none")]

Finished(row, read, n) == [Release(row, read, "succeeded") EXCEPT !.result = n]

FailedAlwaysQueued(row, read, j) == [Release(row, read, "queued") EXCEPT !.due = FALSE]
Failed(row, read, j) ==
    IF read.attempts >= MaxAttempts[j]
    THEN Release(row, read, "failed")
    ELSE [Release(row, read, "queued") EXCEPT !.due = FALSE]

\* The handler returned; finish_job reads the row, without a lock.
FinishRead(j, n) ==
    /\ phase[<<j, n>>] = "running"
    /\ IF Owns(j, n)
       THEN /\ phase' = [phase EXCEPT ![<<j, n>>] = "finishing"]
            /\ seen' = [seen EXCEPT ![<<j, n>>] = job[j]]
       ELSE /\ phase' = [phase EXCEPT ![<<j, n>>] = "closing"]     \* job_finish_lease_lost
            /\ UNCHANGED seen
    /\ UNCHANGED <<job, runner, beat, retrySeen>>

FinishCommit(j, n) ==
    /\ phase[<<j, n>>] = "finishing"
    /\ job' = [job EXCEPT ![j] = Finished(@, seen[<<j, n>>], n)]
    /\ phase' = [phase EXCEPT ![<<j, n>>] = "closing"]
    /\ seen' = [seen EXCEPT ![<<j, n>>] = NoRow]
    /\ UNCHANGED <<runner, beat, retrySeen>>

\* The commit raised, and may have been applied all the same: finish_job is
\* inside the try, so fail_job is called next.
FinishRaises(j, n) ==
    /\ phase[<<j, n>>] = "finishing"
    /\ \/ UNCHANGED job
       \/ job' = [job EXCEPT ![j] = Finished(@, seen[<<j, n>>], n)]
    /\ phase' = [phase EXCEPT ![<<j, n>>] = "raised"]
    /\ seen' = [seen EXCEPT ![<<j, n>>] = NoRow]
    /\ UNCHANGED <<runner, beat, retrySeen>>

\* The handler, or finish_job, raised; fail_job reads the row, without a lock.
FailRead(j, n) ==
    /\ phase[<<j, n>>] \in {"running", "raised"}
    /\ IF Owns(j, n)
       THEN /\ phase' = [phase EXCEPT ![<<j, n>>] = "failing"]
            /\ seen' = [seen EXCEPT ![<<j, n>>] = job[j]]
       ELSE /\ phase' = [phase EXCEPT ![<<j, n>>] = "closing"]     \* job_fail_lease_lost
            /\ UNCHANGED seen
    /\ UNCHANGED <<job, runner, beat, retrySeen>>

FailCommit(j, n) ==
    /\ phase[<<j, n>>] = "failing"
    /\ job' = [job EXCEPT ![j] = Failed(@, seen[<<j, n>>], j)]
    /\ phase' = [phase EXCEPT ![<<j, n>>] = "closing"]
    /\ seen' = [seen EXCEPT ![<<j, n>>] = NoRow]
    /\ UNCHANGED <<runner, beat, retrySeen>>

\* The database refuses fail_job's read or commit: nobody records the failure.
FailRaises(j, n) ==
    /\ phase[<<j, n>>] \in {"running", "raised", "failing"}
    /\ phase' = [phase EXCEPT ![<<j, n>>] = "closing"]
    /\ seen' = [seen EXCEPT ![<<j, n>>] = NoRow]
    /\ UNCHANGED <<job, runner, beat, retrySeen>>

\* The finally clause: the heartbeat is cancelled and the task is done.
Close(j, n) ==
    /\ phase[<<j, n>>] = "closing"
    /\ phase' = [phase EXCEPT ![<<j, n>>] = "over"]
    /\ beat' = [beat EXCEPT ![<<j, n>>] = "off"]
    /\ UNCHANGED <<job, runner, seen, retrySeen>>

-----------------------------------------------------------------------------
(* The heartbeat of a run: _heartbeat_loop and heartbeat_job *)

HeartbeatRead(j, n) ==
    /\ beat[<<j, n>>] = "beating"
    /\ beat' = [beat EXCEPT ![<<j, n>>] = IF Owns(j, n) THEN "renewing" ELSE "off"]
    /\ UNCHANGED <<job, phase, runner, seen, retrySeen>>

\* UPDATE ... WHERE id: nothing compares the row with the one that was read.
HeartbeatCommit(j, n) ==
    /\ beat[<<j, n>>] = "renewing"
    /\ job' = [job EXCEPT ![j].lockedAt = "fresh"]
    /\ beat' = [beat EXCEPT ![<<j, n>>] = "beating"]
    /\ UNCHANGED <<phase, runner, seen, retrySeen>>

\* An error in heartbeat_job ends the loop; the handler goes on without it.
HeartbeatRaises(j, n) ==
    /\ beat[<<j, n>>] \in {"beating", "renewing"}
    /\ beat' = [beat EXCEPT ![<<j, n>>] = "off"]
    /\ UNCHANGED <<job, phase, runner, seen, retrySeen>>

-----------------------------------------------------------------------------
(* Time and crashes *)

\* worker_job_lock_seconds pass without a renewal.
LeaseLapses(j) ==
    /\ job[j].lockedAt = "fresh"
    /\ j \in HeldJobs => \A n \in Attempts : ~AtWork(<<j, n>>)
    /\ job' = [job EXCEPT ![j].lockedAt = "stale"]
    /\ UNCHANGED <<phase, runner, seen, beat, retrySeen>>

BackoffElapses(j) ==
    /\ Exists(j) /\ ~job[j].due
    /\ job' = [job EXCEPT ![j].due = TRUE]
    /\ UNCHANGED <<phase, runner, seen, beat, retrySeen>>

\* The process of w dies or is shut down (CancelledError is not caught by
\* `except Exception`): its sessions roll back, and it starts again as w.
Crash(w) ==
    /\ Busy(w) # {}
    /\ phase' = [r \in Runs |-> IF r \in Busy(w) THEN "over" ELSE phase[r]]
    /\ seen' = [r \in Runs |-> IF r \in Busy(w) THEN NoRow ELSE seen[r]]
    /\ beat' = [r \in Runs |-> IF r \in Busy(w) THEN "off" ELSE beat[r]]
    /\ UNCHANGED <<job, runner, retrySeen>>

-----------------------------------------------------------------------------
(* The operator: POST /admin/jobs/{id}/retry *)

RetryRead(j) ==
    /\ j \in RetryJobs
    /\ Exists(j)
    /\ retrySeen[j] = NoRow
    /\ retrySeen' = [retrySeen EXCEPT ![j] = job[j]]
    /\ UNCHANGED <<job, phase, runner, seen, beat>>

\* attempts, run_after and finished_at are left as they are.
RetryCommitResetting(j) ==
    /\ retrySeen[j] # NoRow
    /\ job' = [job EXCEPT ![j] = [Release(@, retrySeen[j], "queued") EXCEPT !.attempts = 0]]
    /\ retrySeen' = [retrySeen EXCEPT ![j] = NoRow]
    /\ UNCHANGED <<phase, runner, seen, beat>>
RetryCommit(j) ==
    /\ retrySeen[j] # NoRow
    /\ job' = [job EXCEPT ![j] = Release(@, retrySeen[j], "queued")]
    /\ retrySeen' = [retrySeen EXCEPT ![j] = NoRow]
    /\ UNCHANGED <<phase, runner, seen, beat>>

RetryAbandoned(j) ==
    /\ retrySeen[j] # NoRow
    /\ retrySeen' = [retrySeen EXCEPT ![j] = NoRow]
    /\ UNCHANGED <<job, phase, runner, seen, beat>>

-----------------------------------------------------------------------------
RunStep(j, n) ==
    \/ FinishRead(j, n) \/ FinishCommit(j, n) \/ FinishRaises(j, n)
    \/ FailRead(j, n) \/ FailCommit(j, n) \/ FailRaises(j, n)
    \/ Close(j, n)
HeartbeatStep(j, n) == HeartbeatRead(j, n) \/ HeartbeatCommit(j, n) \/ HeartbeatRaises(j, n)
RetryStep(j) == RetryRead(j) \/ RetryCommit(j) \/ RetryAbandoned(j)
TimeStep(j) == LeaseLapses(j) \/ BackoffElapses(j)

Next ==
    \/ \E j \in Jobs : Enqueue(j) \/ TimeStep(j) \/ RetryStep(j)
    \/ \E w \in Workers, j \in Jobs : Claim(w, j)
    \/ \E j \in Jobs, n \in Attempts : RunStep(j, n) \/ HeartbeatStep(j, n)
    \/ \E w \in Workers : Crash(w)

Spec == Init /\ [][Next]_vars

\* Some worker polls, every handler returns or raises (its I/O has timeouts)
\* and its task goes on to the end, and time passes.  Nobody has to enqueue,
\* to retry by hand, to crash, or to renew a lease.
Fairness ==
    /\ WF_vars(\E w \in Workers, j \in Jobs : Claim(w, j))
    /\ \A j \in Jobs : WF_vars(LeaseLapses(j)) /\ WF_vars(BackoffElapses(j))
    /\ \A j \in Jobs, n \in Attempts : WF_vars(RunStep(j, n))

FairSpec == Spec /\ Fairness

-----------------------------------------------------------------------------
(* Properties *)

TypeOK ==
    /\ job \in [Jobs -> Row]
    /\ phase \in [Runs -> Phase]
    /\ runner \in [Runs -> Workers \cup {NoWorker}]
    /\ seen \in [Runs -> Row \cup {NoRow}]
    /\ beat \in [Runs -> {"off", "beating", "renewing"}]
    /\ retrySeen \in [Jobs -> Row \cup {NoRow}]

\* The attempts column is the number of runs ever started, and never passes
\* max_attempts: through crashes, recoveries, operator retries and overwritten
\* rows, the handler of a job is not entered more often than it was asked for.
AttemptsCountRuns ==
    \A j \in Jobs :
        /\ job[j].attempts <= MaxAttempts[j]
        /\ \A n \in Attempts : phase[<<j, n>>] # "idle" <=> n <= job[j].attempts

\* A running row of a job nobody retries by hand always has an owner and a
\* lock time, without which claim_job could never recover it, and no other row
\* of it has an owner: although four sessions write the three columns from
\* unlocked reads.
Unattended == Jobs \ RetryJobs
RunningIsLeased ==
    \A j \in Unattended :
        IF job[j].status = "running"
        THEN job[j].lockedBy # NoWorker /\ job[j].lockedAt # "none"
        ELSE job[j].lockedBy = NoWorker

\* While its leases hold, the run of a job at work is its latest attempt and the
\* row is its own: two runs of a job are never at work at the same time, for
\* any number of workers and of tasks of one worker.
Exclusive == HeldJobs \ RetryJobs
OneRunAtWork ==
    \A j \in Exclusive, n \in Attempts :
        /\ AtWork(<<j, n>>) => n = job[j].attempts
        /\ phase[<<j, n>>] \in {"running", "finishing", "failing"} => Owns(j, n)

\* While its leases hold, a queued job has an attempt left: no interleaving of
\* fail_job and a recovery strands a job that claim_job will not take again.
QueuedHasAttemptLeft ==
    \A j \in Exclusive : job[j].status = "queued" => job[j].attempts < MaxAttempts[j]

\* Whatever fails, a submitted job is settled in the end, or all its attempts
\* are spent and none of its runs is left: nothing that can still be run waits
\* for ever.
Settled(j) == job[j].status \in {"succeeded", "failed"}
Spent(j) == job[j].attempts = MaxAttempts[j] /\ \A n \in Attempts : ~Active(<<j, n>>)
EventuallySettledOrSpent == \A j \in Jobs : Exists(j) ~> (Settled(j) \/ Spent(j))

\* "A stale running row is reclaimable after the configured lock timeout and
\* receives a new attempt": a stale row does not stay so for ever.
StaleRowIsRecovered ==
    \A j \in Jobs :
        job[j].status = "running" /\ job[j].lockedAt = "stale"
            ~> ~(job[j].status = "running" /\ job[j].lockedAt = "stale")

\* The queue keeps the promises of JobLedger to the jobs whose leases hold,
\* whatever happens to the others.
LedgerState(status) ==
    CASE status = "absent" -> "absent"
      [] status = "queued" -> "waiting"
      [] status = "running" -> "active"
      [] status = "succeeded" -> "done"
      [] status = "failed" -> "dead"
Ledger == INSTANCE JobLedger WITH
              Jobs <- Exclusive,
              state <- [j \in Exclusive |-> LedgerState(job[j].status)],
              attempt <- [j \in Exclusive |-> job[j].attempts],
              outcome <- [j \in Exclusive |-> job[j].result]
ImplementsLedger == Ledger!Spec
=============================================================================
