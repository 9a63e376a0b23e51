---------------------------- MODULE JobQueueProofs ----------------------------
(***************************************************************************)
(* Theorems of JobQueue, for every set of workers and jobs, every           *)
(* max_attempts and every concurrency.                                      *)
(***************************************************************************)
EXTENDS JobQueue, TLAPS

USE WorkersAssumption, AttemptsAssumption, RetryAssumption, LeaseAssumption, NoRowAssumption

-----------------------------------------------------------------------------
(* Lemmas about rows *)

\* Releasing a row leaves a row: whatever the session read, each column keeps
\* its value or takes one of its type.
LEMMA ReleaseType ==
    ASSUME NEW row \in Row, NEW read \in Row, NEW status \in Status
    PROVE  /\ Release(row, read, status) \in Row
           /\ Release(row, read, status).attempts = row.attempts
           /\ Release(row, read, status).result = row.result
           /\ Release(row, read, status).due = row.due
           /\ Release(row, read, status).status = Put(row.status, read.status, status)
           /\ Release(row, read, status).lockedBy = Put(row.lockedBy, read.lockedBy, NoWorker)
           /\ Release(row, read, status).lockedAt = Put(row.lockedAt, read.lockedAt, "none")
  BY DEF Release, Put, Row

LEMMA FinishedType ==
    ASSUME NEW row \in Row, NEW read \in Row, NEW n \in Attempts
    PROVE  /\ Finished(row, read, n) \in Row
           /\ Finished(row, read, n).attempts = row.attempts
           /\ Finished(row, read, n).result = n
           /\ Finished(row, read, n).status = Put(row.status, read.status, "succeeded")
           /\ Finished(row, read, n).lockedBy = Put(row.lockedBy, read.lockedBy, NoWorker)
           /\ Finished(row, read, n).lockedAt = Put(row.lockedAt, read.lockedAt, "none")
<1>1. "succeeded" \in Status
  BY DEF Status
<1>2. PICK r : r = Release(row, read, "succeeded")
  OBVIOUS
<1>3. /\ r \in Row
      /\ r.attempts = row.attempts
      /\ r.status = Put(row.status, read.status, "succeeded")
      /\ r.lockedBy = Put(row.lockedBy, read.lockedBy, NoWorker)
      /\ r.lockedAt = Put(row.lockedAt, read.lockedAt, "none")
  BY <1>1, <1>2, ReleaseType
<1>4. n \in 0..AttemptLimit
  BY DEF Attempts
<1>5. /\ [r EXCEPT !.result = n] \in Row
      /\ [r EXCEPT !.result = n].attempts = r.attempts
      /\ [r EXCEPT !.result = n].result = n
      /\ [r EXCEPT !.result = n].status = r.status
      /\ [r EXCEPT !.result = n].lockedBy = r.lockedBy
      /\ [r EXCEPT !.result = n].lockedAt = r.lockedAt
  BY <1>3, <1>4 DEF Row
<1>6. Finished(row, read, n) = [r EXCEPT !.result = n]
  BY <1>2 DEF Finished
<1> QED
  BY <1>3, <1>5, <1>6

LEMMA FailedType ==
    ASSUME NEW row \in Row, NEW read \in Row, NEW j \in Jobs
    PROVE  /\ Failed(row, read, j) \in Row
           /\ Failed(row, read, j).attempts = row.attempts
           /\ Failed(row, read, j).result = row.result
           /\ Failed(row, read, j).status =
                  Put(row.status, read.status,
                      IF read.attempts >= MaxAttempts[j] THEN "failed" ELSE "queued")
           /\ Failed(row, read, j).lockedBy = Put(row.lockedBy, read.lockedBy, NoWorker)
           /\ Failed(row, read, j).lockedAt = Put(row.lockedAt, read.lockedAt, "none")
<1>1. "failed" \in Status /\ "queued" \in Status
  BY DEF Status
<1>2. CASE read.attempts >= MaxAttempts[j]
  BY <1>1, <1>2, ReleaseType DEF Failed
<1>3. CASE ~(read.attempts >= MaxAttempts[j])
  <2>1. PICK r : r = Release(row, read, "queued")
    OBVIOUS
  <2>2. /\ r \in Row
        /\ r.attempts = row.attempts
        /\ r.result = row.result
        /\ r.status = Put(row.status, read.status, "queued")
        /\ r.lockedBy = Put(row.lockedBy, read.lockedBy, NoWorker)
        /\ r.lockedAt = Put(row.lockedAt, read.lockedAt, "none")
    BY <1>1, <2>1, ReleaseType
  <2>3. /\ [r EXCEPT !.due = FALSE] \in Row
        /\ [r EXCEPT !.due = FALSE].attempts = r.attempts
        /\ [r EXCEPT !.due = FALSE].result = r.result
        /\ [r EXCEPT !.due = FALSE].status = r.status
        /\ [r EXCEPT !.due = FALSE].lockedBy = r.lockedBy
        /\ [r EXCEPT !.due = FALSE].lockedAt = r.lockedAt
    BY <2>2 DEF Row
  <2>4. Failed(row, read, j) = [r EXCEPT !.due = FALSE]
    BY <1>3, <2>1 DEF Failed
  <2> QED
    BY <1>3, <2>2, <2>3, <2>4
<1> QED
  BY <1>2, <1>3

\* The writes of single columns: a claim, a renewal, the passing of time.
LEMMA ClaimedType ==
    ASSUME NEW row \in Row, NEW w \in Workers, NEW n \in Attempts
    PROVE  [row EXCEPT !.status = "running", !.attempts = n,
                       !.lockedBy = w, !.lockedAt = "fresh"] \in Row
<1>1. n \in 0..AttemptLimit
  BY DEF Attempts
<1>2. "running" \in Status
  BY DEF Status
<1> QED
  BY <1>1, <1>2 DEF Row

LEMMA RenewedType ==
    ASSUME NEW row \in Row, NEW at \in {"fresh", "stale"}
    PROVE  [row EXCEPT !.lockedAt = at] \in Row
  BY DEF Row

LEMMA DueType ==
    ASSUME NEW row \in Row
    PROVE  [row EXCEPT !.due = TRUE] \in Row
  BY DEF Row

LEMMA NewRowType ==
    ASSUME NEW elders \in SUBSET Jobs
    PROVE  NewRow(elders) \in Row
  BY DEF NewRow, Row, Status

LEMMA AbsentRowType == AbsentRow \in Row
  BY DEF AbsentRow, Row, Status

-----------------------------------------------------------------------------
(* Types *)

\* A session that is about to commit has read a row.
SessionsHoldRows ==
    \A r \in Runs : phase[r] \in {"finishing", "failing"} => seen[r] \in Row

LEMMA InitTypes == Init => TypeOK /\ SessionsHoldRows
  BY AbsentRowType DEF Init, TypeOK, SessionsHoldRows, Phase

\* The rows after any step are rows.
LEMMA StepKeepsRows ==
    TypeOK /\ SessionsHoldRows /\ [Next]_vars => job' \in [Jobs -> Row]
<1> SUFFICES ASSUME TypeOK, SessionsHoldRows, [Next]_vars
             PROVE  job' \in [Jobs -> Row]
  OBVIOUS
<1> USE DEF TypeOK
<1>1. ASSUME NEW j \in Jobs, Enqueue(j)
      PROVE  job' \in [Jobs -> Row]
  BY <1>1, NewRowType DEF Enqueue
<1>2. ASSUME NEW w \in Workers, NEW j \in Jobs, Claim(w, j)
      PROVE  job' \in [Jobs -> Row]
  <2>1. job[j].attempts + 1 \in Attempts
    BY <1>2 DEF Claim, Claimable, Row, Attempts
  <2> QED
    BY <1>2, <2>1, ClaimedType DEF Claim
<1>3. ASSUME NEW j \in Jobs, NEW n \in Attempts, RunStep(j, n) \/ HeartbeatStep(j, n)
      PROVE  job' \in [Jobs -> Row]
  <2>1. <<j, n>> \in Runs
    BY DEF Runs
  <2>2. CASE FinishCommit(j, n) \/ FinishRaises(j, n)
    <3>1. Finished(job[j], seen[<<j, n>>], n) \in Row
      BY <2>1, <2>2, FinishedType DEF FinishCommit, FinishRaises, SessionsHoldRows
    <3> QED
      BY <2>2, <3>1 DEF FinishCommit, FinishRaises
  <2>3. CASE FailCommit(j, n)
    BY <2>1, <2>3, FailedType DEF FailCommit, SessionsHoldRows
  <2>4. CASE HeartbeatCommit(j, n)
    <3>1. [job[j] EXCEPT !.lockedAt = "fresh"] \in Row
      BY RenewedType
    <3> QED
      BY <2>4, <3>1 DEF HeartbeatCommit
  <2> QED
    BY <1>3, <2>2, <2>3, <2>4
       DEF RunStep, HeartbeatStep, FinishRead, FailRead, FailRaises, Close,
           HeartbeatRead, HeartbeatRaises
<1>4. ASSUME NEW j \in Jobs, TimeStep(j)
      PROVE  job' \in [Jobs -> Row]
  <2>1. /\ [job[j] EXCEPT !.lockedAt = "stale"] \in Row
        /\ [job[j] EXCEPT !.due = TRUE] \in Row
    BY RenewedType, DueType
  <2> QED
    BY <1>4, <2>1 DEF TimeStep, LeaseLapses, BackoffElapses
<1>5. ASSUME NEW j \in Jobs, RetryStep(j)
      PROVE  job' \in [Jobs -> Row]
  <2>1. CASE RetryCommit(j)
    <3>1. "queued" \in Status
      BY DEF Status
    <3>2. Release(job[j], retrySeen[j], "queued") \in Row
      BY <2>1, <3>1, ReleaseType DEF RetryCommit
    <3> QED
      BY <2>1, <3>2 DEF RetryCommit
  <2> QED
    BY <1>5, <2>1 DEF RetryStep, RetryRead, RetryAbandoned
<1>6. ASSUME NEW w \in Workers, Crash(w)
      PROVE  job' \in [Jobs -> Row]
  BY <1>6 DEF Crash
<1> QED
  BY <1>1, <1>2, <1>3, <1>4, <1>5, <1>6 DEF Next, vars

\* The processes after any step are in their states, and a session that has
\* got as far as its commit still holds the row it read.
LEMMA StepKeepsProcesses ==
    TypeOK /\ SessionsHoldRows /\ [Next]_vars =>
        /\ phase' \in [Runs -> Phase]
        /\ runner' \in [Runs -> Workers \cup {NoWorker}]
        /\ seen' \in [Runs -> Row \cup {NoRow}]
        /\ beat' \in [Runs -> {"off", "beating", "renewing"}]
        /\ retrySeen' \in [Jobs -> Row \cup {NoRow}]
        /\ SessionsHoldRows'
<1> SUFFICES ASSUME TypeOK, SessionsHoldRows, [Next]_vars
             PROVE  /\ phase' \in [Runs -> Phase]
                    /\ runner' \in [Runs -> Workers \cup {NoWorker}]
                    /\ seen' \in [Runs -> Row \cup {NoRow}]
                    /\ beat' \in [Runs -> {"off", "beating", "renewing"}]
                    /\ retrySeen' \in [Jobs -> Row \cup {NoRow}]
                    /\ SessionsHoldRows'
  OBVIOUS
<1> USE DEF TypeOK, Phase, SessionsHoldRows
<1>1. CASE \E j \in Jobs : Enqueue(j) \/ TimeStep(j)
  BY <1>1 DEF Enqueue, TimeStep, LeaseLapses, BackoffElapses
<1>2. CASE \E j \in Jobs : RetryStep(j)
  BY <1>2 DEF RetryStep, RetryRead, RetryCommit, RetryAbandoned
<1>3. CASE \E w \in Workers, j \in Jobs : Claim(w, j)
  <2>1. PICK w \in Workers, j \in Jobs : Claim(w, j)
    BY <1>3
  <2>2. <<j, job[j].attempts + 1>> \in Runs
    BY <2>1 DEF Claim, Claimable, Row, Attempts, Runs
  <2> QED
    BY <2>1, <2>2 DEF Claim
<1>4. ASSUME NEW j \in Jobs, NEW n \in Attempts, RunStep(j, n)
      PROVE  /\ phase' \in [Runs -> Phase]
             /\ seen' \in [Runs -> Row \cup {NoRow}]
             /\ beat' \in [Runs -> {"off", "beating", "renewing"}]
             /\ UNCHANGED <<runner, retrySeen>>
             /\ SessionsHoldRows'
  <2>1. <<j, n>> \in Runs
    BY DEF Runs
  <2>2. CASE FinishRead(j, n)
    BY <2>1, <2>2 DEF FinishRead
  <2>3. CASE FinishCommit(j, n)
    BY <2>1, <2>3 DEF FinishCommit
  <2>4. CASE FinishRaises(j, n)
    BY <2>1, <2>4 DEF FinishRaises
  <2>5. CASE FailRead(j, n)
    BY <2>1, <2>5 DEF FailRead
  <2>6. CASE FailCommit(j, n)
    BY <2>1, <2>6 DEF FailCommit
  <2>7. CASE FailRaises(j, n)
    BY <2>1, <2>7 DEF FailRaises
  <2>8. CASE Close(j, n)
    BY <2>1, <2>8 DEF Close
  <2> QED
    BY <1>4, <2>2, <2>3, <2>4, <2>5, <2>6, <2>7, <2>8 DEF RunStep
<1>5. CASE \E j \in Jobs, n \in Attempts : HeartbeatStep(j, n)
  BY <1>5 DEF HeartbeatStep, HeartbeatRead, HeartbeatCommit, HeartbeatRaises
<1>6. CASE \E w \in Workers : Crash(w)
  BY <1>6 DEF Crash
<1>7. CASE UNCHANGED vars
  BY <1>7 DEF vars
<1> QED
  BY <1>1, <1>2, <1>3, <1>4, <1>5, <1>6, <1>7 DEF Next

\* Every reachable state is well typed: in particular the attempts column of
\* no job passes the bound, whatever the sessions overwrite.
THEOREM TypeCorrect == Spec => [](TypeOK /\ SessionsHoldRows)
<1>1. TypeOK /\ SessionsHoldRows /\ [Next]_vars => TypeOK' /\ SessionsHoldRows'
  BY StepKeepsRows, StepKeepsProcesses DEF TypeOK
<1> QED
  BY InitTypes, <1>1, PTL DEF Spec

-----------------------------------------------------------------------------
(* Attempts *)

\* Only a claim, or the insertion of the row, changes the attempts column or
\* starts a run: every other session writes back around it.
LEMMA AttemptsFrame ==
    ASSUME TypeOK, SessionsHoldRows, [Next]_vars,
           ~(\E j \in Jobs : Enqueue(j)), ~(\E w \in Workers, j \in Jobs : Claim(w, j))
    PROVE  /\ \A k \in Jobs : job'[k].attempts = job[k].attempts
           /\ \A k \in Jobs : job'[k].status = "absent" => job[k].status = "absent"
           /\ \A r \in Runs : phase'[r] = "idle" <=> phase[r] = "idle"
<1> USE DEF TypeOK
<1>1. ASSUME NEW j \in Jobs, NEW n \in Attempts, RunStep(j, n)
      PROVE  /\ \A k \in Jobs : job'[k].attempts = job[k].attempts
             /\ \A k \in Jobs : job'[k].status = "absent" => job[k].status = "absent"
             /\ \A r \in Runs : phase'[r] = "idle" <=> phase[r] = "idle"
  <2>1. <<j, n>> \in Runs
    BY DEF Runs
  <2>2. CASE FinishCommit(j, n) \/ FinishRaises(j, n)
    <3>1. /\ Finished(job[j], seen[<<j, n>>], n).attempts = job[j].attempts
          /\ Finished(job[j], seen[<<j, n>>], n).status = "absent" => job[j].status = "absent"
      <4>1. seen[<<j, n>>] \in Row /\ job[j] \in Row
        BY <2>1, <2>2 DEF FinishCommit, FinishRaises, SessionsHoldRows
      <4> HIDE DEF TypeOK
      <4>2. /\ Finished(job[j], seen[<<j, n>>], n).attempts = job[j].attempts
            /\ Finished(job[j], seen[<<j, n>>], n).status
                  = Put(job[j].status, seen[<<j, n>>].status, "succeeded")
        BY ZenonT(40), <4>1, FinishedType
      <4> QED
        BY <4>2 DEF Put
    <3> QED
      BY <2>1, <2>2, <3>1 DEF FinishCommit, FinishRaises
  <2>3. CASE FailCommit(j, n)
    <3>1. /\ Failed(job[j], seen[<<j, n>>], j).attempts = job[j].attempts
          /\ Failed(job[j], seen[<<j, n>>], j).status = "absent" => job[j].status = "absent"
      <4>1. seen[<<j, n>>] \in Row /\ job[j] \in Row
        BY <2>1, <2>3 DEF FailCommit, SessionsHoldRows
      <4> HIDE DEF TypeOK
      <4>2. /\ Failed(job[j], seen[<<j, n>>], j).attempts = job[j].attempts
            /\ Failed(job[j], seen[<<j, n>>], j).status
                  = Put(job[j].status, seen[<<j, n>>].status,
                        IF seen[<<j, n>>].attempts >= MaxAttempts[j] THEN "failed" ELSE "queued")
        BY <4>1, FailedType
      <4> QED
        BY <4>2 DEF Put
    <3> QED
      BY <2>1, <2>3, <3>1 DEF FailCommit
  <2> QED
    BY <1>1, <2>1, <2>2, <2>3 DEF RunStep, FinishRead, FailRead, FailRaises, Close
<1>2. ASSUME NEW j \in Jobs, NEW n \in Attempts, HeartbeatStep(j, n)
      PROVE  /\ \A k \in Jobs : job'[k].attempts = job[k].attempts
             /\ \A k \in Jobs : job'[k].status = "absent" => job[k].status = "absent"
             /\ \A r \in Runs : phase'[r] = "idle" <=> phase[r] = "idle"
  <2>1. /\ [job[j] EXCEPT !.lockedAt = "fresh"].attempts = job[j].attempts
        /\ [job[j] EXCEPT !.lockedAt = "fresh"].status = job[j].status
    BY DEF Row
  <2> QED
    BY <1>2, <2>1 DEF HeartbeatStep, HeartbeatRead, HeartbeatCommit, HeartbeatRaises
<1>3. ASSUME NEW j \in Jobs, TimeStep(j)
      PROVE  /\ \A k \in Jobs : job'[k].attempts = job[k].attempts
             /\ \A k \in Jobs : job'[k].status = "absent" => job[k].status = "absent"
             /\ \A r \in Runs : phase'[r] = "idle" <=> phase[r] = "idle"
  <2>1. /\ [job[j] EXCEPT !.lockedAt = "stale"].attempts = job[j].attempts
        /\ [job[j] EXCEPT !.lockedAt = "stale"].status = job[j].status
        /\ [job[j] EXCEPT !.due = TRUE].attempts = job[j].attempts
        /\ [job[j] EXCEPT !.due = TRUE].status = job[j].status
    BY DEF Row
  <2> QED
    BY <1>3, <2>1 DEF TimeStep, LeaseLapses, BackoffElapses
<1>4. ASSUME NEW j \in Jobs, RetryStep(j)
      PROVE  /\ \A k \in Jobs : job'[k].attempts = job[k].attempts
             /\ \A k \in Jobs : job'[k].status = "absent" => job[k].status = "absent"
             /\ \A r \in Runs : phase'[r] = "idle" <=> phase[r] = "idle"
  <2>1. CASE RetryCommit(j)
    <3>1. /\ Release(job[j], retrySeen[j], "queued").attempts = job[j].attempts
          /\ Release(job[j], retrySeen[j], "queued").status = "absent" => job[j].status = "absent"
      BY <2>1, ReleaseType DEF RetryCommit, Status, Put
    <3> QED
      BY <2>1, <3>1 DEF RetryCommit
  <2> QED
    BY <1>4, <2>1 DEF RetryStep, RetryRead, RetryAbandoned
<1>5. ASSUME NEW w \in Workers, Crash(w)
      PROVE  /\ \A k \in Jobs : job'[k].attempts = job[k].attempts
             /\ \A k \in Jobs : job'[k].status = "absent" => job[k].status = "absent"
             /\ \A r \in Runs : phase'[r] = "idle" <=> phase[r] = "idle"
  BY <1>5 DEF Crash, Busy, Active, AtWork
<1> QED
  BY <1>1, <1>2, <1>3, <1>4, <1>5 DEF Next, vars

\* What makes AttemptsCountRuns inductive: a row that is yet to be inserted
\* has no attempts, so that inserting it forgets none.
AbsentIsUntried == \A j \in Jobs : job[j].status = "absent" => job[j].attempts = 0

LEMMA AttemptsInvariant == Spec => [](AttemptsCountRuns /\ AbsentIsUntried)
<1>1. Init => AttemptsCountRuns /\ AbsentIsUntried
  BY DEF Init, AttemptsCountRuns, AbsentIsUntried, AbsentRow, Attempts, Runs
<1>2. TypeOK /\ SessionsHoldRows /\ AttemptsCountRuns /\ AbsentIsUntried /\ [Next]_vars
        => AttemptsCountRuns' /\ AbsentIsUntried'
  <2> SUFFICES ASSUME TypeOK, SessionsHoldRows, AttemptsCountRuns, AbsentIsUntried, [Next]_vars
               PROVE  AttemptsCountRuns' /\ AbsentIsUntried'
    OBVIOUS
  <2> USE DEF TypeOK, AttemptsCountRuns, AbsentIsUntried
  <2>1. CASE \E j \in Jobs : Enqueue(j)
    <3>1. PICK j \in Jobs : Enqueue(j)
      BY <2>1
    <3>2. /\ NewRow({k \in Jobs : Exists(k)}).attempts = 0
          /\ NewRow({k \in Jobs : Exists(k)}).status = "queued"
      BY DEF NewRow
    <3>3. CASE Exists(j)
      BY <3>1, <3>3 DEF Enqueue
    <3>4. CASE ~Exists(j)
      <4>1. /\ \A k \in Jobs : job'[k].attempts = job[k].attempts
            /\ \A k \in Jobs : job'[k].status = "absent" => job[k].status = "absent"
        BY <3>1, <3>2, <3>4 DEF Enqueue, Exists
      <4> QED
        BY <3>1, <4>1 DEF Enqueue
    <3> QED
      BY <3>3, <3>4
  <2>2. CASE \E w \in Workers, j \in Jobs : Claim(w, j)
    <3>1. PICK w \in Workers, j \in Jobs : Claim(w, j)
      BY <2>2
    <3>2. /\ job[j].attempts + 1 \in Attempts
          /\ <<j, job[j].attempts + 1>> \in Runs
          /\ job[j].attempts + 1 <= MaxAttempts[j]
      BY <3>1 DEF Claim, Claimable, Row, Attempts, Runs
    <3>3. /\ job'[j].attempts = job[j].attempts + 1
          /\ job'[j].status = "running"
      BY <3>1 DEF Claim, Row
    <3>4. \A k \in Jobs : k # j => job'[k] = job[k]
      BY <3>1 DEF Claim
    <3>5. \A r \in Runs : phase'[r] = IF r = <<j, job[j].attempts + 1>> THEN "running" ELSE phase[r]
      BY <3>1, <3>2 DEF Claim
    <3>6. ASSUME NEW k \in Jobs, NEW n \in Attempts
          PROVE  /\ job'[k].attempts <= MaxAttempts[k]
                 /\ phase'[<<k, n>>] # "idle" <=> n <= job'[k].attempts
      <4>1. <<k, n>> \in Runs
        BY DEF Runs
      <4>2. CASE k = j
        BY <3>2, <3>3, <3>5, <4>1, <4>2 DEF Row, Attempts
      <4>3. CASE k # j
        BY <3>4, <3>5, <4>1, <4>3
      <4> QED
        BY <4>2, <4>3
    <3> QED
      BY <3>3, <3>4, <3>6 DEF Attempts
  <2>3. CASE /\ ~(\E j \in Jobs : Enqueue(j))
             /\ ~(\E w \in Workers, j \in Jobs : Claim(w, j))
    BY <2>3, AttemptsFrame DEF Runs
  <2> QED
    BY <2>1, <2>2, <2>3
<1> QED
  BY <1>1, <1>2, TypeCorrect, PTL DEF Spec

\* No job is run more often than its max_attempts, and its attempts column
\* counts exactly the runs that were started.
THEOREM AttemptsBounded == Spec => []AttemptsCountRuns
  BY AttemptsInvariant, PTL

\* A row that is there stays there.
LEMMA ExistsStep ==
    ASSUME TypeOK, SessionsHoldRows, [Next]_vars, NEW k \in Jobs, job'[k].status = "absent"
    PROVE  job[k].status = "absent"
<1>1. ASSUME NEW j \in Jobs, Enqueue(j)
      PROVE  job[k].status = "absent"
  BY <1>1 DEF Enqueue, NewRow, TypeOK
<1>2. ASSUME NEW w \in Workers, NEW j \in Jobs, Claim(w, j)
      PROVE  job[k].status = "absent"
  BY <1>2 DEF Claim, TypeOK, Row
<1> QED
  BY <1>1, <1>2, AttemptsFrame

-----------------------------------------------------------------------------
(* Leases *)

\* What makes RunningIsLeased inductive, job by job: without operator retries the
\* row a session is about to write back was a leased running row when it was
\* read, so that its flush clears the owner together with the status.
Leased(row) == row.status = "running" /\ row.lockedBy # NoWorker /\ row.lockedAt # "none"
Unowned(row) == row.status # "running" /\ row.lockedBy = NoWorker
LeasedJob(j) ==
    /\ Leased(job[j]) \/ Unowned(job[j])
    /\ \A n \in Attempts : phase[<<j, n>>] \in {"finishing", "failing"} => Leased(seen[<<j, n>>])
    /\ retrySeen[j] = NoRow
LeaseInv == \A j \in Unattended : LeasedJob(j)

\* A row written back by finish_job or fail_job has no owner and is not running.
LEMMA WrittenBack ==
    ASSUME NEW row \in Row, NEW read \in Row, Leased(read), NEW n \in Attempts, NEW j \in Jobs
    PROVE  /\ Finished(row, read, n).status = "succeeded"
           /\ Finished(row, read, n).lockedBy = NoWorker
           /\ Finished(row, read, n).lockedAt = "none"
           /\ Failed(row, read, j).status =
                  IF read.attempts >= MaxAttempts[j] THEN "failed" ELSE "queued"
           /\ Failed(row, read, j).lockedBy = NoWorker
           /\ Failed(row, read, j).lockedAt = "none"
<1>1. /\ \A new : new # "running" => Put(row.status, read.status, new) = new
      /\ Put(row.lockedBy, read.lockedBy, NoWorker) = NoWorker
      /\ Put(row.lockedAt, read.lockedAt, "none") = "none"
  BY DEF Put, Leased
<1>2. /\ Finished(row, read, n).status = "succeeded"
      /\ Finished(row, read, n).lockedBy = NoWorker
      /\ Finished(row, read, n).lockedAt = "none"
  BY <1>1, FinishedType
<1>3. /\ Failed(row, read, j).status
            = Put(row.status, read.status,
                  IF read.attempts >= MaxAttempts[j] THEN "failed" ELSE "queued")
      /\ Failed(row, read, j).lockedBy = NoWorker
      /\ Failed(row, read, j).lockedAt = "none"
  BY <1>1, FailedType
<1>4. (IF read.attempts >= MaxAttempts[j] THEN "failed" ELSE "queued") # "running"
  OBVIOUS
<1> QED
  BY <1>1, <1>2, <1>3, <1>4

\* A step keeps a job so that leaves its row's status and owner alone, does not
\* clear its lock time, and leaves its sessions alone.
LEMMA LeaseFrame ==
    ASSUME NEW j \in Jobs, LeasedJob(j),
           job'[j].status = job[j].status, job'[j].lockedBy = job[j].lockedBy,
           job'[j].lockedAt \in {job[j].lockedAt, "fresh", "stale"},
           \A n \in Attempts : phase'[<<j, n>>] \in {"finishing", "failing"} =>
               phase'[<<j, n>>] = phase[<<j, n>>] /\ seen'[<<j, n>>] = seen[<<j, n>>],
           retrySeen'[j] = retrySeen[j]
    PROVE  LeasedJob(j)'
  BY DEF LeasedJob, Leased, Unowned

LEMMA RunLeased ==
    ASSUME TypeOK, SessionsHoldRows, NEW j \in Jobs, NEW n \in Attempts, RunStep(j, n),
           LeasedJob(j)
    PROVE  LeasedJob(j)'
<1> USE DEF TypeOK
<1>1. <<j, n>> \in Runs /\ \A m \in Attempts : <<j, m>> \in Runs
  BY DEF Runs
<1>2. CASE FinishCommit(j, n) \/ FinishRaises(j, n)
  <2>1. seen[<<j, n>>] \in Row /\ Leased(seen[<<j, n>>])
    BY <1>1, <1>2 DEF FinishCommit, FinishRaises, SessionsHoldRows, LeasedJob
  <2>2. /\ Finished(job[j], seen[<<j, n>>], n).status = "succeeded"
        /\ Finished(job[j], seen[<<j, n>>], n).lockedBy = NoWorker
    BY <2>1, WrittenBack
  <2>3. Unowned(job'[j]) \/ job'[j] = job[j]
    BY <1>2, <2>2 DEF FinishCommit, FinishRaises, Unowned
  <2>4. /\ \A m \in Attempts : phase'[<<j, m>>] \in {"finishing", "failing"} =>
             phase'[<<j, m>>] = phase[<<j, m>>] /\ seen'[<<j, m>>] = seen[<<j, m>>]
        /\ UNCHANGED retrySeen
    BY <1>1, <1>2 DEF FinishCommit, FinishRaises
  <2> QED
    BY <2>3, <2>4 DEF LeasedJob, Leased, Unowned
<1>3. CASE FailCommit(j, n)
  <2>1. seen[<<j, n>>] \in Row /\ Leased(seen[<<j, n>>])
    BY SMTT(30), <1>1, <1>3 DEF FailCommit, SessionsHoldRows, LeasedJob
  <2>2. /\ Failed(job[j], seen[<<j, n>>], j).status # "running"
        /\ Failed(job[j], seen[<<j, n>>], j).lockedBy = NoWorker
    BY ZenonT(40), <2>1, WrittenBack
  <2>3. Unowned(job'[j])
    BY <1>3, <2>2 DEF FailCommit, Unowned
  <2>4. /\ \A m \in Attempts : phase'[<<j, m>>] \in {"finishing", "failing"} =>
             phase'[<<j, m>>] = phase[<<j, m>>] /\ seen'[<<j, m>>] = seen[<<j, m>>]
        /\ UNCHANGED retrySeen
    BY <1>1, <1>3 DEF FailCommit
  <2> QED
    BY <2>3, <2>4 DEF LeasedJob, Leased, Unowned
<1>4. CASE FinishRead(j, n) \/ FailRead(j, n)
  <2>1. Owns(j, n) => Leased(job[j])
    BY DEF Owns, LeasedJob, Unowned
  <2> QED
    BY <1>1, <1>4, <2>1 DEF FinishRead, FailRead, LeasedJob, Leased, Unowned
<1>5. CASE FailRaises(j, n) \/ Close(j, n)
  <2>1. UNCHANGED <<job, retrySeen>>
    BY <1>5 DEF FailRaises, Close
  <2>2. \A m \in Attempts : phase'[<<j, m>>] \in {"finishing", "failing"} =>
            phase'[<<j, m>>] = phase[<<j, m>>] /\ seen'[<<j, m>>] = seen[<<j, m>>]
    BY <1>1, <1>5 DEF FailRaises, Close
  <2> QED
    BY <2>1, <2>2, LeaseFrame
<1> QED
  BY <1>2, <1>3, <1>4, <1>5 DEF RunStep

LEMMA LeaseStep ==
    ASSUME TypeOK, SessionsHoldRows, LeaseInv, [Next]_vars
    PROVE  LeaseInv'
<1> SUFFICES ASSUME NEW k \in Unattended
             PROVE  LeasedJob(k)'
  BY DEF LeaseInv, Unattended
<1>1. k \in Jobs /\ k \notin RetryJobs /\ LeasedJob(k)
  BY DEF LeaseInv, Unattended
<1> USE DEF TypeOK
<1>2. \A n \in Attempts : <<k, n>> \in Runs
  BY <1>1 DEF Runs
<1>3. ASSUME NEW j \in Jobs, Enqueue(j)
      PROVE  LeasedJob(k)'
  <2>1. job'[k] = job[k] \/ Unowned(job'[k])
    BY <1>1, <1>3 DEF Enqueue, NewRow, Unowned
  <2>2. UNCHANGED <<phase, seen, retrySeen>>
    BY <1>3 DEF Enqueue
  <2> QED
    BY <1>1, <2>1, <2>2 DEF LeasedJob, Leased, Unowned
<1>4. ASSUME NEW w \in Workers, NEW j \in Jobs, Claim(w, j)
      PROVE  LeasedJob(k)'
  <2>1. job'[k] = job[k] \/ Leased(job'[k])
    BY <1>1, <1>4 DEF Claim, Leased, Row
  <2>2. \A n \in Attempts : phase'[<<k, n>>] \in {"finishing", "failing"} =>
            phase'[<<k, n>>] = phase[<<k, n>>]
    BY <1>2, <1>4 DEF Claim
  <2>3. UNCHANGED <<seen, retrySeen>>
    BY <1>4 DEF Claim
  <2> QED
    BY <1>1, <2>1, <2>2, <2>3 DEF LeasedJob, Leased, Unowned
<1>5. ASSUME NEW j \in Jobs, NEW n \in Attempts, RunStep(j, n)
      PROVE  LeasedJob(k)'
  <2>1. CASE k = j
    BY <1>1, <1>5, <2>1, RunLeased
  <2>2. CASE k # j
    <3>1. /\ job'[k] = job[k] /\ UNCHANGED retrySeen
          /\ \A m \in Attempts : phase'[<<k, m>>] = phase[<<k, m>>] /\ seen'[<<k, m>>] = seen[<<k, m>>]
      BY <1>1, <1>2, <1>5, <2>2
         DEF RunStep, FinishRead, FinishCommit, FinishRaises, FailRead, FailCommit,
             FailRaises, Close
    <3> QED
      BY <1>1, <3>1, LeaseFrame
  <2> QED
    BY <2>1, <2>2
<1>6. ASSUME NEW j \in Jobs, NEW n \in Attempts, HeartbeatStep(j, n)
      PROVE  LeasedJob(k)'
  <2>1. UNCHANGED <<phase, seen, retrySeen>>
    BY <1>6 DEF HeartbeatStep, HeartbeatRead, HeartbeatCommit, HeartbeatRaises
  <2>2. LET row == [job[k] EXCEPT !.lockedAt = "fresh"]
        IN  row.status = job[k].status /\ row.lockedBy = job[k].lockedBy /\ row.lockedAt = "fresh"
    BY <1>1 DEF Row
  <2>3. /\ job'[k].status = job[k].status /\ job'[k].lockedBy = job[k].lockedBy
        /\ job'[k].lockedAt \in {job[k].lockedAt, "fresh"}
    BY <1>1, <1>6, <2>2 DEF HeartbeatStep, HeartbeatRead, HeartbeatCommit, HeartbeatRaises
  <2> QED
    BY <1>1, <2>1, <2>3, LeaseFrame
<1>7. ASSUME NEW j \in Jobs, TimeStep(j)
      PROVE  LeasedJob(k)'
  <2>1. UNCHANGED <<phase, seen, retrySeen>>
    BY <1>7 DEF TimeStep, LeaseLapses, BackoffElapses
  <2>2. LET row == [job[k] EXCEPT !.lockedAt = "stale"]
        IN  row.status = job[k].status /\ row.lockedBy = job[k].lockedBy /\ row.lockedAt = "stale"
    BY <1>1 DEF Row
  <2>3. LET row == [job[k] EXCEPT !.due = TRUE]
        IN  /\ row.status = job[k].status /\ row.lockedBy = job[k].lockedBy
            /\ row.lockedAt = job[k].lockedAt
    BY <1>1 DEF Row
  <2>4. /\ job'[k].status = job[k].status /\ job'[k].lockedBy = job[k].lockedBy
        /\ job'[k].lockedAt \in {job[k].lockedAt, "stale"}
    BY <1>1, <1>7, <2>2, <2>3 DEF TimeStep, LeaseLapses, BackoffElapses
  <2> QED
    BY <1>1, <2>1, <2>4, LeaseFrame
<1>8. ASSUME NEW j \in Jobs, RetryStep(j)
      PROVE  LeasedJob(k)'
  <2>1. CASE k = j
    BY <1>1, <1>8, <2>1 DEF RetryStep, RetryRead, RetryCommit, RetryAbandoned, LeasedJob
  <2>2. CASE k # j
    <3>1. /\ job'[k] = job[k] /\ UNCHANGED <<phase, seen>>
          /\ retrySeen'[k] = retrySeen[k]
      BY <1>1, <1>8, <2>2 DEF RetryStep, RetryRead, RetryCommit, RetryAbandoned
    <3> QED
      BY <1>1, <3>1, LeaseFrame
  <2> QED
    BY <2>1, <2>2
<1>9. ASSUME NEW w \in Workers, Crash(w)
      PROVE  LeasedJob(k)'
  <2>1. UNCHANGED <<job, retrySeen>>
    BY <1>9 DEF Crash
  <2>2. \A n \in Attempts : phase'[<<k, n>>] \in {"finishing", "failing"} =>
            phase'[<<k, n>>] = phase[<<k, n>>] /\ seen'[<<k, n>>] = seen[<<k, n>>]
    BY <1>2, <1>9 DEF Crash
  <2> QED
    BY <1>1, <2>1, <2>2, LeaseFrame
<1>10. CASE UNCHANGED vars
  BY <1>1, <1>10, LeaseFrame DEF vars
<1> QED
  BY <1>3, <1>4, <1>5, <1>6, <1>7, <1>8, <1>9, <1>10 DEF Next

\* A running row of a job nobody retries by hand always has an owner and a lock
\* time, even when leases lapse under live runs and stale sessions write over rows.
THEOREM RunningLeased == Spec => []RunningIsLeased
<1>1. Init => LeaseInv
  BY DEF Init, LeaseInv, LeasedJob, Unattended, Unowned, AbsentRow, Runs
<1>2. LeaseInv => RunningIsLeased
  BY DEF LeaseInv, LeasedJob, RunningIsLeased, Leased, Unowned
<1> QED
  BY <1>1, <1>2, LeaseStep, TypeCorrect, PTL DEF Spec

-----------------------------------------------------------------------------
(* One run at work *)

\* What makes OneRunAtWork inductive, job by job: the run at work is the latest
\* attempt, its row is its own (or, when finish_job raised after the commit was
\* applied, succeeded) and its lease has not lapsed, so that claim_job passes
\* the row over; and the row a session is about to write back is the row as it
\* still is, but for the renewals of the lease.
ExclusiveJob(j) ==
    /\ \A n \in Attempts : AtWork(<<j, n>>) => n = job[j].attempts /\ job[j].lockedAt # "stale"
    /\ \A n \in Attempts : phase[<<j, n>>] \in {"running", "finishing", "failing"} => Owns(j, n)
    /\ \A n \in Attempts : phase[<<j, n>>] = "raised" => Owns(j, n) \/ job[j].status = "succeeded"
    /\ \A n \in Attempts : phase[<<j, n>>] \in {"finishing", "failing"} =>
                              seen[<<j, n>>].attempts = job[j].attempts
    /\ job[j].status = "queued" => job[j].attempts < MaxAttempts[j]
    /\ job[j].status = "absent" => job[j].attempts = 0 /\ job[j].result = 0
ExclusiveInv == \A j \in Exclusive : ExclusiveJob(j)

\* A step that leaves a job's row and its runs alone keeps it so.
LEMMA ExclusiveFrame ==
    ASSUME NEW j \in Jobs, ExclusiveJob(j), job'[j] = job[j],
           \A n \in Attempts : /\ phase'[<<j, n>>] = phase[<<j, n>>]
                               /\ runner'[<<j, n>>] = runner[<<j, n>>]
                               /\ seen'[<<j, n>>] = seen[<<j, n>>]
    PROVE  ExclusiveJob(j)'
  BY DEF ExclusiveJob, AtWork, Owns

LEMMA ClaimExclusive ==
    ASSUME TypeOK, NEW w \in Workers, NEW j \in Jobs, Claim(w, j), ExclusiveJob(j)
    PROVE  ExclusiveJob(j)'
<1> USE DEF TypeOK
<1>1. \A n \in Attempts : ~AtWork(<<j, n>>)
  BY DEF Claim, Claimable, ExclusiveJob, Owns, AtWork
<1>2. /\ job'[j].attempts = job[j].attempts + 1
      /\ job'[j].status = "running"
      /\ job'[j].lockedBy = w
      /\ job'[j].lockedAt = "fresh"
  BY DEF Claim, Row
<1>3. <<j, job[j].attempts + 1>> \in Runs
  BY DEF Claim, Claimable, Row, Attempts, Runs
<1>4. \A n \in Attempts :
          /\ phase'[<<j, n>>] = IF n = job[j].attempts + 1 THEN "running" ELSE phase[<<j, n>>]
          /\ n = job[j].attempts + 1 => runner'[<<j, n>>] = w
  BY <1>3 DEF Claim, Runs
<1> QED
  BY <1>1, <1>2, <1>4 DEF ExclusiveJob, AtWork, Owns

\* The steps of a task.  The other runs of the job are not at work.
LEMMA RunExclusive ==
    ASSUME TypeOK, SessionsHoldRows, NEW j \in Jobs, LeasedJob(j),
           NEW n \in Attempts, RunStep(j, n), ExclusiveJob(j)
    PROVE  ExclusiveJob(j)'
<1> USE DEF TypeOK
<1>1. <<j, n>> \in Runs /\ \A m \in Attempts : <<j, m>> \in Runs
  BY DEF Runs
<1>2. CASE FinishRead(j, n)
  BY <1>1, <1>2 DEF FinishRead, ExclusiveJob, AtWork, Owns
<1>3. CASE FailRead(j, n)
  BY <1>1, <1>3 DEF FailRead, ExclusiveJob, AtWork, Owns
<1>4. CASE FailRaises(j, n) \/ Close(j, n)
  BY ZenonT(40), <1>1, <1>4 DEF FailRaises, Close, ExclusiveJob, AtWork, Owns
<1>5. CASE FinishCommit(j, n) \/ FinishRaises(j, n)
  <2>1. seen[<<j, n>>] \in Row /\ Leased(seen[<<j, n>>])
    BY <1>1, <1>5 DEF FinishCommit, FinishRaises, SessionsHoldRows, LeasedJob
  <2>2. /\ Finished(job[j], seen[<<j, n>>], n).status = "succeeded"
        /\ Finished(job[j], seen[<<j, n>>], n).lockedAt = "none"
        /\ Finished(job[j], seen[<<j, n>>], n).attempts = job[j].attempts
    <3>1. job[j] \in Row
      OBVIOUS
    <3>2. /\ Finished(job[j], seen[<<j, n>>], n).status = "succeeded"
          /\ Finished(job[j], seen[<<j, n>>], n).lockedAt = "none"
      BY <2>1, <3>1, WrittenBack
    <3>3. Finished(job[j], seen[<<j, n>>], n).attempts = job[j].attempts
      BY ZenonT(40), <2>1, <3>1, FinishedType
    <3> QED
      BY <3>2, <3>3
  <2>3. n = job[j].attempts /\ \A m \in Attempts : AtWork(<<j, m>>) => m = n
    BY <1>5 DEF FinishCommit, FinishRaises, ExclusiveJob, AtWork
  <2>4. \A m \in Attempts : m # n => phase'[<<j, m>>] = phase[<<j, m>>]
    BY <1>1, <1>5 DEF FinishCommit, FinishRaises
  <2>5. phase'[<<j, n>>] \in {"closing", "raised"} /\ UNCHANGED runner
    BY <1>1, <1>5 DEF FinishCommit, FinishRaises
  <2>6. \/ job'[j] = Finished(job[j], seen[<<j, n>>], n)
        \/ job'[j] = job[j] /\ FinishRaises(j, n)
    BY <1>5 DEF FinishCommit, FinishRaises
  <2>7. CASE job'[j] = Finished(job[j], seen[<<j, n>>], n)
    BY <2>2, <2>3, <2>4, <2>5, <2>7 DEF ExclusiveJob, AtWork, Owns
  <2>8. CASE job'[j] = job[j] /\ FinishRaises(j, n)
    <3>1. Owns(j, n) /\ phase[<<j, n>>] = "finishing"
      BY <2>8 DEF FinishRaises, ExclusiveJob
    <3> QED
      BY <2>3, <2>4, <2>5, <2>8, <3>1 DEF ExclusiveJob, AtWork, Owns
  <2> QED
    BY <2>6, <2>7, <2>8
<1>6. CASE FailCommit(j, n)
  <2>1. /\ seen[<<j, n>>] \in Row /\ Leased(seen[<<j, n>>])
        /\ seen[<<j, n>>].attempts = job[j].attempts
    BY <1>1, <1>6 DEF FailCommit, SessionsHoldRows, LeasedJob, ExclusiveJob
  <2>2. /\ Failed(job[j], seen[<<j, n>>], j).status \in {"queued", "failed"}
        /\ Failed(job[j], seen[<<j, n>>], j).status = "queued" =>
              ~(job[j].attempts >= MaxAttempts[j])
        /\ Failed(job[j], seen[<<j, n>>], j).attempts = job[j].attempts
    <3>1. job[j] \in Row
      OBVIOUS
    <3>2. Failed(job[j], seen[<<j, n>>], j).status
            = IF seen[<<j, n>>].attempts >= MaxAttempts[j] THEN "failed" ELSE "queued"
      BY <2>1, <3>1, WrittenBack
    <3>3. Failed(job[j], seen[<<j, n>>], j).attempts = job[j].attempts
      BY <2>1, <3>1, FailedType
    <3> QED
      BY <2>1, <3>2, <3>3
  <2>3. \A m \in Attempts : AtWork(<<j, m>>) => m = n
    BY <1>6 DEF FailCommit, ExclusiveJob, AtWork
  <2>4. \A m \in Attempts : m # n => phase'[<<j, m>>] = phase[<<j, m>>]
    BY <1>1, <1>6 DEF FailCommit
  <2>5. phase'[<<j, n>>] = "closing" /\ job'[j] = Failed(job[j], seen[<<j, n>>], j)
    BY <1>1, <1>6 DEF FailCommit
  <2>6. job[j].attempts \in Nat /\ MaxAttempts[j] \in Nat
    BY DEF Row, Attempts
  <2> QED
    BY <2>2, <2>3, <2>4, <2>5, <2>6 DEF ExclusiveJob, AtWork, Owns
<1> QED
  BY <1>2, <1>3, <1>4, <1>5, <1>6 DEF RunStep

LEMMA ExclusiveStep ==
    ASSUME TypeOK, SessionsHoldRows, LeaseInv, ExclusiveInv, [Next]_vars
    PROVE  ExclusiveInv'
<1> SUFFICES ASSUME NEW k \in Exclusive
             PROVE  ExclusiveJob(k)'
  BY DEF ExclusiveInv, Exclusive
<1>1. /\ k \in Jobs /\ k \in HeldJobs /\ k \notin RetryJobs
      /\ ExclusiveJob(k) /\ LeasedJob(k)
  BY DEF ExclusiveInv, LeaseInv, Exclusive, Unattended
<1> USE DEF TypeOK
<1>2. \A n \in Attempts : <<k, n>> \in Runs
  BY <1>1 DEF Runs
<1>3. ASSUME NEW j \in Jobs, Enqueue(j)
      PROVE  ExclusiveJob(k)'
  <2>1. CASE k # j \/ Exists(j)
    BY <1>1, <1>3, <2>1, ExclusiveFrame DEF Enqueue
  <2>2. CASE k = j /\ ~Exists(j)
    <3>1. \A n \in Attempts : ~AtWork(<<k, n>>)
      BY <1>1, <2>2 DEF ExclusiveJob, AtWork, Owns, Exists
    <3>2. job'[k].status = "queued" /\ job'[k].attempts = 0
      BY <1>3, <2>2 DEF Enqueue, NewRow
    <3>3. 0 < MaxAttempts[k]
      BY <1>1 DEF Attempts
    <3>4. UNCHANGED phase
      BY <1>3 DEF Enqueue
    <3> QED
      BY <3>1, <3>2, <3>3, <3>4 DEF ExclusiveJob, AtWork
  <2> QED
    BY <2>1, <2>2
<1>4. ASSUME NEW w \in Workers, NEW j \in Jobs, Claim(w, j)
      PROVE  ExclusiveJob(k)'
  <2>1. CASE k = j
    BY <1>1, <1>4, <2>1, ClaimExclusive
  <2>2. CASE k # j
    BY <1>1, <1>2, <1>4, <2>2, ExclusiveFrame DEF Claim
  <2> QED
    BY <2>1, <2>2
<1>5. ASSUME NEW j \in Jobs, NEW n \in Attempts, RunStep(j, n)
      PROVE  ExclusiveJob(k)'
  <2>1. CASE k = j
    BY <1>1, <1>5, <2>1, RunExclusive
  <2>2. CASE k # j
    BY <1>1, <1>2, <1>5, <2>2, ExclusiveFrame
       DEF RunStep, FinishRead, FinishCommit, FinishRaises, FailRead, FailCommit,
           FailRaises, Close
  <2> QED
    BY <2>1, <2>2
<1>6. ASSUME NEW j \in Jobs, NEW n \in Attempts, HeartbeatStep(j, n)
      PROVE  ExclusiveJob(k)'
  <2>1. UNCHANGED <<phase, runner, seen>>
    BY <1>6 DEF HeartbeatStep, HeartbeatRead, HeartbeatCommit, HeartbeatRaises
  <2>2. /\ job'[k].status = job[k].status /\ job'[k].attempts = job[k].attempts
        /\ job'[k].lockedBy = job[k].lockedBy /\ job'[k].result = job[k].result
        /\ job'[k].lockedAt \in {job[k].lockedAt, "fresh"}
    <3>1. LET row == [job[k] EXCEPT !.lockedAt = "fresh"]
          IN  /\ row.status = job[k].status /\ row.attempts = job[k].attempts
              /\ row.lockedBy = job[k].lockedBy /\ row.lockedAt = "fresh"
              /\ row.result = job[k].result
      BY <1>1 DEF Row
    <3> QED
      BY <1>1, <1>6, <3>1 DEF HeartbeatStep, HeartbeatRead, HeartbeatCommit, HeartbeatRaises
  <2> QED
    BY <1>1, <2>1, <2>2 DEF ExclusiveJob, AtWork, Owns
<1>7. ASSUME NEW j \in Jobs, TimeStep(j)
      PROVE  ExclusiveJob(k)'
  <2>1. UNCHANGED <<phase, runner, seen>>
    BY <1>7 DEF TimeStep, LeaseLapses, BackoffElapses
  <2>2. /\ job'[k].status = job[k].status /\ job'[k].attempts = job[k].attempts
        /\ job'[k].lockedBy = job[k].lockedBy /\ job'[k].result = job[k].result
        /\ \/ job'[k].lockedAt = job[k].lockedAt
           \/ \A n \in Attempts : ~AtWork(<<k, n>>)
    <3>1. LET row == [job[k] EXCEPT !.lockedAt = "stale"]
          IN  /\ row.status = job[k].status /\ row.attempts = job[k].attempts
              /\ row.lockedBy = job[k].lockedBy /\ row.result = job[k].result
      BY <1>1 DEF Row
    <3>2. LET row == [job[k] EXCEPT !.due = TRUE]
          IN  /\ row.status = job[k].status /\ row.attempts = job[k].attempts
              /\ row.lockedBy = job[k].lockedBy /\ row.lockedAt = job[k].lockedAt
              /\ row.result = job[k].result
      BY <1>1 DEF Row
    <3> QED
      BY <1>1, <1>7, <3>1, <3>2 DEF TimeStep, LeaseLapses, BackoffElapses
  <2> QED
    BY <1>1, <2>1, <2>2 DEF ExclusiveJob, AtWork, Owns
<1>8. ASSUME NEW j \in Jobs, RetryStep(j)
      PROVE  ExclusiveJob(k)'
  BY <1>1, <1>8, ExclusiveFrame DEF RetryStep, RetryRead, RetryCommit, RetryAbandoned, LeasedJob
<1>9. ASSUME NEW w \in Workers, Crash(w)
      PROVE  ExclusiveJob(k)'
  <2>1. UNCHANGED <<job, runner>>
    BY <1>9 DEF Crash
  <2>2. \A n \in Attempts :
            \/ phase'[<<k, n>>] = "over"
            \/ phase'[<<k, n>>] = phase[<<k, n>>] /\ seen'[<<k, n>>] = seen[<<k, n>>]
    BY <1>2, <1>9 DEF Crash
  <2> QED
    BY <1>1, <2>1, <2>2 DEF ExclusiveJob, AtWork, Owns
<1>10. CASE UNCHANGED vars
  BY <1>1, <1>10, ExclusiveFrame DEF vars
<1> QED
  BY <1>3, <1>4, <1>5, <1>6, <1>7, <1>8, <1>9, <1>10 DEF Next

\* The invariants above hold together.
LEMMA AllInvariants == Spec => [](TypeOK /\ SessionsHoldRows /\ LeaseInv /\ ExclusiveInv)
<1>1. Init => LeaseInv /\ ExclusiveInv
  BY DEF Init, LeaseInv, LeasedJob, Unattended, Unowned, ExclusiveInv, Exclusive,
         ExclusiveJob, AtWork, AbsentRow, Runs
<1> QED
  BY <1>1, LeaseStep, ExclusiveStep, TypeCorrect, PTL DEF Spec

\* While its leases hold and nobody retries it by hand, two runs of a job are
\* never at work at the same time, and the row is that of the run at work.
THEOREM OneRunAtATime == Spec => []OneRunAtWork
<1>1. ExclusiveInv => OneRunAtWork
  BY DEF ExclusiveInv, ExclusiveJob, OneRunAtWork
<1> QED
  BY <1>1, AllInvariants, PTL

\* While its leases hold and nobody retries it by hand, no job waits in the queue
\* with its attempts spent, where claim_job would pass it over for ever.
THEOREM QueuedCanRun == Spec => []QueuedHasAttemptLeft
<1>1. ExclusiveInv => QueuedHasAttemptLeft
  BY DEF ExclusiveInv, ExclusiveJob, QueuedHasAttemptLeft
<1> QED
  BY <1>1, AllInvariants, PTL

-----------------------------------------------------------------------------
(* The queue implements the ledger *)

\* A step that leaves status, attempts and result of every row alone is a
\* stuttering step of the ledger.
LEMMA LedgerStutter ==
    ASSUME \A k \in Exclusive : /\ job'[k].status = job[k].status
                           /\ job'[k].attempts = job[k].attempts
                           /\ job'[k].result = job[k].result
    PROVE  UNCHANGED Ledger!ledgerVars
  BY DEF Ledger!ledgerVars

\* A step that writes one row writes one entry of each ledger variable, and
\* leaves alone those whose column it leaves alone.
LEMMA LedgerWrite ==
    ASSUME TypeOK, NEW j \in Exclusive, \A k \in Exclusive : k # j => job'[k] = job[k]
    PROVE  /\ [k \in Exclusive |-> LedgerState(job[k].status)]'
                = [[k \in Exclusive |-> LedgerState(job[k].status)]
                      EXCEPT ![j] = LedgerState(job'[j].status)]
           /\ [k \in Exclusive |-> job[k].attempts]'
                = [[k \in Exclusive |-> job[k].attempts] EXCEPT ![j] = job'[j].attempts]
           /\ [k \in Exclusive |-> job[k].result]'
                = [[k \in Exclusive |-> job[k].result] EXCEPT ![j] = job'[j].result]
           /\ job'[j].attempts = job[j].attempts =>
                 [k \in Exclusive |-> job[k].attempts]' = [k \in Exclusive |-> job[k].attempts]
           /\ job'[j].result = job[j].result =>
                 [k \in Exclusive |-> job[k].result]' = [k \in Exclusive |-> job[k].result]
           /\ [k \in Exclusive |-> LedgerState(job[k].status)][j] = LedgerState(job[j].status)
           /\ [k \in Exclusive |-> job[k].attempts][j] = job[j].attempts
<1>1. \A k \in Exclusive \ {j} : LedgerState(job'[k].status) = LedgerState(job[k].status)
  OBVIOUS
<1>2. /\ [k \in Exclusive |-> LedgerState(job[k].status)]'
            = [[k \in Exclusive |-> LedgerState(job[k].status)]
                  EXCEPT ![j] = LedgerState(job'[j].status)]
      /\ [k \in Exclusive |-> job[k].attempts]'
            = [[k \in Exclusive |-> job[k].attempts] EXCEPT ![j] = job'[j].attempts]
      /\ [k \in Exclusive |-> job[k].result]'
            = [[k \in Exclusive |-> job[k].result] EXCEPT ![j] = job'[j].result]
  BY <1>1
<1>3. /\ job'[j].attempts = job[j].attempts =>
            [k \in Exclusive |-> job[k].attempts]' = [k \in Exclusive |-> job[k].attempts]
      /\ job'[j].result = job[j].result =>
            [k \in Exclusive |-> job[k].result]' = [k \in Exclusive |-> job[k].result]
  OBVIOUS
<1> QED
  BY <1>2, <1>3

LEMMA LedgerStates ==
    /\ LedgerState("absent") = "absent" /\ LedgerState("queued") = "waiting"
    /\ LedgerState("running") = "active" /\ LedgerState("succeeded") = "done"
    /\ LedgerState("failed") = "dead"
  BY DEF LedgerState

\* The entry of a row that is written moves to the ledger state of its status.
LEMMA LedgerMoves ==
    ASSUME TypeOK, NEW j \in Exclusive, \A k \in Exclusive : k # j => job'[k] = job[k],
           NEW moved, LedgerState(job'[j].status) = moved
    PROVE  [k \in Exclusive |-> LedgerState(job[k].status)]'
             = [[k \in Exclusive |-> LedgerState(job[k].status)] EXCEPT ![j] = moved]
<1>1. [k \in Exclusive |-> LedgerState(job[k].status)]'
        = [[k \in Exclusive |-> LedgerState(job[k].status)] EXCEPT ![j] = LedgerState(job'[j].status)]
  BY LedgerWrite
<1> QED
  BY <1>1

\* The steps that are steps of the ledger, one by one.
LEMMA EnqueueSubmits ==
    ASSUME TypeOK, NEW j \in Jobs, j \in Exclusive, Enqueue(j), ~Exists(j), ExclusiveJob(j)
    PROVE  Ledger!Submit(j)
<1> USE DEF TypeOK
<1>1. /\ job[j].status = "absent" /\ job[j].attempts = 0 /\ job[j].result = 0
      /\ job'[j].status = "queued" /\ job'[j].attempts = 0 /\ job'[j].result = 0
  BY DEF Exists, ExclusiveJob, Enqueue, NewRow
<1>2. \A k \in Exclusive : k # j => job'[k] = job[k]
  BY DEF Enqueue, Exclusive
<1>3. [k \in Exclusive |-> LedgerState(job[k].status)][j] = "absent"
  BY <1>1, LedgerStates
<1>4. [k \in Exclusive |-> LedgerState(job[k].status)]'
        = [[k \in Exclusive |-> LedgerState(job[k].status)] EXCEPT ![j] = "waiting"]
  BY <1>1, <1>2, LedgerMoves, LedgerStates
<1>5. /\ [k \in Exclusive |-> job[k].attempts]' = [k \in Exclusive |-> job[k].attempts]
      /\ [k \in Exclusive |-> job[k].result]' = [k \in Exclusive |-> job[k].result]
  BY <1>1, <1>2, LedgerWrite
<1> QED
  BY <1>3, <1>4, <1>5 DEF Ledger!Submit

LEMMA ClaimBegins ==
    ASSUME TypeOK, NEW w \in Workers, NEW j \in Jobs, j \in Exclusive, Claim(w, j)
    PROVE  Ledger!Begin(j)
<1> USE DEF TypeOK
<1>1. /\ job[j].status \in {"queued", "running"} /\ job[j].attempts < MaxAttempts[j]
      /\ job'[j].status = "running" /\ job'[j].attempts = job[j].attempts + 1
      /\ job'[j].result = job[j].result
  BY DEF Claim, Claimable, Row
<1>2. \A k \in Exclusive : k # j => job'[k] = job[k]
  BY DEF Claim, Exclusive
<1>3. [k \in Exclusive |-> LedgerState(job[k].status)][j] \in {"waiting", "active"}
  BY <1>1, LedgerStates
<1>4. [k \in Exclusive |-> job[k].attempts][j] = job[j].attempts
  OBVIOUS
<1>5. [k \in Exclusive |-> LedgerState(job[k].status)]'
        = [[k \in Exclusive |-> LedgerState(job[k].status)] EXCEPT ![j] = "active"]
  BY <1>1, <1>2, LedgerMoves, LedgerStates
<1>6. [k \in Exclusive |-> job[k].attempts]'
        = [[k \in Exclusive |-> job[k].attempts] EXCEPT ![j] = @ + 1]
  <2>1. [k \in Exclusive |-> job[k].attempts]'
          = [[k \in Exclusive |-> job[k].attempts] EXCEPT ![j] = job'[j].attempts]
    BY <1>2, LedgerWrite
  <2> QED
    BY <2>1, <1>1, <1>4
<1>7. [k \in Exclusive |-> job[k].result]' = [k \in Exclusive |-> job[k].result]
  BY <1>1, <1>2, LedgerWrite
<1> QED
  BY <1>1, <1>3, <1>4, <1>5, <1>6, <1>7 DEF Ledger!Begin

LEMMA FinishSucceeds ==
    ASSUME TypeOK, SessionsHoldRows,
           NEW j \in Jobs, j \in Exclusive, NEW n \in Attempts, LeasedJob(j), ExclusiveJob(j),
           phase[<<j, n>>] = "finishing",
           job' = [job EXCEPT ![j] = Finished(@, seen[<<j, n>>], n)]
    PROVE  Ledger!Succeed(j)
<1>1. <<j, n>> \in Runs
  BY DEF Runs
<1>2. /\ seen[<<j, n>>] \in Row /\ Leased(seen[<<j, n>>])
      /\ job[j] \in Row
  BY <1>1 DEF SessionsHoldRows, LeasedJob, TypeOK
<1>3. /\ Finished(job[j], seen[<<j, n>>], n).attempts = job[j].attempts
      /\ Finished(job[j], seen[<<j, n>>], n).result = n
  BY ZenonT(40), <1>2, FinishedType
<1> USE DEF TypeOK
<1>4. Finished(job[j], seen[<<j, n>>], n).status = "succeeded"
  BY <1>2, WrittenBack
<1>5. job[j].status = "running" /\ n = job[j].attempts
  BY DEF ExclusiveJob, AtWork, Owns
<1>6. /\ \A k \in Exclusive : k # j => job'[k] = job[k]
      /\ job'[j] = Finished(job[j], seen[<<j, n>>], n)
  BY DEF Exclusive
<1>7. [k \in Exclusive |-> LedgerState(job[k].status)][j] = "active"
  BY <1>5, LedgerStates
<1>8. [k \in Exclusive |-> LedgerState(job[k].status)]'
        = [[k \in Exclusive |-> LedgerState(job[k].status)] EXCEPT ![j] = "done"]
  BY <1>4, <1>6, LedgerMoves, LedgerStates
<1>9. [k \in Exclusive |-> job[k].attempts]' = [k \in Exclusive |-> job[k].attempts]
  BY <1>3, <1>6, LedgerWrite
<1>10. [k \in Exclusive |-> job[k].result]'
         = [[k \in Exclusive |-> job[k].result] EXCEPT ![j] = [k \in Exclusive |-> job[k].attempts][j]]
  <2>1. [k \in Exclusive |-> job[k].result]'
          = [[k \in Exclusive |-> job[k].result] EXCEPT ![j] = job'[j].result]
    BY <1>6, LedgerWrite
  <2>2. job'[j].result = [k \in Exclusive |-> job[k].attempts][j]
    BY <1>3, <1>5, <1>6
  <2> QED
    BY <2>1, <2>2
<1> QED
  BY <1>7, <1>8, <1>9, <1>10 DEF Ledger!Succeed

LEMMA FailGivesBackOrUp ==
    ASSUME TypeOK, SessionsHoldRows, AttemptsCountRuns,
           NEW j \in Jobs, j \in Exclusive, NEW n \in Attempts, LeasedJob(j), ExclusiveJob(j),
           FailCommit(j, n)
    PROVE  Ledger!GiveBack(j) \/ Ledger!GiveUp(j)
<1> USE DEF TypeOK
<1>1. <<j, n>> \in Runs
  BY DEF Runs
<1>2. /\ seen[<<j, n>>] \in Row /\ Leased(seen[<<j, n>>])
      /\ job[j] \in Row
      /\ seen[<<j, n>>].attempts = job[j].attempts
  BY <1>1 DEF FailCommit, SessionsHoldRows, LeasedJob, ExclusiveJob
<1>3. /\ Failed(job[j], seen[<<j, n>>], j).attempts = job[j].attempts
      /\ Failed(job[j], seen[<<j, n>>], j).result = job[j].result
  BY <1>2, FailedType
<1>4. Failed(job[j], seen[<<j, n>>], j).status
        = IF job[j].attempts >= MaxAttempts[j] THEN "failed" ELSE "queued"
  BY <1>2, WrittenBack
<1>5. job[j].status = "running"
  BY DEF FailCommit, ExclusiveJob, Owns
<1>6. /\ \A k \in Exclusive : k # j => job'[k] = job[k]
      /\ job'[j] = Failed(job[j], seen[<<j, n>>], j)
  BY DEF FailCommit, Exclusive
<1>7. /\ job[j].attempts \in Nat /\ MaxAttempts[j] \in Nat
      /\ job[j].attempts <= MaxAttempts[j]
  BY DEF Row, Attempts, AttemptsCountRuns
<1>8. /\ [k \in Exclusive |-> LedgerState(job[k].status)][j] = "active"
      /\ [k \in Exclusive |-> job[k].attempts][j] = job[j].attempts
  BY <1>5, LedgerStates
<1>9. /\ [k \in Exclusive |-> job[k].attempts]' = [k \in Exclusive |-> job[k].attempts]
      /\ [k \in Exclusive |-> job[k].result]' = [k \in Exclusive |-> job[k].result]
  BY <1>3, <1>6, LedgerWrite
<1>10. CASE job[j].attempts >= MaxAttempts[j]
  <2>1. [k \in Exclusive |-> LedgerState(job[k].status)]'
          = [[k \in Exclusive |-> LedgerState(job[k].status)] EXCEPT ![j] = "dead"]
    BY <1>4, <1>6, <1>10, LedgerMoves, LedgerStates
  <2>2. job[j].attempts = MaxAttempts[j]
    BY <1>7, <1>10
  <2> QED
    BY <1>8, <1>9, <2>1, <2>2 DEF Ledger!GiveUp
<1>11. CASE ~(job[j].attempts >= MaxAttempts[j])
  <2>1. [k \in Exclusive |-> LedgerState(job[k].status)]'
          = [[k \in Exclusive |-> LedgerState(job[k].status)] EXCEPT ![j] = "waiting"]
    BY <1>4, <1>6, <1>11, LedgerMoves, LedgerStates
  <2>2. job[j].attempts < MaxAttempts[j]
    BY <1>7, <1>11
  <2> QED
    BY <1>8, <1>9, <2>1, <2>2 DEF Ledger!GiveBack
<1> QED
  BY <1>10, <1>11

\* A change of the lock time or of the due flag shows in no column of the ledger.
LEMMA TimesOnly ==
    ASSUME TypeOK, NEW j \in Jobs, NEW at, NEW when,
           \/ job' = [job EXCEPT ![j].lockedAt = at]
           \/ job' = [job EXCEPT ![j].due = when]
           \/ job' = job
    PROVE  UNCHANGED Ledger!ledgerVars
<1>1. ASSUME NEW k \in Exclusive
      PROVE  /\ job'[k].status = job[k].status
             /\ job'[k].attempts = job[k].attempts
             /\ job'[k].result = job[k].result
  <2>1. job \in [Jobs -> Row] /\ k \in Jobs /\ job[k] \in Row
    BY DEF TypeOK, Exclusive
  <2>2. \/ job'[k] = [job[k] EXCEPT !.lockedAt = at]
        \/ job'[k] = [job[k] EXCEPT !.due = when]
        \/ job'[k] = job[k]
    BY <2>1
  <2> QED
    BY <2>1, <2>2 DEF Row
<1> QED
  BY <1>1, LedgerStutter

\* A step that leaves alone the rows of the jobs whose leases hold.
LEMMA OthersStutter ==
    ASSUME NEW j \in Jobs \ Exclusive, \A k \in Jobs : k # j => job'[k] = job[k]
    PROVE  UNCHANGED Ledger!ledgerVars
<1>1. \A k \in Exclusive : k \in Jobs /\ k # j
  BY DEF Exclusive
<1> QED
  BY <1>1, LedgerStutter

\* The steps of a run, of a job whose leases hold.
LEMMA RunLedger ==
    ASSUME TypeOK, SessionsHoldRows, AttemptsCountRuns, NEW j \in Jobs, j \in Exclusive,
           LeasedJob(j), ExclusiveJob(j), NEW n \in Attempts, RunStep(j, n)
    PROVE  [Ledger!Next]_(Ledger!ledgerVars)
<1>1. CASE FinishCommit(j, n)
  <2>1. Ledger!Succeed(j)
    BY <1>1, FinishSucceeds DEF FinishCommit
  <2> QED
    BY <2>1 DEF Ledger!Next
<1>2. CASE FinishRaises(j, n)
  <2>1. CASE job' = [job EXCEPT ![j] = Finished(@, seen[<<j, n>>], n)]
    <3>1. Ledger!Succeed(j)
      BY <1>2, <2>1, FinishSucceeds DEF FinishRaises
    <3> QED
      BY <3>1 DEF Ledger!Next
  <2>2. CASE UNCHANGED job
    BY <2>2, LedgerStutter
  <2> QED
    BY <1>2, <2>1, <2>2 DEF FinishRaises
<1>3. CASE FailCommit(j, n)
  <2>1. Ledger!GiveBack(j) \/ Ledger!GiveUp(j)
    BY <1>3, FailGivesBackOrUp
  <2> QED
    BY <2>1 DEF Ledger!Next
<1>4. CASE FinishRead(j, n) \/ FailRead(j, n) \/ FailRaises(j, n) \/ Close(j, n)
  <2>1. UNCHANGED job
    BY <1>4 DEF FinishRead, FailRead, FailRaises, Close
  <2> QED
    BY <2>1, LedgerStutter
<1> QED
  BY <1>1, <1>2, <1>3, <1>4 DEF RunStep

\* Every step of the queue is a step of the ledger or a stutter.
LEMMA LedgerStep ==
    ASSUME TypeOK, SessionsHoldRows, LeaseInv, ExclusiveInv, AttemptsCountRuns, [Next]_vars
    PROVE  [Ledger!Next]_(Ledger!ledgerVars)
<1>1. \A j \in Exclusive : j \notin RetryJobs /\ LeasedJob(j) /\ ExclusiveJob(j)
  BY DEF ExclusiveInv, LeaseInv, Unattended, Exclusive
<1>2. ASSUME NEW j \in Jobs, Enqueue(j)
      PROVE  [Ledger!Next]_(Ledger!ledgerVars)
  <2>1. CASE Exists(j)
    <3>1. job' = job
      BY <1>2, <2>1 DEF Enqueue
    <3> QED
      BY <3>1, LedgerStutter
  <2>2. CASE ~Exists(j) /\ j \in Exclusive
    BY <1>1, <1>2, <2>2, EnqueueSubmits DEF Ledger!Next
  <2>3. CASE j \notin Exclusive
    <3>1. \A k \in Jobs : k # j => job'[k] = job[k]
      BY <1>2 DEF Enqueue, TypeOK
    <3> QED
      BY <2>3, <3>1, OthersStutter
  <2> QED
    BY <2>1, <2>2, <2>3
<1>3. ASSUME NEW j \in Jobs, TimeStep(j)
      PROVE  [Ledger!Next]_(Ledger!ledgerVars)
  <2>1. \/ job' = [job EXCEPT ![j].lockedAt = "stale"]
        \/ job' = [job EXCEPT ![j].due = TRUE]
    BY <1>3 DEF TimeStep, LeaseLapses, BackoffElapses
  <2> QED
    BY <2>1, TimesOnly
<1>4. ASSUME NEW w \in Workers, NEW j \in Jobs, Claim(w, j)
      PROVE  [Ledger!Next]_(Ledger!ledgerVars)
  <2>1. CASE j \in Exclusive
    BY <1>4, <2>1, ClaimBegins DEF Ledger!Next
  <2>2. CASE j \notin Exclusive
    <3>1. \A k \in Jobs : k # j => job'[k] = job[k]
      BY <1>4 DEF Claim, TypeOK
    <3> QED
      BY <2>2, <3>1, OthersStutter
  <2> QED
    BY <2>1, <2>2
<1>5. ASSUME NEW j \in Jobs, NEW n \in Attempts, RunStep(j, n)
      PROVE  [Ledger!Next]_(Ledger!ledgerVars)
  <2>1. CASE j \in Exclusive
    BY <1>1, <1>5, <2>1, RunLedger
  <2>2. CASE j \notin Exclusive
    <3>1. \A k \in Jobs : k # j => job'[k] = job[k]
      BY <1>5 DEF RunStep, FinishRead, FinishCommit, FinishRaises, FailRead, FailCommit,
                  FailRaises, Close, TypeOK
    <3> QED
      BY <2>2, <3>1, OthersStutter
  <2> QED
    BY <2>1, <2>2
<1>6. ASSUME NEW j \in Jobs, NEW n \in Attempts, HeartbeatStep(j, n)
      PROVE  [Ledger!Next]_(Ledger!ledgerVars)
  <2>1. job' = [job EXCEPT ![j].lockedAt = "fresh"] \/ job' = job
    BY <1>6 DEF HeartbeatStep, HeartbeatRead, HeartbeatCommit, HeartbeatRaises
  <2> QED
    BY <2>1, TimesOnly
<1>7. ASSUME NEW j \in Jobs, RetryStep(j)
      PROVE  [Ledger!Next]_(Ledger!ledgerVars)
  <2>1. UNCHANGED job \/ j \notin Exclusive
    BY <1>1, <1>7 DEF RetryStep, RetryRead, RetryCommit, RetryAbandoned, LeasedJob
  <2>2. \A k \in Jobs : k # j => job'[k] = job[k]
    BY <1>7 DEF RetryStep, RetryRead, RetryCommit, RetryAbandoned, TypeOK
  <2> QED
    BY <2>1, <2>2, LedgerStutter, OthersStutter
<1>8. ASSUME NEW w \in Workers, Crash(w)
      PROVE  [Ledger!Next]_(Ledger!ledgerVars)
  <2>1. UNCHANGED job
    BY <1>8 DEF Crash
  <2> QED
    BY <2>1, LedgerStutter
<1>9. CASE UNCHANGED vars
  <2>1. UNCHANGED job
    BY <1>9 DEF vars
  <2> QED
    BY <2>1, LedgerStutter
<1> QED
  BY <1>2, <1>3, <1>4, <1>5, <1>6, <1>7, <1>8, <1>9 DEF Next

\* To the jobs whose leases hold and which nobody retries by hand the queue keeps
\* the ledger's promises, whatever happens to the others: at most MaxAttempts
\* attempts, one at a time, and the outcome of the latest attempt recorded for
\* good.
THEOREM QueueImplementsLedger == Spec => ImplementsLedger
<1>1. Init => Ledger!Init
  BY LedgerStates DEF Init, AbsentRow, Exclusive, Ledger!Init
<1>2. TypeOK /\ SessionsHoldRows /\ LeaseInv /\ ExclusiveInv /\ AttemptsCountRuns /\ [Next]_vars
        => [Ledger!Next]_(Ledger!ledgerVars)
  BY LedgerStep
<1> QED
  BY <1>1, <1>2, AllInvariants, AttemptsBounded, PTL DEF Spec, ImplementsLedger, Ledger!Spec
=============================================================================
