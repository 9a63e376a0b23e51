---------------------------- MODULE AnalysisProofs ----------------------------
(***************************************************************************)
(* Theorems of AnalysisJobs.  What is proved of the queue holds of a queue  *)
(* of analyses, because each of its steps is a step of the queue or leaves  *)
(* the queue alone.                                                         *)
(***************************************************************************)
EXTENDS AnalysisJobs, JobQueueProofs

USE NoAnalysisAssumption

\* A step of the handler, or of a cancel request, leaves the queue alone.
LEMMA HandlerLeavesQueue ==
    ASSUME NEW j, NEW n, HandlerStep(j, n)
    PROVE  UNCHANGED vars
  BY DEF HandlerStep, HandlerReads, HandlerStarts, HandlerRefuses, HandlerRefreshes,
         HandlerStores, HandlerRaises, Goes

LEMMA AnalysisStepIsQueueStep ==
    ASSUME [AnalysisNext]_allVars
    PROVE  [Next]_vars
<1>1. ASSUME NEW j \in Jobs, Create(j) \/ CancelReads(j) \/ CancelCommits(j) \/ CancelFails(j)
      PROVE  [Next]_vars
  BY <1>1 DEF Create, CancelReads, CancelCommits, CancelFails, Next
<1>2. ASSUME NEW w \in Workers, NEW j \in Jobs, Claims(w, j)
      PROVE  [Next]_vars
  BY <1>2 DEF Claims, Next
<1>3. ASSUME NEW j \in Jobs, NEW n \in Attempts, TaskStep(j, n)
      PROVE  [Next]_vars
  <2>1. HandlerStep(j, n) => UNCHANGED vars
    BY HandlerLeavesQueue
  <2>2. ~HandlerStep(j, n) => RunStep(j, n)
    BY <1>3 DEF TaskStep, Finishes, FailReads, FailCommits, Abandons, Closes, RunStep
  <2> QED
    BY <2>1, <2>2 DEF Next
<1>4. ASSUME NEW w \in Workers, Dies(w)
      PROVE  [Next]_vars
  BY <1>4 DEF Dies, Next
<1>5. ASSUME QueueStep
      PROVE  [Next]_vars
  BY <1>5 DEF QueueStep, Next
<1>6. CASE UNCHANGED allVars
  BY <1>6 DEF allVars
<1> QED
  BY <1>1, <1>2, <1>3, <1>4, <1>5, <1>6 DEF AnalysisNext

\* A queue of analyses is a queue: its jobs go through the states JobQueue gives
\* them, and everything proved of JobQueue holds of it.
THEOREM AnalysesRunOnTheQueue == AnalysisSpec => Spec
<1>1. AnalysisInit => Init
  BY DEF AnalysisInit
<1> QED
  BY <1>1, AnalysisStepIsQueueStep, PTL DEF AnalysisSpec, Spec

-----------------------------------------------------------------------------
(* Types *)

LEMMA StatusType ==
    ASSUME NEW f \in [Jobs -> Analysis], NEW j \in Jobs, NEW status \in AnalysisStatus
    PROVE  /\ [f EXCEPT ![j].status = status] \in [Jobs -> Analysis]
           /\ [f EXCEPT ![j].status = status][j].status = status
           /\ \A k \in Jobs : k # j => [f EXCEPT ![j].status = status][k] = f[k]
  BY DEF Analysis

\* The analyses after any step are analyses.
LEMMA StepKeepsAnalyses ==
    ASSUME AnalysisTypeOK, [AnalysisNext]_allVars
    PROVE  analysis' \in [Jobs -> Analysis]
<1> USE DEF AnalysisTypeOK
<1>1. ASSUME NEW j \in Jobs, NEW status \in AnalysisStatus,
             analysis' = [analysis EXCEPT ![j].status = status]
      PROVE  analysis' \in [Jobs -> Analysis]
  BY <1>1, StatusType
<1>2. ASSUME NEW j \in Jobs, NEW read0, NEW status \in AnalysisStatus,
             analysis' = [analysis EXCEPT ![j].status = Put(@, read0, status)]
      PROVE  analysis' \in [Jobs -> Analysis]
  <2>1. analysis[j].status \in AnalysisStatus
    BY DEF Analysis
  <2>2. Put(analysis[j].status, read0, status) \in AnalysisStatus
    BY <2>1 DEF Put
  <2>3. analysis' = [analysis EXCEPT ![j].status = Put(analysis[j].status, read0, status)]
    BY <1>2
  <2> QED
    BY <2>2, <2>3, <1>1
<1>3. ASSUME NEW j \in Jobs, NEW n \in Attempts, StoresAnswer(j, n)
      PROVE  analysis' \in [Jobs -> Analysis]
  <2>1. analysis[j].status \in AnalysisStatus
    BY DEF Analysis
  <2>2. Put(analysis[j].status, read[<<j, n>>].status, "completed") \in AnalysisStatus
    BY <2>1 DEF Put, AnalysisStatus
  <2>3. n \in 0..AttemptLimit
    BY DEF Attempts
  <2> QED
    BY <1>3, <2>2, <2>3 DEF StoresAnswer, Analysis
<1>4. ASSUME NEW j \in Jobs, NEW n \in Attempts, HandlerStep(j, n)
      PROVE  analysis' \in [Jobs -> Analysis]
  <2>1. {"running", "failed"} \subseteq AnalysisStatus
    BY DEF AnalysisStatus
  <2>2. SetsStatus(j, n, "running") => analysis' \in [Jobs -> Analysis]
    BY <1>2, <2>1 DEF SetsStatus
  <2>3. SetsStatus(j, n, "failed") => analysis' \in [Jobs -> Analysis]
    BY <1>2, <2>1 DEF SetsStatus
  <2>4. \/ SetsStatus(j, n, "running") \/ SetsStatus(j, n, "failed")
        \/ StoresAnswer(j, n) \/ UNCHANGED analysis
    BY <1>4 DEF HandlerStep, HandlerReads, HandlerStarts, HandlerRefuses, HandlerRefreshes,
               HandlerStores, HandlerRaises
  <2> QED
    BY <1>3, <2>2, <2>3, <2>4
<1>5. ASSUME NEW j \in Jobs, NEW n \in Attempts, FailCommits(j, n)
      PROVE  analysis' \in [Jobs -> Analysis]
  <2>1. analysis[j].status \in AnalysisStatus
    BY DEF Analysis
  <2>2. Outcome(j, n) \in AnalysisStatus
    BY <2>1 DEF Outcome, Put, AnalysisStatus
  <2> QED
    BY <1>1, <1>5, <2>2 DEF FailCommits
<1>6. ASSUME NEW j \in Jobs, Create(j) \/ CancelReads(j) \/ CancelCommits(j) \/ CancelFails(j)
      PROVE  analysis' \in [Jobs -> Analysis]
  <2>1. {"queued", "cancelled"} \subseteq AnalysisStatus
    BY DEF AnalysisStatus
  <2>2. \/ UNCHANGED analysis
        \/ analysis' = [analysis EXCEPT ![j].status = "queued"]
        \/ analysis' = [analysis EXCEPT ![j].status = Put(@, cancelRead[j].status, "cancelled")]
    BY <1>6 DEF Create, CancelReads, CancelCommits, CancelFails
  <2> QED
    BY <2>1, <2>2, <1>1, <1>2
<1>7. ASSUME UNCHANGED analysis
      PROVE  analysis' \in [Jobs -> Analysis]
  BY <1>7
<1>8. ASSUME NEW j \in Jobs, NEW n \in Attempts, TaskStep(j, n)
      PROVE  analysis' \in [Jobs -> Analysis]
  BY <1>4, <1>5, <1>7, <1>8
     DEF TaskStep, Finishes, FailReads, Abandons, Closes, analysisVars
<1>9. ASSUME \/ \E w \in Workers, j \in Jobs : Claims(w, j)
             \/ \E w \in Workers : Dies(w)
             \/ QueueStep
             \/ UNCHANGED allVars
      PROVE  UNCHANGED analysis
  BY <1>9 DEF Claims, Dies, QueueStep, allVars, analysisVars
<1> QED
  BY <1>6, <1>7, <1>8, <1>9 DEF AnalysisNext

\* What the sessions of the handler hold after any step has its type.
HandlerTypes ==
    /\ citations \in [Jobs -> SUBSET Citation]
    /\ handler \in [Runs -> {"off", "entering", "starting", "asking", "storing",
                             "returned", "raised"}]
    /\ read \in [Runs -> Analysis \cup {NoRow}]
    /\ draft \in [Runs -> [cites : SUBSET Sources, deletes : SUBSET Citation]]
    /\ cancelRead \in [Jobs -> Analysis \cup {NoRow}]

LEMMA StepKeepsHandlers ==
    ASSUME AnalysisTypeOK, [AnalysisNext]_allVars
    PROVE  HandlerTypes'
<1> USE DEF AnalysisTypeOK
<1>0. NoDraft \in [cites : SUBSET Sources, deletes : SUBSET Citation]
  BY DEF NoDraft
<1>1. ASSUME NEW j \in Jobs, Create(j) \/ CancelReads(j) \/ CancelCommits(j) \/ CancelFails(j)
      PROVE  HandlerTypes'
  BY <1>1 DEF Create, CancelReads, CancelCommits, CancelFails, HandlerTypes
<1>2. ASSUME NEW w \in Workers, NEW j \in Jobs, Claims(w, j)
      PROVE  HandlerTypes'
  BY <1>2 DEF Claims, HandlerTypes
<1>3. ASSUME NEW w \in Workers, Dies(w)
      PROVE  HandlerTypes'
  BY <1>0, <1>3 DEF Dies, HandlerTypes
<1>4. ASSUME QueueStep \/ UNCHANGED allVars
      PROVE  HandlerTypes'
  BY <1>4 DEF QueueStep, allVars, analysisVars, HandlerTypes
<1>5. ASSUME NEW j \in Jobs, NEW n \in Attempts, StoresAnswer(j, n)
      PROVE  citations' \in [Jobs -> SUBSET Citation]
  <2>1. <<j, n>> \in Runs
    BY DEF Runs
  <2>2. Kept(j, n) \subseteq Citation
    BY DEF Kept
  <2>3. {n} \X draft[<<j, n>>].cites \subseteq Citation
    BY <2>1 DEF Citation
  <2> QED
    BY <1>5, <2>2, <2>3 DEF StoresAnswer
<1>6. ASSUME NEW j \in Jobs, NEW n \in Attempts, HandlerStep(j, n)
      PROVE  HandlerTypes'
  <2> <<j, n>> \in Runs
    BY DEF Runs
  <2>1. CASE HandlerReads(j, n)
    BY <2>1 DEF HandlerReads, Goes, HandlerTypes
  <2>2. CASE HandlerStarts(j, n) \/ HandlerRefuses(j, n)
    BY <2>2 DEF HandlerStarts, HandlerRefuses, Goes, HandlerTypes
  <2>3. ASSUME NEW cites \in ValidCites, HandlerRefreshes(j, n, cites)
        PROVE  HandlerTypes'
    <3>1. cites \in SUBSET Sources
      BY DEF ValidCites
    <3>2. [cites |-> cites, deletes |-> Deleted(j)]
             \in [cites : SUBSET Sources, deletes : SUBSET Citation]
      BY <3>1 DEF Deleted
    <3>3. CASE analysis[j].status = "cancelled"
      BY ZenonT(40), <2>3, <3>3 DEF HandlerRefreshes, Goes, HandlerTypes
    <3>4. CASE analysis[j].status # "cancelled"
      BY ZenonT(40), <2>3, <3>2, <3>4 DEF HandlerRefreshes, Goes, HandlerTypes
    <3> QED
      BY <3>3, <3>4
  <2>4. CASE HandlerStores(j, n)
    BY <1>0, <1>5, <2>4 DEF HandlerStores, Goes, HandlerTypes
  <2>5. CASE HandlerRaises(j, n)
    <3>1. citations' \in [Jobs -> SUBSET Citation]
      BY <1>5, <2>5 DEF HandlerRaises
    <3> QED
      BY <1>0, <2>5, <3>1 DEF HandlerRaises, Goes, HandlerTypes
  <2> QED
    BY <1>6, <2>1, <2>2, <2>3, <2>4, <2>5 DEF HandlerStep
<1>7. ASSUME NEW j \in Jobs, NEW n \in Attempts, TaskStep(j, n)
      PROVE  HandlerTypes'
  <2> <<j, n>> \in Runs
    BY DEF Runs
  <2>1. CASE Finishes(j, n) \/ Closes(j, n)
    BY <2>1 DEF Finishes, Closes, analysisVars, HandlerTypes
  <2>2. CASE FailReads(j, n) \/ FailCommits(j, n) \/ Abandons(j, n)
    BY <2>2 DEF FailReads, FailCommits, Abandons, HandlerTypes
  <2> QED
    BY <1>6, <1>7, <2>1, <2>2 DEF TaskStep
<1> QED
  BY <1>1, <1>2, <1>3, <1>4, <1>7 DEF AnalysisNext

\* Every reachable state of a queue of analyses has its type.
THEOREM AnalysisTypeCorrect == AnalysisSpec => []AnalysisTypeOK
<1>1. AnalysisInit => AnalysisTypeOK
  <2>1. [status |-> "absent", result |-> 0] \in Analysis
    BY AttemptsAssumption DEF Analysis, AnalysisStatus
  <2>2. AnalysisInit => TypeOK
    BY InitTypes DEF AnalysisInit
  <2> QED
    BY <2>1, <2>2 DEF AnalysisInit, AnalysisTypeOK, NoDraft
<1>2. AnalysisTypeOK /\ [AnalysisNext]_allVars /\ TypeOK' => AnalysisTypeOK'
  BY StepKeepsAnalyses, StepKeepsHandlers DEF AnalysisTypeOK, HandlerTypes
<1>3. AnalysisSpec => []TypeOK
  BY AnalysesRunOnTheQueue, TypeCorrect, PTL
<1> QED
  BY <1>1, <1>2, <1>3, PTL DEF AnalysisSpec

-----------------------------------------------------------------------------
(* An analysis and its job end together *)

\* A session of the n-th attempt is about to write the status it read.
Writing(j, n) ==
    \/ phase[<<j, n>>] = "running" /\ handler[<<j, n>>] \in {"starting", "storing"}
    \/ phase[<<j, n>>] = "failing"
\* The handler of the n-th attempt has returned, and its job is to succeed.
Answered(j, n) ==
    \/ phase[<<j, n>>] = "running" /\ handler[<<j, n>>] = "returned"
    \/ phase[<<j, n>>] = "finishing"

\* What makes SettledTogether inductive, job by job: next to the run at work
\* only a cancel request writes the analysis, so a status that was read is
\* still there, or it is "cancelled"; and what has been answered stays so.
SettledJob(j) ==
    /\ \A n \in Attempts : Writing(j, n) => analysis[j].status \in {read[<<j, n>>].status, "cancelled"}
    /\ \A n \in Attempts : Answered(j, n) => analysis[j].status \in {"completed", "cancelled"}
    /\ cancelRead[j] # NoRow => cancelRead[j].status # "cancelled"
    /\ job[j].status = "succeeded" => analysis[j].status \in {"completed", "cancelled"}
    /\ job[j].status = "failed" => analysis[j].status \in {"failed", "cancelled"}
SettledInv == \A j \in Exclusive : SettledJob(j)

\* A step that leaves alone the status of a job, its analysis and those of its
\* runs that it does not end.
LEMMA SettledFrame ==
    ASSUME NEW j, SettledJob(j),
           job'[j].status = job[j].status,
           analysis'[j] = analysis[j], cancelRead'[j] = cancelRead[j],
           \A n \in Attempts :
              \/ phase'[<<j, n>>] \in {"closing", "over", "raised"}
              \/ /\ phase'[<<j, n>>] = phase[<<j, n>>]
                 /\ handler'[<<j, n>>] = handler[<<j, n>>]
                 /\ read'[<<j, n>>] = read[<<j, n>>]
    PROVE  SettledJob(j)'
  BY DEF SettledJob, Writing, Answered

\* The run at work is the only one, and the job is not settled.
LEMMA RunAlone ==
    ASSUME NEW j, NEW n \in Attempts, ExclusiveJob(j), AtWork(<<j, n>>)
    PROVE  /\ \A m \in Attempts : m # n => ~AtWork(<<j, m>>) /\ ~Writing(j, m) /\ ~Answered(j, m)
           /\ phase[<<j, n>>] # "raised" => job[j].status = "running"
<1>1. \A m \in Attempts : m # n => ~AtWork(<<j, m>>)
  BY DEF ExclusiveJob
<1>2. phase[<<j, n>>] # "raised" => job[j].status = "running"
  BY DEF ExclusiveJob, AtWork, Owns
<1> QED
  BY <1>1, <1>2 DEF AtWork, Writing, Answered

\* A handler whose analysis somebody has cancelled since it read it overwrites
\* nothing else than that.
LEMMA HandlerSettles ==
    ASSUME AnalysisTypeOK, NEW j \in Jobs, ExclusiveJob(j), SettledJob(j),
           NEW n \in Attempts, HandlerStep(j, n)
    PROVE  SettledJob(j)'
<1> USE DEF AnalysisTypeOK
<1>1. <<j, n>> \in Runs /\ \A m \in Attempts : <<j, m>> \in Runs
  BY DEF Runs
<1>2. phase[<<j, n>>] = "running"
  BY DEF HandlerStep, HandlerReads, HandlerStarts, HandlerRefuses, HandlerRefreshes,
         HandlerStores, HandlerRaises, In
<1>3. UNCHANGED <<job, phase, cancelRead>>
  BY DEF HandlerStep, HandlerReads, HandlerStarts, HandlerRefuses, HandlerRefreshes,
         HandlerStores, HandlerRaises, Goes, vars
<1>4. /\ job[j].status = "running"
      /\ \A m \in Attempts : m # n => ~AtWork(<<j, m>>)
  BY <1>2, RunAlone DEF AtWork
<1>5. \A m \in Attempts : m # n => ~Writing(j, m)' /\ ~Answered(j, m)'
  BY <1>3, <1>4 DEF AtWork, Writing, Answered
<1>6. SUFFICES /\ Writing(j, n)' => analysis'[j].status \in {read'[<<j, n>>].status, "cancelled"}
               /\ Answered(j, n)' => analysis'[j].status \in {"completed", "cancelled"}
  BY <1>3, <1>4, <1>5 DEF SettledJob
<1>7. CASE HandlerReads(j, n) \/ \E cites \in ValidCites : HandlerRefreshes(j, n, cites)
  <2>1. \/ handler'[<<j, n>>] = "returned" /\ analysis[j].status = "cancelled"
        \/ read'[<<j, n>>] = analysis[j] /\ handler'[<<j, n>>] \in {"starting", "storing"}
    BY <1>1, <1>7 DEF HandlerReads, HandlerRefreshes, Goes
  <2>2. UNCHANGED analysis
    BY <1>7 DEF HandlerReads, HandlerRefreshes
  <2> QED
    BY <1>2, <1>3, <2>1, <2>2 DEF Writing, Answered
<1>8. CASE HandlerStarts(j, n) \/ HandlerRefuses(j, n) \/ HandlerRaises(j, n)
  <2>1. handler'[<<j, n>>] \in {"asking", "raised"}
    BY <1>1, <1>8 DEF HandlerStarts, HandlerRefuses, HandlerRaises, Goes
  <2> QED
    BY <1>2, <1>3, <2>1 DEF Writing, Answered
<1>9. CASE HandlerStores(j, n)
  <2>1. handler'[<<j, n>>] = "returned" /\ handler[<<j, n>>] = "storing"
    BY <1>1, <1>9 DEF HandlerStores, Goes, In
  <2>2. analysis'[j].status = Put(analysis[j].status, read[<<j, n>>].status, "completed")
    BY <1>9 DEF HandlerStores, StoresAnswer
  <2>3. analysis[j].status \in {read[<<j, n>>].status, "cancelled"}
    BY <1>2, <2>1 DEF SettledJob, Writing
  <2> QED
    BY <1>2, <1>3, <2>1, <2>2, <2>3 DEF Writing, Put
<1> QED
  BY <1>7, <1>8, <1>9 DEF HandlerStep

\* A cancel request cancels whatever the others have written meanwhile.
LEMMA RequestSettles ==
    ASSUME AnalysisTypeOK, NEW j \in Jobs, ExclusiveJob(j), SettledJob(j),
           Create(j) \/ CancelReads(j) \/ CancelCommits(j) \/ CancelFails(j)
    PROVE  SettledJob(j)'
<1> USE DEF AnalysisTypeOK
<1>1. UNCHANGED <<phase, handler, read>>
  BY DEF Create, Enqueue, CancelReads, CancelCommits, CancelFails, vars
<1>2. CASE Create(j) /\ Exists(j)
  BY <1>1, <1>2, SettledFrame DEF Create, Enqueue
<1>3. CASE Create(j) /\ ~Exists(j)
  <2>1. \A m \in Attempts : ~AtWork(<<j, m>>)
    BY <1>3 DEF ExclusiveJob, Exists, Attempts
  <2>2. \A m \in Attempts : ~Writing(j, m)' /\ ~Answered(j, m)'
    BY <1>1, <2>1 DEF AtWork, Writing, Answered
  <2>3. job'[j].status = "queued" /\ cancelRead' = cancelRead
    BY <1>3 DEF Create, Enqueue, TypeOK, NewRow
  <2> QED
    BY <2>2, <2>3 DEF SettledJob
<1>4. CASE CancelReads(j)
  <2>1. cancelRead'[j] = analysis[j] /\ analysis[j].status # "cancelled" /\ UNCHANGED <<job, analysis>>
    BY <1>4 DEF CancelReads, vars
  <2> QED
    BY <1>1, <2>1 DEF SettledJob, Writing, Answered
<1>5. CASE CancelCommits(j)
  <2>1. analysis'[j].status = "cancelled"
    <3>1. Put(analysis[j].status, cancelRead[j].status, "cancelled") = "cancelled"
      BY <1>5 DEF CancelCommits, SettledJob, Put
    <3>2. analysis' = [analysis EXCEPT ![j].status = "cancelled"]
      BY <1>5, <3>1 DEF CancelCommits
    <3> QED
      BY <3>2, StatusType DEF AnalysisStatus
  <2>2. cancelRead'[j] = NoRow /\ UNCHANGED job
    BY <1>5 DEF CancelCommits, vars
  <2> QED
    BY <1>1, <2>1, <2>2 DEF SettledJob, Writing, Answered
<1>6. CASE CancelFails(j)
  <2>1. cancelRead'[j] = NoRow /\ UNCHANGED <<job, analysis>>
    BY <1>6 DEF CancelFails, vars
  <2> QED
    BY <1>1, <2>1 DEF SettledJob, Writing, Answered
<1> QED
  BY <1>2, <1>3, <1>4, <1>5, <1>6

LEMMA ClaimSettles ==
    ASSUME AnalysisTypeOK, NEW w \in Workers, NEW j \in Jobs, ExclusiveJob(j), SettledJob(j),
           Claims(w, j)
    PROVE  SettledJob(j)'
<1> USE DEF AnalysisTypeOK
<1>1. \A m \in Attempts : ~AtWork(<<j, m>>)
  BY DEF Claims, Claim, Claimable, ExclusiveJob, Owns, AtWork
<1>2. job'[j].status = "running"
  BY DEF Claims, Claim, TypeOK, Row
<1>3. <<j, job[j].attempts + 1>> \in Runs
  <2>1. job[j].attempts \in 0..AttemptLimit
    BY DEF TypeOK, Row
  <2>2. job[j].attempts < MaxAttempts[j]
    BY DEF Claims, Claim, Claimable
  <2> QED
    BY <2>1, <2>2, AttemptsAssumption DEF Attempts, Runs
<1>4. \A m \in Attempts :
          /\ phase'[<<j, m>>] = IF m = job[j].attempts + 1 THEN "running" ELSE phase[<<j, m>>]
          /\ handler'[<<j, m>>] = IF m = job[j].attempts + 1 THEN "entering" ELSE handler[<<j, m>>]
  BY <1>3 DEF Claims, Claim, TypeOK, Runs
<1>5. \A m \in Attempts : ~Writing(j, m)' /\ ~Answered(j, m)'
  BY <1>1, <1>4 DEF AtWork, Writing, Answered
<1> QED
  BY <1>2, <1>5 DEF Claims, SettledJob

\* finish_job and fail_job write what the analysis already says, or what the
\* user has made it say.
LEMMA TaskSettles ==
    ASSUME AnalysisTypeOK, SessionsHoldRows, NEW j \in Jobs, LeasedJob(j), ExclusiveJob(j),
           SettledJob(j), NEW n \in Attempts, TaskStep(j, n)
    PROVE  SettledJob(j)'
<1> USE DEF AnalysisTypeOK
<1>1. <<j, n>> \in Runs /\ \A m \in Attempts : <<j, m>> \in Runs
  BY DEF Runs
<1>2. CASE Closes(j, n) \/ Abandons(j, n)
  BY <1>1, <1>2, SettledFrame
     DEF Closes, Close, Abandons, FailRaises, TypeOK, analysisVars
<1>3. CASE Finishes(j, n)
  <2>1. CASE FinishRead(j, n)
    BY <1>1, <1>3, <2>1 DEF Finishes, FinishRead, TypeOK, analysisVars, SettledJob, Writing, Answered
  <2>2. CASE FinishCommit(j, n) \/ FinishRaises(j, n)
    <3>1. seen[<<j, n>>] \in Row /\ Leased(seen[<<j, n>>]) /\ job[j] \in Row
      BY <1>1, <2>2 DEF FinishCommit, FinishRaises, SessionsHoldRows, LeasedJob, TypeOK
    <3>2. Finished(job[j], seen[<<j, n>>], n).status = "succeeded"
      BY <3>1, WrittenBack
    <3>3. \/ job'[j] = job[j]
          \/ job'[j].status = "succeeded"
      BY <2>2, <3>2 DEF FinishCommit, FinishRaises, TypeOK
    <3>4. phase[<<j, n>>] = "finishing" /\ phase'[<<j, n>>] \in {"closing", "raised"}
      BY <1>1, <2>2 DEF FinishCommit, FinishRaises, TypeOK
    <3>5. \A m \in Attempts : m # n => phase'[<<j, m>>] = phase[<<j, m>>]
      BY <1>1, <2>2 DEF FinishCommit, FinishRaises, TypeOK
    <3>6. UNCHANGED <<analysis, handler, read, cancelRead>>
      BY <1>3 DEF Finishes, analysisVars
    <3> QED
      BY <3>3, <3>4, <3>5, <3>6 DEF SettledJob, Writing, Answered
  <2> QED
    BY <1>3, <2>1, <2>2 DEF Finishes
<1>4. CASE FailReads(j, n)
  <2>1. \/ phase'[<<j, n>>] = "closing"
        \/ phase'[<<j, n>>] = "failing" /\ read'[<<j, n>>] = analysis[j]
    BY <1>1, <1>4 DEF FailReads, FailRead, TypeOK
  <2>2. \A m \in Attempts :
            m # n => phase'[<<j, m>>] = phase[<<j, m>>] /\ read'[<<j, m>>] = read[<<j, m>>]
    BY <1>1, <1>4 DEF FailReads, FailRead, TypeOK
  <2>3. UNCHANGED <<job, analysis, handler, cancelRead>>
    BY <1>4 DEF FailReads, FailRead
  <2> QED
    BY <2>1, <2>2, <2>3 DEF SettledJob, Writing, Answered
<1>5. CASE FailCommits(j, n)
  <2>1. phase[<<j, n>>] = "failing" /\ UNCHANGED <<cancelRead, handler>>
    BY <1>5 DEF FailCommits, FailCommit
  <2>2. seen[<<j, n>>] \in Row /\ Leased(seen[<<j, n>>]) /\ job[j] \in Row
    BY <1>1, <2>1 DEF SessionsHoldRows, LeasedJob, TypeOK
  <2>3. job'[j].status = IF seen[<<j, n>>].attempts >= MaxAttempts[j] THEN "failed" ELSE "queued"
    BY <1>5, <2>2, WrittenBack DEF FailCommits, FailCommit, TypeOK
  <2>4. analysis'[j].status = Outcome(j, n)
    BY <1>5 DEF FailCommits
  <2>5. analysis[j].status \in {read[<<j, n>>].status, "cancelled"}
    BY <2>1 DEF SettledJob, Writing
  <2>6. seen[<<j, n>>].attempts >= MaxAttempts[j] => Outcome(j, n) \in {"failed", "cancelled"}
    BY <2>5 DEF Outcome, Put
  <2>7. \A m \in Attempts : m # n => ~AtWork(<<j, m>>)
    BY <2>1, RunAlone DEF AtWork
  <2>8. /\ phase'[<<j, n>>] = "closing"
        /\ \A m \in Attempts : m # n => phase'[<<j, m>>] = phase[<<j, m>>]
    BY <1>1, <1>5 DEF FailCommits, FailCommit, TypeOK
  <2>9. \A m \in Attempts : ~Writing(j, m)' /\ ~Answered(j, m)'
    BY <2>7, <2>8 DEF AtWork, Writing, Answered
  <2> QED
    BY <2>1, <2>3, <2>4, <2>6, <2>9 DEF SettledJob
<1>6. CASE HandlerStep(j, n)
  BY <1>6, HandlerSettles
<1> QED
  BY <1>2, <1>3, <1>4, <1>5, <1>6 DEF TaskStep

\* What happens to one job, its analysis or its runs leaves those of another alone.
LEMMA OthersSettle ==
    ASSUME AnalysisTypeOK, NEW j \in Jobs, SettledJob(j), NEW k \in Jobs, k # j,
           \/ Create(k) \/ CancelReads(k) \/ CancelCommits(k) \/ CancelFails(k)
           \/ \E w \in Workers : Claims(w, k)
           \/ \E n \in Attempts : TaskStep(k, n)
    PROVE  SettledJob(j)'
<1> USE DEF AnalysisTypeOK, TypeOK
<1>1. SUFFICES /\ job'[j].status = job[j].status
               /\ analysis'[j] = analysis[j] /\ cancelRead'[j] = cancelRead[j]
               /\ \A m \in Attempts :
                     /\ phase'[<<j, m>>] = phase[<<j, m>>]
                     /\ handler'[<<j, m>>] = handler[<<j, m>>]
                     /\ read'[<<j, m>>] = read[<<j, m>>]
  BY SettledFrame
<1>2. \A m \in Attempts : <<j, m>> \in Runs /\ \A n : <<k, n>> # <<j, m>>
  BY DEF Runs
<1>3. CASE Create(k) \/ CancelReads(k) \/ CancelCommits(k) \/ CancelFails(k)
  BY <1>3 DEF Create, Enqueue, CancelReads, CancelCommits, CancelFails, vars
<1>4. ASSUME NEW w \in Workers, Claims(w, k)
      PROVE  <1>1!1
  BY <1>2, <1>4 DEF Claims, Claim
<1>5. ASSUME NEW n \in Attempts, HandlerStep(k, n)
      PROVE  <1>1!1
  <2>1. UNCHANGED <<job, phase>>
    BY <1>5, HandlerLeavesQueue DEF vars
  <2> QED
    BY <1>2, <1>5, <2>1 DEF HandlerStep, HandlerReads, HandlerStarts, HandlerRefuses,
       HandlerRefreshes, HandlerStores, HandlerRaises, SetsStatus, StoresAnswer, Goes
<1>6. ASSUME NEW n \in Attempts, Finishes(k, n) \/ FailReads(k, n) \/ FailCommits(k, n)
                                 \/ Abandons(k, n) \/ Closes(k, n)
      PROVE  <1>1!1
  <2>1. CASE Finishes(k, n) \/ Closes(k, n)
    BY <1>2, <2>1 DEF Finishes, FinishRead, FinishCommit, FinishRaises, Closes, Close, analysisVars
  <2>2. CASE FailReads(k, n) \/ Abandons(k, n)
    BY <1>2, <2>2 DEF FailReads, FailRead, Abandons, FailRaises
  <2>3. CASE FailCommits(k, n)
    BY <1>2, <2>3 DEF FailCommits, FailCommit
  <2> QED
    BY <1>6, <2>1, <2>2, <2>3
<1> QED
  BY <1>3, <1>4, <1>5, <1>6 DEF TaskStep

LEMMA SettledStep ==
    ASSUME AnalysisTypeOK, SessionsHoldRows, LeaseInv, ExclusiveInv, SettledInv,
           [AnalysisNext]_allVars
    PROVE  SettledInv'
<1> USE DEF AnalysisTypeOK, TypeOK
<1> SUFFICES ASSUME NEW j \in Exclusive
             PROVE  SettledJob(j)'
  BY DEF SettledInv
<1>1. j \in Jobs /\ LeasedJob(j) /\ ExclusiveJob(j) /\ SettledJob(j) /\ j \notin RetryJobs
  BY LeaseAssumption DEF Exclusive, Unattended, LeaseInv, ExclusiveInv, SettledInv
<1>2. ASSUME NEW k \in Jobs, Create(k) \/ CancelReads(k) \/ CancelCommits(k) \/ CancelFails(k)
      PROVE  SettledJob(j)'
  BY <1>1, <1>2, RequestSettles, OthersSettle
<1>3. ASSUME NEW w \in Workers, NEW k \in Jobs, Claims(w, k)
      PROVE  SettledJob(j)'
  BY <1>1, <1>3, ClaimSettles, OthersSettle
<1>4. ASSUME NEW k \in Jobs, NEW n \in Attempts, TaskStep(k, n)
      PROVE  SettledJob(j)'
  BY <1>1, <1>4, TaskSettles, OthersSettle
<1>5. ASSUME NEW w \in Workers, Dies(w)
      PROVE  SettledJob(j)'
  <2>1. UNCHANGED <<job, analysis, cancelRead>>
    BY <1>5 DEF Dies, Crash
  <2>2. \A m \in Attempts :
           \/ phase'[<<j, m>>] = "over"
           \/ /\ phase'[<<j, m>>] = phase[<<j, m>>]
              /\ handler'[<<j, m>>] = handler[<<j, m>>]
              /\ read'[<<j, m>>] = read[<<j, m>>]
    BY <1>1, <1>5 DEF Dies, Crash, Runs
  <2> QED
    BY <1>1, <2>1, <2>2, SettledFrame
<1>6. ASSUME QueueStep
      PROVE  SettledJob(j)'
  <2>1. ASSUME NEW k \in Jobs, TimeStep(k) \/ \E m \in Attempts : HeartbeatStep(k, m)
        PROVE  job'[j].status = job[j].status /\ UNCHANGED phase
    <3>1. UNCHANGED phase
      BY <2>1 DEF TimeStep, LeaseLapses, BackoffElapses, HeartbeatStep, HeartbeatRead,
         HeartbeatCommit, HeartbeatRaises
    <3>2. \/ UNCHANGED job
          \/ job' = [job EXCEPT ![k].due = TRUE]
          \/ \E at \in {"fresh", "stale"} : job' = [job EXCEPT ![k].lockedAt = at]
      BY <2>1 DEF TimeStep, LeaseLapses, BackoffElapses, HeartbeatStep, HeartbeatRead,
         HeartbeatCommit, HeartbeatRaises
    <3>3. /\ [job EXCEPT ![k].due = TRUE][j].status = job[j].status
          /\ \A at : [job EXCEPT ![k].lockedAt = at][j].status = job[j].status
      <4>1. job \in [Jobs -> Row] /\ job[j] \in Row
        BY <1>1
      <4>2. CASE k # j
        BY <1>1, <4>1, <4>2
      <4>3. CASE k = j
        BY <1>1, <4>1, <4>3 DEF Row
      <4> QED
        BY <4>2, <4>3
    <3>4. job'[j].status = job[j].status
      BY <3>2, <3>3
    <3> QED
      BY <3>1, <3>4
  <2>2. ASSUME NEW k \in Jobs, RetryStep(k)
        PROVE  job'[j].status = job[j].status /\ UNCHANGED phase
    <3>1. k # j \/ UNCHANGED job
      BY <1>1, <2>2 DEF RetryStep, RetryRead, RetryCommit, RetryAbandoned, LeasedJob
    <3> QED
      BY <1>1, <2>2, <3>1 DEF RetryStep, RetryRead, RetryCommit, RetryAbandoned
  <2> QED
    BY <1>1, <1>6, <2>1, <2>2, SettledFrame DEF QueueStep, analysisVars
<1>7. CASE UNCHANGED allVars
  BY <1>1, <1>7, SettledFrame DEF allVars, vars, analysisVars
<1> QED
  BY <1>2, <1>3, <1>4, <1>5, <1>6, <1>7 DEF AnalysisNext

\* While leases hold, an analysis and its job come to the same end, for any
\* number of analyses, attempts and workers.
THEOREM AnalysesSettle == AnalysisSpec => []SettledTogether
<1>1. AnalysisInit => SettledInv
  BY LeaseAssumption DEF AnalysisInit, Init, AbsentRow, SettledInv, SettledJob, Exclusive,
     Writing, Answered, Runs
<1>2. SettledInv => SettledTogether
  BY DEF SettledInv, SettledJob, SettledTogether
<1>3. AnalysisSpec => [](SessionsHoldRows /\ LeaseInv /\ ExclusiveInv)
  BY AnalysesRunOnTheQueue, AllInvariants, PTL
<1> QED
  BY <1>1, <1>2, <1>3, SettledStep, AnalysisTypeCorrect, PTL DEF AnalysisSpec
-----------------------------------------------------------------------------
(* Citations *)

\* A session holds an answer that it has not stored yet.
Storing(j, n) == phase[<<j, n>>] = "running" /\ handler[<<j, n>>] = "storing"

\* What makes CitationsAreTheAnswers inductive, job by job: the citations an
\* answer is about to delete are all there are.
CitedJob(j) ==
    /\ \A c \in citations[j] : c[1] = analysis[j].result
    /\ \A n \in Attempts : Storing(j, n) => draft[<<j, n>>].deletes = citations[j]
CitedInv == \A j \in Exclusive : CitedJob(j)

\* A step that stores no answer for j and freezes none.
LEMMA CitedFrame ==
    ASSUME NEW j, CitedJob(j), citations'[j] = citations[j],
           analysis'[j].result = analysis[j].result,
           \A n \in Attempts :
              Storing(j, n)' => Storing(j, n) /\ draft'[<<j, n>>] = draft[<<j, n>>]
    PROVE  CitedJob(j)'
  BY DEF CitedJob

\* An answer of the n-th attempt is committed, whether its session learns it or not.
Answers(j, n) ==
    /\ In(j, n, "storing") /\ StoresAnswer(j, n)
    /\ HandlerStores(j, n) \/ HandlerRaises(j, n)

\* Only that changes one.
LEMMA OnlyAnswersStore ==
    ASSUME AnalysisTypeOK, [AnalysisNext]_allVars, NEW j \in Jobs,
           ~\E n \in Attempts : Answers(j, n)
    PROVE  citations'[j] = citations[j] /\ analysis'[j].result = analysis[j].result
<1> USE DEF AnalysisTypeOK
<1>0. analysis[j] \in Analysis
  OBVIOUS
<1>1. ASSUME NEW k \in Jobs, Create(k) \/ CancelReads(k) \/ CancelCommits(k) \/ CancelFails(k)
      PROVE  citations'[j] = citations[j] /\ analysis'[j].result = analysis[j].result
  <2>1. \/ UNCHANGED analysis
        \/ analysis' = [analysis EXCEPT ![k].status = "queued"]
        \/ analysis' = [analysis EXCEPT ![k].status = Put(analysis[k].status, cancelRead[k].status, "cancelled")]
    BY <1>1 DEF Create, CancelReads, CancelCommits, CancelFails
  <2>2. citations' = citations
    BY <1>1 DEF Create, CancelReads, CancelCommits, CancelFails
  <2> QED
    BY <1>0, <2>1, <2>2 DEF Analysis
<1>2. ASSUME NEW k \in Jobs, NEW n \in Attempts, HandlerStep(k, n)
      PROVE  citations'[j] = citations[j] /\ analysis'[j].result = analysis[j].result
  <2>1. CASE HandlerStores(k, n) \/ Answers(k, n)
    BY <2>1 DEF Answers, HandlerStores, StoresAnswer
  <2>2. CASE HandlerStarts(k, n) \/ HandlerRefuses(k, n)
    <3>1. \E status : analysis' = [analysis EXCEPT ![k].status = Put(analysis[k].status, read[<<k, n>>].status, status)]
      BY <2>2 DEF HandlerStarts, HandlerRefuses, SetsStatus
    <3>2. citations' = citations
      BY <2>2 DEF HandlerStarts, HandlerRefuses
    <3> QED
      BY <1>0, <3>1, <3>2 DEF Analysis
  <2>3. CASE HandlerReads(k, n) \/ \E cites \in ValidCites : HandlerRefreshes(k, n, cites)
    BY <2>3 DEF HandlerReads, HandlerRefreshes
  <2>4. CASE HandlerRaises(k, n) /\ ~Answers(k, n)
    <3>1. \/ UNCHANGED analysis
          \/ analysis' = [analysis EXCEPT ![k].status = Put(analysis[k].status, read[<<k, n>>].status, "running")]
      BY <2>4 DEF Answers, HandlerRaises, SetsStatus
    <3>2. citations' = citations
      BY <2>4 DEF Answers, HandlerRaises
    <3> QED
      BY <1>0, <3>1, <3>2 DEF Analysis
  <2> QED
    BY <1>2, <2>1, <2>2, <2>3, <2>4 DEF HandlerStep
<1>3. ASSUME NEW k \in Jobs, NEW n \in Attempts, TaskStep(k, n), ~HandlerStep(k, n)
      PROVE  citations'[j] = citations[j] /\ analysis'[j].result = analysis[j].result
  <2>1. \/ UNCHANGED analysis
        \/ analysis' = [analysis EXCEPT ![k].status = Outcome(k, n)]
    BY <1>3 DEF TaskStep, Finishes, FailReads, FailCommits, Abandons, Closes, analysisVars
  <2>2. citations' = citations
    BY <1>3 DEF TaskStep, Finishes, FailReads, FailCommits, Abandons, Closes, analysisVars
  <2> QED
    BY <1>0, <2>1, <2>2 DEF Analysis
<1>4. ASSUME \/ \E w \in Workers, k \in Jobs : Claims(w, k)
             \/ \E w \in Workers : Dies(w)
             \/ QueueStep
             \/ UNCHANGED allVars
      PROVE  citations'[j] = citations[j] /\ analysis'[j].result = analysis[j].result
  BY <1>4 DEF Claims, Dies, QueueStep, allVars, analysisVars
<1> QED
  BY <1>1, <1>2, <1>3, <1>4 DEF AnalysisNext

\* Only reading the analysis again makes a session hold an answer.
LEMMA OnlyRefreshDrafts ==
    ASSUME AnalysisTypeOK, [AnalysisNext]_allVars, NEW j \in Jobs, NEW n \in Attempts,
           Storing(j, n)', ~\E cites \in ValidCites : HandlerRefreshes(j, n, cites)
    PROVE  Storing(j, n) /\ draft'[<<j, n>>] = draft[<<j, n>>]
<1> USE DEF AnalysisTypeOK, TypeOK, Storing
<1>0. <<j, n>> \in Runs
  BY DEF Runs
<1>1. ASSUME NEW k \in Jobs, Create(k) \/ CancelReads(k) \/ CancelCommits(k) \/ CancelFails(k)
      PROVE  Storing(j, n) /\ draft'[<<j, n>>] = draft[<<j, n>>]
  BY <1>1 DEF Create, Enqueue, CancelReads, CancelCommits, CancelFails, vars
<1>2. ASSUME NEW w \in Workers, NEW k \in Jobs, Claims(w, k)
      PROVE  Storing(j, n) /\ draft'[<<j, n>>] = draft[<<j, n>>]
  BY <1>0, <1>2 DEF Claims, Claim
<1>3. ASSUME NEW k \in Jobs, NEW m \in Attempts, HandlerStep(k, m)
      PROVE  Storing(j, n) /\ draft'[<<j, n>>] = draft[<<j, n>>]
  <2>1. UNCHANGED phase
    BY <1>3, HandlerLeavesQueue DEF vars
  <2>2. <<k, m>> \in Runs
    BY DEF Runs
  <2> QED
    BY ZenonT(40), <1>0, <1>3, <2>1, <2>2
       DEF HandlerStep, HandlerReads, HandlerStarts, HandlerRefuses, HandlerRefreshes,
           HandlerStores, HandlerRaises, Goes
<1>4. ASSUME NEW k \in Jobs, NEW m \in Attempts, TaskStep(k, m), ~HandlerStep(k, m)
      PROVE  Storing(j, n) /\ draft'[<<j, n>>] = draft[<<j, n>>]
  <2>1. UNCHANGED <<handler, draft>>
    BY <1>4 DEF TaskStep, Finishes, FailReads, FailCommits, Abandons, Closes, analysisVars
  <2>2. phase'[<<j, n>>] \in {phase[<<j, n>>], "finishing", "failing", "raised", "closing", "over"}
    BY <1>0, <1>4 DEF TaskStep, Finishes, FailReads, FailCommits, Abandons, Closes,
       FinishRead, FinishCommit, FinishRaises, FailRead, FailCommit, FailRaises, Close
  <2> QED
    BY <2>1, <2>2
<1>5. ASSUME NEW w \in Workers, Dies(w)
      PROVE  Storing(j, n) /\ draft'[<<j, n>>] = draft[<<j, n>>]
  BY <1>0, <1>5 DEF Dies, Crash
<1>6. ASSUME QueueStep \/ UNCHANGED allVars
      PROVE  Storing(j, n) /\ draft'[<<j, n>>] = draft[<<j, n>>]
  BY <1>6 DEF QueueStep, TimeStep, RetryStep, HeartbeatStep, LeaseLapses, BackoffElapses, RetryRead,
     RetryCommit, RetryAbandoned, HeartbeatRead, HeartbeatCommit, HeartbeatRaises,
     allVars, vars, analysisVars
<1> QED
  BY <1>1, <1>2, <1>3, <1>4, <1>5, <1>6 DEF AnalysisNext

LEMMA CitedStep ==
    ASSUME AnalysisTypeOK, ExclusiveInv, CitedInv, [AnalysisNext]_allVars
    PROVE  CitedInv'
<1> USE DEF AnalysisTypeOK
<1> SUFFICES ASSUME NEW j \in Exclusive
             PROVE  CitedJob(j)'
  BY DEF CitedInv
<1>0. j \in Jobs /\ ExclusiveJob(j) /\ CitedJob(j)
  BY LeaseAssumption DEF Exclusive, ExclusiveInv, CitedInv
<1>1. ASSUME NEW n \in Attempts, Answers(j, n)
      PROVE  CitedJob(j)'
  <2>1. draft[<<j, n>>].deletes = citations[j]
    BY <1>0, <1>1 DEF Answers, In, Storing, CitedJob
  <2>2. citations'[j] = {n} \X draft[<<j, n>>].cites /\ analysis'[j].result = n
    BY <1>0, <1>1, <2>1 DEF Answers, StoresAnswer, Kept
  <2>3. \A m \in Attempts : m # n => ~Storing(j, m)
    BY <1>0, <1>1, RunAlone DEF Answers, In, AtWork, Storing
  <2>4. /\ UNCHANGED phase
        /\ handler'[<<j, n>>] # "storing"
        /\ \A m \in Attempts : m # n => handler'[<<j, m>>] = handler[<<j, m>>]
    BY <1>0, <1>1 DEF Answers, HandlerStores, HandlerRaises, Goes, Runs, vars
  <2>5. \A m \in Attempts : ~Storing(j, m)'
    BY <2>3, <2>4 DEF Storing
  <2> QED
    BY <2>2, <2>5 DEF CitedJob
<1>2. ASSUME NEW n \in Attempts, NEW cites \in ValidCites, HandlerRefreshes(j, n, cites)
      PROVE  CitedJob(j)'
  <2>1. UNCHANGED <<phase, analysis, citations>>
    BY <1>2 DEF HandlerRefreshes, Goes, vars
  <2>2. \A m \in Attempts : m # n =>
            handler'[<<j, m>>] = handler[<<j, m>>] /\ draft'[<<j, m>>] = draft[<<j, m>>]
    BY <1>0, <1>2 DEF HandlerRefreshes, Goes, Runs
  <2>3. handler'[<<j, n>>] = "storing" => draft'[<<j, n>>].deletes = citations[j]
    BY <1>0, <1>2 DEF HandlerRefreshes, Goes, Runs, Deleted
  <2> QED
    BY <1>0, <2>1, <2>2, <2>3 DEF CitedJob, Storing
<1>3. CASE /\ ~\E n \in Attempts : Answers(j, n)
           /\ ~\E n \in Attempts, cites \in ValidCites : HandlerRefreshes(j, n, cites)
  BY <1>0, <1>3, CitedFrame, OnlyAnswersStore, OnlyRefreshDrafts
<1> QED
  BY <1>1, <1>2, <1>3

\* While leases hold, the citations of an analysis are those of the answer that
\* is shown, however often its job is repeated after an answer was stored.
THEOREM CitationsMatch == AnalysisSpec => []CitationsAreTheAnswers
<1>1. AnalysisInit => CitedInv
  BY LeaseAssumption DEF AnalysisInit, CitedInv, CitedJob, Storing, Exclusive, Runs
<1>2. CitedInv => CitationsAreTheAnswers
  BY DEF CitedInv, CitedJob, CitationsAreTheAnswers
<1>3. AnalysisSpec => []ExclusiveInv
  BY AnalysesRunOnTheQueue, AllInvariants, PTL
<1> QED
  BY <1>1, <1>2, <1>3, CitedStep, AnalysisTypeCorrect, PTL DEF AnalysisSpec

-----------------------------------------------------------------------------
(* Cancelled analyses *)

\* A session that is to write a status has read the row, and a handler has not
\* read that it is cancelled.
HeldRun(j, n) ==
    /\ phase[<<j, n>>] = "running" /\ handler[<<j, n>>] \in {"starting", "storing"} =>
          read[<<j, n>>] # NoRow /\ read[<<j, n>>].status # "cancelled"
    /\ phase[<<j, n>>] = "failing" => read[<<j, n>>] # NoRow
HeldInv == \A j \in Jobs, n \in Attempts : HeldRun(j, n)

\* There is no analysis to cancel before there is a job.
UnaskedInv ==
    \A j \in Jobs : ~Exists(j) => analysis[j].status = "absent" /\ cancelRead[j] = NoRow

LEMMA HeldStep ==
    ASSUME AnalysisTypeOK, HeldInv, [AnalysisNext]_allVars
    PROVE  HeldInv'
<1> USE NoAnalysisAssumption DEF AnalysisTypeOK, TypeOK
<1> SUFFICES ASSUME NEW j \in Jobs, NEW n \in Attempts
             PROVE  HeldRun(j, n)'
  BY DEF HeldInv
<1>0. <<j, n>> \in Runs /\ HeldRun(j, n) /\ analysis[j] # NoRow
  BY DEF Runs, HeldInv
<1> USE DEF HeldRun
<1>1. ASSUME NEW k \in Jobs, Create(k) \/ CancelReads(k) \/ CancelCommits(k) \/ CancelFails(k)
      PROVE  HeldRun(j, n)'
  BY <1>0, <1>1 DEF Create, Enqueue, CancelReads, CancelCommits, CancelFails, vars
<1>2. ASSUME NEW w \in Workers, NEW k \in Jobs, Claims(w, k)
      PROVE  HeldRun(j, n)'
  BY <1>0, <1>2 DEF Claims, Claim
<1>3. ASSUME NEW k \in Jobs, NEW m \in Attempts, HandlerStep(k, m)
      PROVE  HeldRun(j, n)'
  <2>1. UNCHANGED phase
    BY <1>3, HandlerLeavesQueue DEF vars
  <2>0. analysis[k] # NoRow
    OBVIOUS
  <2>2. <<k, m>> \in Runs /\ phase[<<k, m>>] = "running"
    BY <1>3 DEF HandlerStep, HandlerReads, HandlerStarts, HandlerRefuses, HandlerRefreshes,
       HandlerStores, HandlerRaises, In, Runs
  <2>3. CASE HandlerReads(k, m) \/ \E cites \in ValidCites : HandlerRefreshes(k, m, cites)
    <3>1. \/ handler'[<<k, m>>] = "returned"
          \/ read'[<<k, m>>] # NoRow /\ read'[<<k, m>>].status # "cancelled"
      BY <2>0, <2>2, <2>3 DEF HandlerReads, HandlerRefreshes, Goes
    <3>2. <<k, m>> # <<j, n>> => UNCHANGED <<handler[<<j, n>>], read[<<j, n>>]>>
      BY <1>0, <2>3 DEF HandlerReads, HandlerRefreshes, Goes
    <3> QED
      BY <1>0, <2>1, <2>2, <3>1, <3>2
  <2>4. CASE HandlerStarts(k, m) \/ HandlerRefuses(k, m) \/ HandlerStores(k, m) \/ HandlerRaises(k, m)
    <3>1. handler'[<<k, m>>] \in {"asking", "returned", "raised"}
      BY <2>2, <2>4 DEF HandlerStarts, HandlerRefuses, HandlerStores, HandlerRaises, Goes
    <3>2. <<k, m>> # <<j, n>> => UNCHANGED <<handler[<<j, n>>], read[<<j, n>>]>>
      BY <1>0, <2>4 DEF HandlerStarts, HandlerRefuses, HandlerStores, HandlerRaises, Goes
    <3> QED
      BY <1>0, <2>1, <2>2, <3>1, <3>2
  <2> QED
    BY <1>3, <2>3, <2>4 DEF HandlerStep
<1>4. ASSUME NEW k \in Jobs, NEW m \in Attempts, TaskStep(k, m), ~HandlerStep(k, m)
      PROVE  HeldRun(j, n)'
  <2>1. <<k, m>> \in Runs
    BY DEF Runs
  <2>2. CASE Finishes(k, m) \/ Closes(k, m)
    BY <1>0, <2>1, <2>2 DEF Finishes, FinishRead, FinishCommit, FinishRaises, Closes, Close, analysisVars
  <2>3. CASE FailReads(k, m)
    BY <1>0, <2>1, <2>3 DEF FailReads, FailRead
  <2>4. CASE FailCommits(k, m) \/ Abandons(k, m)
    BY <1>0, <2>1, <2>4 DEF FailCommits, FailCommit, Abandons, FailRaises
  <2> QED
    BY <1>4, <2>2, <2>3, <2>4 DEF TaskStep
<1>5. ASSUME NEW w \in Workers, Dies(w)
      PROVE  HeldRun(j, n)'
  BY <1>0, <1>5 DEF Dies, Crash
<1>6. ASSUME QueueStep \/ UNCHANGED allVars
      PROVE  HeldRun(j, n)'
  BY <1>0, <1>6 DEF QueueStep, TimeStep, RetryStep, HeartbeatStep, LeaseLapses, BackoffElapses, RetryRead,
     RetryCommit, RetryAbandoned, HeartbeatRead, HeartbeatCommit, HeartbeatRaises,
     allVars, vars, analysisVars
<1> QED
  BY <1>1, <1>2, <1>3, <1>4, <1>5, <1>6 DEF AnalysisNext

\* A run exists only of a job that exists.
LEMMA RunsExist ==
    ASSUME TypeOK, AttemptsCountRuns, AbsentIsUntried,
           NEW j \in Jobs, ~Exists(j), NEW n \in Attempts
    PROVE  phase[<<j, n>>] = "idle"
  BY DEF AttemptsCountRuns, AbsentIsUntried, Exists, Attempts, TypeOK

LEMMA UnaskedStep ==
    ASSUME AnalysisTypeOK, SessionsHoldRows, AttemptsCountRuns, AbsentIsUntried, UnaskedInv,
           [AnalysisNext]_allVars
    PROVE  UnaskedInv'
<1> USE DEF AnalysisTypeOK
<1> SUFFICES ASSUME NEW j \in Jobs, ~Exists(j)'
             PROVE  analysis'[j].status = "absent" /\ cancelRead'[j] = NoRow
  BY DEF UnaskedInv
<1>1. ~Exists(j)
  BY ExistsStep, AnalysisStepIsQueueStep DEF Exists
<1>2. analysis[j].status = "absent" /\ cancelRead[j] = NoRow
  BY <1>1 DEF UnaskedInv
<1>3. \A n \in Attempts : phase[<<j, n>>] = "idle"
  BY <1>1, RunsExist
<1>4. ASSUME NEW k \in Jobs, Create(k) \/ CancelReads(k) \/ CancelCommits(k) \/ CancelFails(k)
      PROVE  analysis'[j].status = "absent" /\ cancelRead'[j] = NoRow
  <2>1. CASE Create(k)
    <3>1. k # j
      BY <2>1, <1>1 DEF Create, Enqueue, Exists, NewRow, TypeOK
    <3> QED
      BY <1>2, <2>1, <3>1 DEF Create
  <2> QED
    BY <1>2, <1>4, <2>1 DEF CancelReads, CancelCommits, CancelFails
<1>5. ASSUME NEW k \in Jobs, NEW n \in Attempts, TaskStep(k, n)
      PROVE  analysis'[j].status = "absent" /\ cancelRead'[j] = NoRow
  <2>1. phase[<<k, n>>] = "idle" => ~HandlerStep(k, n) /\ ~FailCommits(k, n)
    BY DEF HandlerStep, HandlerReads, HandlerStarts, HandlerRefuses, HandlerRefreshes,
       HandlerStores, HandlerRaises, In, FailCommits, FailCommit
  <2>2. CASE k = j
    BY <1>2, <1>3, <1>5, <2>1, <2>2
       DEF TaskStep, Finishes, FailReads, Abandons, Closes, analysisVars
  <2>3. CASE k # j
    BY <1>2, <1>5, <2>3
       DEF TaskStep, Finishes, FailReads, FailCommits, Abandons, Closes, analysisVars,
           HandlerStep, HandlerReads, HandlerStarts, HandlerRefuses, HandlerRefreshes,
           HandlerStores, HandlerRaises, SetsStatus, StoresAnswer, Goes
  <2> QED
    BY <2>2, <2>3
<1>6. ASSUME \/ \E w \in Workers, k \in Jobs : Claims(w, k)
             \/ \E w \in Workers : Dies(w)
             \/ QueueStep
             \/ UNCHANGED allVars
      PROVE  analysis'[j].status = "absent" /\ cancelRead'[j] = NoRow
  BY <1>2, <1>6 DEF Claims, Dies, QueueStep, allVars, analysisVars
<1> QED
  BY <1>4, <1>5, <1>6 DEF AnalysisNext

\* A step revives a cancelled analysis only on behalf of a session that has
\* read it before it was cancelled.
LEMMA CancelledStep ==
    ASSUME AnalysisTypeOK, HeldInv, UnaskedInv, [AnalysisNext]_allVars,
           NEW j \in Jobs, analysis[j].status = "cancelled",
           \A n \in Attempts : read[<<j, n>>] = NoRow \/ read[<<j, n>>].status = "cancelled"
    PROVE  analysis'[j].status = "cancelled"
<1> USE DEF AnalysisTypeOK
<1>1. ASSUME NEW k \in Jobs, Create(k) \/ CancelReads(k) \/ CancelCommits(k) \/ CancelFails(k)
      PROVE  analysis'[j].status = "cancelled"
  <2>1. CASE k # j \/ UNCHANGED analysis
    BY <1>1, <2>1 DEF Create, CancelReads, CancelCommits, CancelFails
  <2>2. CASE k = j /\ Create(j)
    BY <2>2 DEF Create, UnaskedInv
  <2>3. CASE k = j /\ CancelCommits(j)
    <3>1. Put(analysis[j].status, cancelRead[j].status, "cancelled") = "cancelled"
      BY DEF Put
    <3>2. analysis' = [analysis EXCEPT ![j].status = "cancelled"]
      BY <2>3, <3>1 DEF CancelCommits
    <3> QED
      BY <3>2, StatusType DEF AnalysisStatus
  <2> QED
    BY <1>1, <2>1, <2>2, <2>3 DEF CancelReads, CancelFails
<1>2. ASSUME NEW k \in Jobs, NEW n \in Attempts, HandlerStep(k, n)
      PROVE  analysis'[j].status = "cancelled"
  <2>1. CASE k # j
    BY <1>2, <2>1 DEF HandlerStep, HandlerReads, HandlerStarts, HandlerRefuses, HandlerRefreshes,
       HandlerStores, HandlerRaises, SetsStatus, StoresAnswer
  <2>2. CASE k = j
    <3>1. ~In(j, n, "starting") /\ ~In(j, n, "storing")
      BY DEF HeldInv, HeldRun, In
    <3> QED
      BY <1>2, <2>2, <3>1 DEF HandlerStep, HandlerReads, HandlerStarts, HandlerRefuses,
         HandlerRefreshes, HandlerStores, HandlerRaises
  <2> QED
    BY <2>1, <2>2
<1>3. ASSUME NEW k \in Jobs, NEW n \in Attempts, FailCommits(k, n)
      PROVE  analysis'[j].status = "cancelled"
  <2>1. CASE k # j
    BY <1>3, <2>1 DEF FailCommits
  <2>2. CASE k = j
    <3>1. read[<<j, n>>].status = "cancelled"
      BY <1>3, <2>2 DEF FailCommits, FailCommit, HeldInv, HeldRun
    <3>2. Outcome(j, n) = "cancelled"
      BY <3>1 DEF Outcome
    <3> QED
      BY <1>3, <2>2, <3>2, StatusType DEF FailCommits, AnalysisStatus
  <2> QED
    BY <2>1, <2>2
<1>4. ASSUME \/ \E k \in Jobs, n \in Attempts :
                   Finishes(k, n) \/ FailReads(k, n) \/ Abandons(k, n) \/ Closes(k, n)
             \/ \E w \in Workers, k \in Jobs : Claims(w, k)
             \/ \E w \in Workers : Dies(w)
             \/ QueueStep
             \/ UNCHANGED allVars
      PROVE  analysis'[j].status = "cancelled"
  BY <1>4 DEF Finishes, FailReads, Abandons, Closes, Claims, Dies, QueueStep, allVars, analysisVars
<1> QED
  BY <1>1, <1>2, <1>3, <1>4 DEF AnalysisNext, TaskStep

\* A cancelled analysis is revived only by a session that had read it before,
\* for any number of analyses, attempts and workers, and whether leases hold or not.
THEOREM CancelledForGood == AnalysisSpec => CancelledStays
<1>1. AnalysisInit => HeldInv /\ UnaskedInv
  BY DEF AnalysisInit, Init, HeldInv, HeldRun, UnaskedInv, Runs
<1>2. AnalysisSpec => [](SessionsHoldRows /\ AttemptsCountRuns /\ AbsentIsUntried)
  BY AnalysesRunOnTheQueue, TypeCorrect, AttemptsInvariant, PTL
<1>3. AnalysisTypeOK /\ SessionsHoldRows /\ AttemptsCountRuns /\ AbsentIsUntried
         /\ HeldInv /\ UnaskedInv /\ [AnalysisNext]_allVars => HeldInv' /\ UnaskedInv'
  BY HeldStep, UnaskedStep DEF AnalysisTypeOK
<1>4. AnalysisTypeOK /\ HeldInv /\ UnaskedInv /\ [AnalysisNext]_allVars =>
         [\A j \in Jobs :
             /\ analysis[j].status = "cancelled"
             /\ \A n \in Attempts : read[<<j, n>>] = NoRow \/ read[<<j, n>>].status = "cancelled"
             => analysis'[j].status = "cancelled"]_allVars
  BY CancelledStep
<1> QED
  BY <1>1, <1>2, <1>3, <1>4, AnalysisTypeCorrect, PTL DEF AnalysisSpec, CancelledStays
=============================================================================
