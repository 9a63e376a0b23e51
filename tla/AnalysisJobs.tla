----------------------------- MODULE AnalysisJobs -----------------------------
(***************************************************************************)
(* AI analyses: the requests of macrolens_api/routers/ai.py, the handler    *)
(* run_ai_analysis of macrolens_worker/tasks/ai.py and what fail_job writes *)
(* of them, composed with JobQueue.  Every job is one that runs an          *)
(* analysis.                                                                *)
(*                                                                          *)
(* The handler commits twice, and neither commit is that of its job: in     *)
(* between, the user cancels, the worker dies, or another attempt starts.   *)
(***************************************************************************)
EXTENDS JobQueue

CONSTANT Sources        \* citation numbers of the frozen evidence

VARIABLES
    analysis,       \* job -> the app.ai_run row of its analysis
    citations,      \* job -> app.ai_citation: who wrote which number
    handler,        \* run -> where run_ai_analysis is
    read,           \* run -> the analysis its session has read
    draft,          \* run -> the numbers it cites and the citations it deletes
    cancelRead      \* job -> the analysis a cancel request has read

analysisVars == <<analysis, citations, handler, read, draft, cancelRead>>
allVars == <<vars, analysisVars>>

AnalysisStatus == {"absent", "queued", "running", "completed", "failed", "cancelled"}
Analysis == [status : AnalysisStatus, result : 0..AttemptLimit]
Citation == Attempts \X Sources
NoDraft == [cites |-> {}, deletes |-> {}]

\* The rows are records, so that NULL of a session is none of them.
ASSUME NoAnalysisAssumption == NoRow \notin Analysis

AnalysisInit ==
    /\ Init
    /\ analysis = [j \in Jobs |-> [status |-> "absent", result |-> 0]]
    /\ citations = [j \in Jobs |-> {}]
    /\ handler = [r \in Runs |-> "off"]
    /\ read = [r \in Runs |-> NoRow]
    /\ draft = [r \in Runs |-> NoDraft]
    /\ cancelRead = [j \in Jobs |-> NoRow]

-----------------------------------------------------------------------------
(* The user: POST /ai/runs and DELETE /ai/runs/{id} *)

\* The job is reserved and the analysis inserted in one transaction.  A request
\* that finds its key taken writes nothing; one that is refused rolls back.
Create(j) ==
    /\ Enqueue(j)
    /\ analysis' = IF Exists(j) THEN analysis ELSE [analysis EXCEPT ![j].status = "queued"]
    /\ UNCHANGED <<citations, handler, read, draft, cancelRead>>

CancelReads(j) ==
    /\ cancelRead[j] = NoRow
    /\ analysis[j].status \in {"queued", "running"}
    /\ cancelRead' = [cancelRead EXCEPT ![j] = analysis[j]]
    /\ UNCHANGED <<vars, analysis, citations, handler, read, draft>>

CancelCommits(j) ==
    /\ cancelRead[j] # NoRow
    /\ analysis' = [analysis EXCEPT ![j].status = Put(@, cancelRead[j].status, "cancelled")]
    /\ cancelRead' = [cancelRead EXCEPT ![j] = NoRow]
    /\ UNCHANGED <<vars, citations, handler, read, draft>>

CancelFails(j) ==
    /\ cancelRead[j] # NoRow
    /\ cancelRead' = [cancelRead EXCEPT ![j] = NoRow]
    /\ UNCHANGED <<vars, analysis, citations, handler, read, draft>>

-----------------------------------------------------------------------------
(* The handler: run_ai_analysis *)

In(j, n, place) == phase[<<j, n>>] = "running" /\ handler[<<j, n>>] = place

\* The handler's session goes to a place, having read a row.
Goes(j, n, place, row) ==
    /\ handler' = [handler EXCEPT ![<<j, n>>] = place]
    /\ read' = [read EXCEPT ![<<j, n>>] = row]
    /\ UNCHANGED <<vars, cancelRead>>

HandlerReads(j, n) ==
    /\ In(j, n, "entering")
    /\ IF analysis[j].status = "cancelled"
       THEN Goes(j, n, "returned", NoRow)
       ELSE Goes(j, n, "starting", analysis[j])
    /\ UNCHANGED <<analysis, citations, draft>>

\* An UPDATE of the status by primary key.
SetsStatus(j, n, status) ==
    analysis' = [analysis EXCEPT ![j].status = Put(@, read[<<j, n>>].status, status)]

HandlerStarts(j, n) ==
    /\ In(j, n, "starting")
    /\ SetsStatus(j, n, "running")
    /\ Goes(j, n, "asking", NoRow)
    /\ UNCHANGED <<citations, draft>>

\* The worker has no API key: the analysis fails before its job does.
HandlerRefuses(j, n) ==
    /\ In(j, n, "starting")
    /\ SetsStatus(j, n, "failed")
    /\ Goes(j, n, "raised", NoRow)
    /\ UNCHANGED <<citations, draft>>

\* An answer cites something, when there is something to cite, and nothing else.
ValidCites == IF Sources = {} THEN {{}} ELSE SUBSET Sources \ {{}}

\* The model has answered with valid citations.  The analysis is read again,
\* and the citations that are visible now are deleted.
DeletedNone(j) == {}
Deleted(j) == citations[j]
HandlerRefreshes(j, n, cites) ==
    /\ In(j, n, "asking")
    /\ IF analysis[j].status = "cancelled"
       THEN /\ Goes(j, n, "returned", NoRow)
            /\ UNCHANGED draft
       ELSE /\ Goes(j, n, "storing", analysis[j])
            /\ draft' = [draft EXCEPT ![<<j, n>>] = [cites |-> cites, deletes |-> Deleted(j)]]
    /\ UNCHANGED <<analysis, citations>>

Kept(j, n) == citations[j] \ draft[<<j, n>>].deletes

\* The commit of the answer; (ai_run_id, citation_no) is unique.
StoresAnswer(j, n) ==
    /\ \A c \in Kept(j, n) : c[2] \notin draft[<<j, n>>].cites
    /\ analysis' = [analysis EXCEPT ![j] =
          [status |-> Put(@.status, read[<<j, n>>].status, "completed"), result |-> n]]
    /\ citations' = [citations EXCEPT ![j] = Kept(j, n) \cup ({n} \X draft[<<j, n>>].cites)]

HandlerStores(j, n) ==
    /\ In(j, n, "storing")
    /\ StoresAnswer(j, n)
    /\ draft' = [draft EXCEPT ![<<j, n>>] = NoDraft]
    /\ Goes(j, n, "returned", NoRow)

\* A statement, the model or its answer raises; a commit that does may have
\* been applied.
HandlerRaises(j, n) ==
    /\ \/ /\ \E place \in {"entering", "starting", "asking", "storing"} : In(j, n, place)
          /\ UNCHANGED <<analysis, citations>>
       \/ In(j, n, "starting") /\ SetsStatus(j, n, "running") /\ UNCHANGED citations
       \/ In(j, n, "storing") /\ StoresAnswer(j, n)
    /\ draft' = [draft EXCEPT ![<<j, n>>] = NoDraft]
    /\ Goes(j, n, "raised", NoRow)

HandlerStep(j, n) ==
    \/ HandlerReads(j, n) \/ HandlerStarts(j, n) \/ HandlerRefuses(j, n)
    \/ \E cites \in ValidCites : HandlerRefreshes(j, n, cites)
    \/ HandlerStores(j, n) \/ HandlerRaises(j, n)

-----------------------------------------------------------------------------
(* The job: what JobQueue does, and what becomes of the analysis *)

Claims(w, j) ==
    /\ Claim(w, j)
    /\ handler' = [handler EXCEPT ![<<j, job[j].attempts + 1>>] = "entering"]
    /\ UNCHANGED <<analysis, citations, read, draft, cancelRead>>

Finishes(j, n) ==
    /\ phase[<<j, n>>] = "running" => handler[<<j, n>>] = "returned"
    /\ FinishRead(j, n) \/ FinishCommit(j, n) \/ FinishRaises(j, n)
    /\ UNCHANGED analysisVars

\* fail_job, which reads the analysis after the job, when it owns that (the two
\* reads are one step here)
FailReads(j, n) ==
    /\ phase[<<j, n>>] = "running" => handler[<<j, n>>] = "raised"
    /\ FailRead(j, n)
    /\ read' = [read EXCEPT ![<<j, n>>] = IF Owns(j, n) THEN analysis[j] ELSE NoRow]
    /\ UNCHANGED <<analysis, citations, handler, draft, cancelRead>>

\* .. and leaves it alone when it is cancelled.
OutcomeAlways(j, n) ==
    Put(analysis[j].status, read[<<j, n>>].status,
        IF seen[<<j, n>>].attempts >= MaxAttempts[j] THEN "failed" ELSE "queued")
OutcomeQueued(j, n) ==
    IF read[<<j, n>>].status = "cancelled" THEN analysis[j].status
    ELSE Put(analysis[j].status, read[<<j, n>>].status, "queued")
Outcome(j, n) ==
    IF read[<<j, n>>].status = "cancelled" THEN analysis[j].status
    ELSE Put(analysis[j].status, read[<<j, n>>].status,
             IF seen[<<j, n>>].attempts >= MaxAttempts[j] THEN "failed" ELSE "queued")

FailCommits(j, n) ==
    /\ FailCommit(j, n)
    /\ analysis' = [analysis EXCEPT ![j].status = Outcome(j, n)]
    /\ read' = [read EXCEPT ![<<j, n>>] = NoRow]
    /\ UNCHANGED <<citations, handler, draft, cancelRead>>

Abandons(j, n) ==
    /\ phase[<<j, n>>] = "running" => handler[<<j, n>>] = "raised"
    /\ FailRaises(j, n)
    /\ read' = [read EXCEPT ![<<j, n>>] = NoRow]
    /\ UNCHANGED <<analysis, citations, handler, draft, cancelRead>>

Closes(j, n) == Close(j, n) /\ UNCHANGED analysisVars

TaskStep(j, n) ==
    \/ HandlerStep(j, n)
    \/ Finishes(j, n) \/ FailReads(j, n) \/ FailCommits(j, n) \/ Abandons(j, n) \/ Closes(j, n)

Dies(w) ==
    /\ Crash(w)
    /\ handler' = [r \in Runs |-> IF r \in Busy(w) THEN "off" ELSE handler[r]]
    /\ read' = [r \in Runs |-> IF r \in Busy(w) THEN NoRow ELSE read[r]]
    /\ draft' = [r \in Runs |-> IF r \in Busy(w) THEN NoDraft ELSE draft[r]]
    /\ UNCHANGED <<analysis, citations, cancelRead>>

QueueStep ==
    /\ \/ \E j \in Jobs : TimeStep(j) \/ RetryStep(j)
       \/ \E j \in Jobs, n \in Attempts : HeartbeatStep(j, n)
    /\ UNCHANGED analysisVars

AnalysisNext ==
    \/ \E j \in Jobs : Create(j) \/ CancelReads(j) \/ CancelCommits(j) \/ CancelFails(j)
    \/ \E w \in Workers, j \in Jobs : Claims(w, j)
    \/ \E j \in Jobs, n \in Attempts : TaskStep(j, n)
    \/ \E w \in Workers : Dies(w)
    \/ QueueStep

AnalysisSpec == AnalysisInit /\ [][AnalysisNext]_allVars

\* As JobQueue's: the model answers or times out, and nobody has to cancel.
AnalysisFairness ==
    /\ WF_allVars(\E w \in Workers, j \in Jobs : Claims(w, j))
    /\ \A j \in Jobs :
          /\ WF_allVars(LeaseLapses(j) /\ UNCHANGED analysisVars)
          /\ WF_allVars(BackoffElapses(j) /\ UNCHANGED analysisVars)
    /\ \A j \in Jobs, n \in Attempts : WF_allVars(TaskStep(j, n))

FairAnalysisSpec == AnalysisSpec /\ AnalysisFairness

-----------------------------------------------------------------------------
(* Properties *)

AnalysisTypeOK ==
    /\ TypeOK
    /\ analysis \in [Jobs -> Analysis]
    /\ citations \in [Jobs -> SUBSET Citation]
    /\ handler \in [Runs -> {"off", "entering", "starting", "asking", "storing",
                             "returned", "raised"}]
    /\ read \in [Runs -> Analysis \cup {NoRow}]
    /\ draft \in [Runs -> [cites : SUBSET Sources, deletes : SUBSET Citation]]
    /\ cancelRead \in [Jobs -> Analysis \cup {NoRow}]

\* While leases hold, an analysis and its job come to the same end, although
\* no transaction writes both but fail_job's: a job that succeeded leaves an
\* answer or a cancelled analysis, one that failed leaves no analysis running.
SettledTogether ==
    \A j \in Exclusive :
        /\ job[j].status = "succeeded" => analysis[j].status \in {"completed", "cancelled"}
        /\ job[j].status = "failed" => analysis[j].status \in {"failed", "cancelled"}

\* While leases hold, the citations shown with an answer are those of that
\* answer, even when an attempt that had stored one is repeated.
CitationsAreTheAnswers ==
    \A j \in Exclusive : \A c \in citations[j] : c[1] = analysis[j].result

\* A cancelled analysis is revived only by a session that had read it before:
\* once every session has seen the cancellation, retries, recoveries and
\* failures of the job leave it cancelled.
CancelledStays ==
    [][\A j \in Jobs :
          /\ analysis[j].status = "cancelled"
          /\ \A n \in Attempts :
                read[<<j, n>>] = NoRow \/ read[<<j, n>>].status = "cancelled"
          => analysis'[j].status = "cancelled"]_allVars

\* While leases hold, an analysis that was asked for ends, or its job has spent
\* its attempts: it is not shown as queued or running for ever while something
\* can still be done about it.
EventuallyEnded ==
    \A j \in Exclusive :
        Exists(j) ~> (analysis[j].status \in {"completed", "failed", "cancelled"} \/ Spent(j))
=============================================================================
