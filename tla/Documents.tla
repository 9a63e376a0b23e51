------------------------------ MODULE Documents ------------------------------
(***************************************************************************)
(* One document of the research library, from its source to its readers:    *)
(* fetch_document, parse_document, embed_document and summarize_document of *)
(* macrolens_worker/tasks/documents.py, the jobs that call each other's     *)
(* next step, and what macrolens_api/services/documents.py shows.           *)
(*                                                                          *)
(* A body is what a download returned, by its hash; TextOf is what a parse  *)
(* extracts from it.  Different bodies may hold the same text.  Leases hold *)
(* here: a job has one run at a time.  JobQueue has the rest of the queue.  *)
(***************************************************************************)
EXTENDS Naturals, Sequences, FiniteSets

CONSTANTS
    Bodies,         \* what the source may answer
    Texts,
    TextOf,         \* body -> its text, or None when nothing can be extracted
    Fetches,        \* fetch_document jobs
    None,
    Settings,       \* licence policies of the provider, oldest first, and the
                    \* embeddings and summaries the model follows
    Redistributable,\* provider.redistribution_ok
    MaxAttempts,    \* job -> max_attempts
    Retried         \* jobs an operator may retry

ASSUME TextsAssumption == TextOf \in [Bodies -> Texts \cup {None}] /\ None \notin Texts
ASSUME SettingsAssumption == \A s \in Settings : s.followed \subseteq {"embed", "summary", "reader"} \X Texts

Jobs == ({"fetch"} \X Fetches) \cup ({"parse"} \X Bodies) \cup UNION {s.followed : s \in Settings}

ASSUME AttemptsAssumption == MaxAttempts \in [Jobs -> Nat]

VARIABLES
    source,     \* the body the URL answers with
    document,   \* status of the row
    versions,   \* its document_version rows
    setting,
    job,        \* app.job
    run         \* how far the run of a job has come, and what it has read

vars == <<source, document, versions, setting, job, run>>

Absent == [status |-> "absent", attempts |-> 0]
Idle == [at |-> "idle", seen |-> None, row |-> "absent"]

Init ==
    /\ source \in Bodies
    /\ document = "absent"
    /\ versions = {}
    /\ setting \in Settings
    /\ job = [j \in Jobs |-> Absent]
    /\ run = [j \in Jobs |-> Idle]

Exists(j) == job[j].status # "absent"
At(j, step) == run[j].at = step
Go(j, step, seen) == run' = [run EXCEPT ![j].at = step, ![j].seen = seen]
Leave(j) == run' = [run EXCEPT ![j] = Idle]

\* Reads the document's row.  A commit writes the columns that were changed since.
Load(j, step) ==
    /\ run' = [run EXCEPT ![j].at = step, ![j].row = document]
    /\ UNCHANGED <<source, document, versions, setting, job>>
StatusSet(j, status) == document' = IF run[j].row = status THEN document ELSE status

\* INSERT ... ON CONFLICT DO NOTHING on the key of the job.
Followed(j) == j[1] \in {"fetch", "parse"} \/ j \in setting.followed
Enqueued(j) == IF Followed(j) /\ ~Exists(j) THEN [job EXCEPT ![j].status = "queued"] ELSE job

-----------------------------------------------------------------------------
(* Licences: services/licenses.py *)

policies == setting.policies
Public == [display |-> Redistributable, ai |-> Redistributable]
License == IF policies = <<>> THEN Public ELSE policies[Len(policies)]

-----------------------------------------------------------------------------
(* The jobs' turns *)

Claim(j) ==
    /\ job[j].status \in {"queued", "running"} /\ At(j, "idle")
    /\ job[j].attempts < MaxAttempts[j]
    /\ job' = [job EXCEPT ![j] = [status |-> "running", attempts |-> @.attempts + 1]]
    /\ Go(j, "begun", None)
    /\ UNCHANGED <<source, document, versions, setting>>

Settle(j, status) ==
    /\ job' = [job EXCEPT ![j].status = status]
    /\ Leave(j)
    /\ UNCHANGED <<source, document, versions, setting>>

Finish(j) == At(j, "done") /\ Settle(j, "succeeded")

\* Any step of a handler may raise: a download, the store, the model, a
\* constraint, a licence.
Raise(j) ==
    ~At(j, "idle") /\ Settle(j, IF job[j].attempts >= MaxAttempts[j] THEN "failed" ELSE "queued")

Die(j) ==
    /\ ~At(j, "idle")
    /\ Leave(j)
    /\ UNCHANGED <<source, document, versions, setting, job>>

\* POST /jobs/{id}/retry, of a job that is not at work.
Retry(j) ==
    /\ j \in Retried /\ Exists(j) /\ At(j, "idle")
    /\ Settle(j, "queued")

-----------------------------------------------------------------------------
(* fetch_document *)

\* POST /documents/fetch, or a job made by hand.
RequestFetch(f) ==
    /\ job' = Enqueued(<<"fetch", f>>)
    /\ UNCHANGED <<source, document, versions, setting, run>>

Download(j) ==
    /\ j[1] = "fetch" /\ At(j, "begun")
    /\ Go(j, "read", source)
    /\ UNCHANGED <<source, document, versions, setting, job>>

LoadFetched(j) == j[1] = "fetch" /\ At(j, "read") /\ Load(j, "loaded")

\* The document's row and its parse job are committed together.
StoreFetched(j) ==
    /\ j[1] = "fetch" /\ At(j, "loaded")
    /\ run[j].row = "absent" => document = "absent"
    /\ StatusSet(j, "processing")
    /\ job' = Enqueued(<<"parse", run[j].seen>>)
    /\ Go(j, "done", None)
    /\ UNCHANGED <<source, versions, setting>>

-----------------------------------------------------------------------------
(* parse_document *)

Numbers == {v.no : v \in versions}
LatestNo == IF versions = {} THEN 0 ELSE CHOOSE n \in Numbers : \A m \in Numbers : m <= n
Latest == CHOOSE v \in versions : v.no = LatestNo
Known(t) == \E v \in versions : v.text = t

LoadParsed(j) == j[1] = "parse" /\ At(j, "begun") /\ Load(j, "loaded")

\* A body without text never gets past this step.
ReadVersions(j) ==
    /\ j[1] = "parse" /\ At(j, "loaded")
    /\ TextOf[j[2]] # None
    /\ IF Known(TextOf[j[2]]) THEN Go(j, "unchanged", None) ELSE Go(j, "read", LatestNo)
    /\ UNCHANGED <<source, document, versions, setting, job>>

ActivatedNever(j) == UNCHANGED document
Activated(j) == StatusSet(j, "active")

StoreUnchanged(j) ==
    /\ j[1] = "parse" /\ At(j, "unchanged")
    /\ Activated(j)
    /\ Go(j, "done", None)
    /\ UNCHANGED <<source, versions, setting, job>>

VersionZero(no, t) == [no |-> no - 1, text |-> t, superseded |-> FALSE, embedded |-> FALSE, summary |-> None]
Version(no, t) == [no |-> no, text |-> t, superseded |-> FALSE, embedded |-> FALSE, summary |-> None]
Superseding(no) == {IF v.no = no THEN [v EXCEPT !.superseded = TRUE] ELSE v : v \in versions}

CollidesByText(no, t) == Known(t)
\* UNIQUE (document_id, version_no) and (document_id, content_hash).
Collides(no, t) == no \in Numbers \/ Known(t)
StoreParsed(j) ==
    /\ j[1] = "parse" /\ At(j, "read")
    /\ ~Collides(run[j].seen + 1, TextOf[j[2]])
    /\ versions' = Superseding(run[j].seen) \cup {Version(run[j].seen + 1, TextOf[j[2]])}
    /\ Activated(j)
    /\ Go(j, "stored", None)
    /\ UNCHANGED <<source, setting, job>>

\* Each enqueue is a transaction of its own, after the version's.
EnqueueEmbed(j) ==
    /\ j[1] = "parse" /\ At(j, "stored")
    /\ job' = Enqueued(<<"embed", TextOf[j[2]]>>)
    /\ Go(j, "embedding", None)
    /\ UNCHANGED <<source, document, versions, setting>>

EnqueueSummary(j) ==
    /\ j[1] = "parse" /\ At(j, "embedding")
    /\ job' = Enqueued(<<"summary", TextOf[j[2]]>>)
    /\ Go(j, "done", None)
    /\ UNCHANGED <<source, document, versions, setting>>

-----------------------------------------------------------------------------
(* embed_document and summarize_document *)

Changed(t, column, new) == versions' = {IF v.text = t THEN [v EXCEPT ![column] = new] ELSE v : v \in versions}

\* All chunks without an embedding get one, in one commit.
StoreEmbeddings(j) ==
    /\ j[1] = "embed" /\ At(j, "begun") /\ License.ai
    /\ Changed(j[2], "embedded", TRUE)
    /\ Go(j, "done", None)
    /\ UNCHANGED <<source, document, setting, job>>

ReadSummary(j) ==
    /\ j[1] \in {"summary", "reader"} /\ At(j, "begun") /\ License.ai
    /\ \E v \in versions :
          v.text = j[2] /\ Go(j, IF v.summary = None THEN "read" ELSE "done", None)
    /\ UNCHANGED <<source, document, versions, setting, job>>

StoreSummary(j) ==
    /\ j[1] \in {"summary", "reader"} /\ At(j, "read")
    /\ Changed(j[2], "summary", j[1])
    /\ Go(j, "done", None)
    /\ UNCHANGED <<source, document, setting, job>>

\* POST /documents/{id}/summary, for the newest version.
RequestSummary ==
    /\ License.ai
    /\ versions # {}
    /\ job' = Enqueued(<<"reader", Latest.text>>)
    /\ UNCHANGED <<source, document, versions, setting, run>>

-----------------------------------------------------------------------------
Handler(j) ==
    \/ Download(j) \/ LoadFetched(j) \/ StoreFetched(j)
    \/ LoadParsed(j) \/ ReadVersions(j) \/ StoreUnchanged(j) \/ StoreParsed(j) \/ EnqueueEmbed(j) \/ EnqueueSummary(j)
    \/ StoreEmbeddings(j) \/ ReadSummary(j) \/ StoreSummary(j)

SourceChanges ==
    /\ source' \in Bodies \ {source}
    /\ UNCHANGED <<document, versions, setting, job, run>>

Next ==
    \/ SourceChanges
    \/ \E f \in Fetches : RequestFetch(f)
    \/ RequestSummary
    \/ \E j \in Jobs : Claim(j) \/ Handler(j) \/ Finish(j) \/ Raise(j) \/ Die(j) \/ Retry(j)

Spec == Init /\ [][Next]_vars

\* Workers poll, and a handler that is not killed goes on or raises; only the
\* parses need it here.
Fairness ==
    \A b \in Bodies : LET j == <<"parse", b>> IN
        WF_vars(Claim(j)) /\ WF_vars(Handler(j) \/ Finish(j) \/ Raise(j))
FairSpec == Spec /\ Fairness

-----------------------------------------------------------------------------
(* Properties *)

TypeOK ==
    /\ source \in Bodies
    /\ document \in {"absent", "processing", "active"}
    /\ \A v \in versions : v \in [no : Nat \ {0}, text : Texts, superseded : BOOLEAN,
                                  embedded : BOOLEAN, summary : {None, "summary", "reader"}]
    /\ \A j \in Jobs :
          /\ job[j].status \in {"absent", "queued", "running", "succeeded", "failed"}
          /\ job[j].attempts \in 0..MaxAttempts[j]

\* However parses of different bodies overlap, die and are retried, the versions
\* of a document are numbered without gaps, say different things, and all but
\* the newest are superseded, so that readers of either see the same one.
VersionsAreAHistory ==
    /\ Numbers = 1..Cardinality(versions)
    /\ Cardinality({v.text : v \in versions}) = Cardinality(versions)
    /\ \A v \in versions : v.superseded <=> v.no < LatestNo

\* A parse that is queued makes the document active, or fails in the end; only a
\* worker that dies in its last attempt leaves it undone.
Stranded(j) == At(j, "idle") /\ job[j].status \in {"queued", "running"} /\ job[j].attempts >= MaxAttempts[j]
QueuedParseSettles ==
    \A b \in Bodies : LET j == <<"parse", b>> IN
        job[j].status = "queued" ~> (document = "active" \/ job[j].status = "failed" \/ Stranded(j))

\* A document that was fetched, and is shown as being processed, has a parse to
\* come or one that failed (expected by a test, not so: a body that was parsed
\* before is not parsed again, and the document stays hidden).
FetchedIsParsed ==
    document = "processing" =>
        \E b \in Bodies : job[<<"parse", b>>].status \in {"queued", "running", "failed"}
=============================================================================
