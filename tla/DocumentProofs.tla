---------------------------- MODULE DocumentProofs ----------------------------
(***************************************************************************)
(* Theorems of Documents, for any bodies, texts, jobs and policies.  The    *)
(* argument: a parse writes the number after the newest it has read, the    *)
(* unique keys let it through only if nobody else has written one since,    *)
(* and so each commit extends a gapless history by one.                     *)
(***************************************************************************)
EXTENDS Documents, FiniteSetTheorems, TLAPS

DocumentStatus == {"absent", "processing", "active"}
JobRow == [status : {"absent", "queued", "running", "succeeded", "failed"}, attempts : Nat]
VersionRow ==
    [no : Nat \ {0}, text : Texts, superseded : BOOLEAN,
     embedded : BOOLEAN, summary : {None, "summary", "reader"}]
Steps == {"idle", "begun", "read", "loaded", "unchanged", "stored", "embedding", "done"}
Run == [at : Steps, seen : Bodies \cup Nat \cup {None}, row : DocumentStatus]

\* TypeOK, with what the runs have read.
Types ==
    /\ source \in Bodies
    /\ document \in DocumentStatus
    /\ versions \subseteq VersionRow
    /\ job \in [Jobs -> JobRow]
    /\ \A j \in Jobs : job[j].attempts <= MaxAttempts[j]
    /\ run \in [Jobs -> Run]

\* The versions are the first m numbers, each once, and no text twice; the last
\* one is the only one that is not superseded.
History(m) ==
    /\ \A v \in versions : v.no \in 1..m
    /\ \A n \in 1..m : \E v \in versions : v.no = n
    /\ \A v, w \in versions : v.no = w.no \/ v.text = w.text => v = w
    /\ \A v \in versions : v.superseded <=> v.no < m

\* A parse about to store a version has a text, and has read a number that
\* was written.
Behind(m) ==
    \A j \in Jobs : j[1] = "parse" /\ At(j, "read") => run[j].seen \in 0..m /\ TextOf[j[2]] # None

HistoryInv == \E m \in Nat : History(m) /\ Behind(m)
Inv == Types /\ HistoryInv

-----------------------------------------------------------------------------
(* The newest number, and how many there are *)

LEMMA LatestOfHistory ==
    ASSUME Types, NEW m \in Nat, History(m)
    PROVE  LatestNo = m
<1>1. CASE versions = {}
  BY <1>1 DEF LatestNo, History
<1>2. CASE versions # {}
  <2>1. m \in Numbers /\ \A n \in Numbers : n \in Nat /\ n <= m
    BY <1>2 DEF Numbers, History, Types, VersionRow
  <2>2. LatestNo = CHOOSE n \in Numbers : \A k \in Numbers : k <= n
    BY <1>2 DEF LatestNo
  <2>3. \A n \in Numbers : (\A k \in Numbers : k <= n) => n = m
    BY <2>1
  <2> QED
    BY <2>1, <2>2, <2>3
<1> QED
  BY <1>1, <1>2

LEMMA SizeOfHistory ==
    ASSUME NEW m \in Nat, History(m)
    PROVE  /\ IsFiniteSet(versions) /\ Cardinality(versions) = m
           /\ Cardinality({v.text : v \in versions}) = m
<1> DEFINE numbered == [n \in 1..m |-> CHOOSE v \in versions : v.no = n]
           texts == {v.text : v \in versions}
           texted == [v \in versions |-> v.text]
<1>1. \A n \in 1..m : numbered[n] \in versions /\ numbered[n].no = n
  BY DEF History
<1>2. \A v \in versions : v.no \in 1..m /\ numbered[v.no] = v
  BY <1>1 DEF History
<1>3. numbered \in Bijection(1..m, versions)
  <2>1. numbered \in [1..m -> versions]
    BY <1>1
  <2>2. \A a, b \in 1..m : numbered[a] = numbered[b] => a = b
    BY <1>1
  <2>3. \A v \in versions : \E n \in 1..m : numbered[n] = v
    BY <1>2
  <2> QED
    BY <2>1, <2>2, <2>3 DEF Bijection, Injection, Surjection, IsInjective
<1>4. IsFiniteSet(1..m) /\ Cardinality(1..m) = m
  BY FS_Interval
<1>5. IsFiniteSet(versions) /\ Cardinality(versions) = m
  BY <1>3, <1>4, FS_Bijection DEF ExistsBijection
<1>6. texted \in Bijection(versions, texts)
  BY DEF History, Bijection, Injection, Surjection, IsInjective
<1>7. Cardinality(texts) = m
  BY <1>5, <1>6, FS_Bijection DEF ExistsBijection
<1> QED
  BY <1>5, <1>7

-----------------------------------------------------------------------------
(* What the steps of a job write *)

LEMMA GoStep ==
    ASSUME Types, NEW j \in Jobs, NEW step \in Steps, NEW seen \in Bodies \cup Nat \cup {None},
           Go(j, step, seen)
    PROVE  /\ run' \in [Jobs -> Run]
           /\ run'[j].at = step /\ run'[j].seen = seen
           /\ \A i \in Jobs : i # j => run'[i] = run[i]
<1>1. run[j] \in Run
  BY DEF Types
<1> DEFINE new == [run[j] EXCEPT !.at = step, !.seen = seen]
<1>2. run' = [run EXCEPT ![j] = new]
  BY DEF Go
<1>3. new \in Run /\ new.at = step /\ new.seen = seen
  BY <1>1 DEF Run
<1> HIDE DEF new
<1> QED
  BY <1>2, <1>3 DEF Types

LEMMA LoadStep ==
    ASSUME Types, NEW j \in Jobs, NEW step \in Steps, Load(j, step)
    PROVE  /\ run' \in [Jobs -> Run]
           /\ run'[j].at = step
           /\ \A i \in Jobs : i # j => run'[i] = run[i]
<1>1. run[j] \in Run /\ document \in DocumentStatus
  BY DEF Types
<1> DEFINE new == [run[j] EXCEPT !.at = step, !.row = document]
<1>2. run' = [run EXCEPT ![j] = new]
  BY DEF Load
<1>3. new \in Run /\ new.at = step
  BY <1>1 DEF Run
<1> HIDE DEF new
<1> QED
  BY <1>2, <1>3 DEF Types

LEMMA LeaveStep ==
    ASSUME Types, NEW j \in Jobs, Leave(j)
    PROVE  /\ run' \in [Jobs -> Run]
           /\ run'[j].at = "idle"
           /\ \A i \in Jobs : i # j => run'[i] = run[i]
  BY DEF Leave, Idle, Types, Run, Steps, DocumentStatus

LEMMA StatusStep ==
    ASSUME Types, NEW j \in Jobs, NEW status \in DocumentStatus, StatusSet(j, status)
    PROVE  document' \in DocumentStatus
  BY DEF StatusSet, Types

\* The row of a job after its status was written.
LEMMA JobStep ==
    ASSUME Types, NEW j, NEW status \in {"queued", "succeeded", "failed"},
           job' = [job EXCEPT ![j].status = status]
    PROVE  job' \in [Jobs -> JobRow] /\ \A i \in Jobs : job'[i].attempts = job[i].attempts
<1>1. CASE j \in Jobs
  <2>1. job[j] \in JobRow
    BY <1>1 DEF Types
  <2> DEFINE new == [job[j] EXCEPT !.status = status]
  <2>2. job' = [job EXCEPT ![j] = new]
    OBVIOUS
  <2>3. new \in JobRow /\ new.attempts = job[j].attempts
    BY <2>1 DEF JobRow
  <2> HIDE DEF new
  <2> QED
    BY <1>1, <2>2, <2>3 DEF Types
<1>2. CASE j \notin Jobs
  BY <1>2 DEF Types
<1> QED
  BY <1>1, <1>2

LEMMA EnqueueStep ==
    ASSUME Types, NEW j, job' = Enqueued(j)
    PROVE  job' \in [Jobs -> JobRow] /\ \A i \in Jobs : job'[i].attempts = job[i].attempts
<1>1. job' = job \/ job' = [job EXCEPT ![j].status = "queued"]
  BY DEF Enqueued
<1> QED
  BY <1>1, JobStep DEF Types

-----------------------------------------------------------------------------
(* What the steps write into the versions *)

\* Versions whose numbers, texts and superseded marks stay are the same history.
LEMMA SameHistory ==
    ASSUME NEW m \in Nat, History(m), NEW g, versions' = {g[v] : v \in versions},
           \A v \in versions : g[v].no = v.no /\ g[v].text = v.text /\ g[v].superseded = v.superseded
    PROVE  History(m)'
<1>1. \A w \in versions' : \E v \in versions : w = g[v]
  OBVIOUS
<1>2. \A v \in versions : g[v] \in versions'
  OBVIOUS
<1>3. \A w \in versions' : w.no \in 1..m /\ (w.superseded <=> w.no < m)
  BY <1>1 DEF History
<1>4. \A n \in 1..m : \E w \in versions' : w.no = n
  BY <1>2 DEF History
<1>5. ASSUME NEW x \in versions', NEW y \in versions', x.no = y.no \/ x.text = y.text
      PROVE  x = y
  <2>1. PICK v \in versions : x = g[v]
    BY <1>1
  <2>2. PICK w \in versions : y = g[w]
    BY <1>1
  <2>3. v.no = w.no \/ v.text = w.text
    BY <1>5, <2>1, <2>2
  <2>4. v = w
    BY <2>3 DEF History
  <2> QED
    BY <2>1, <2>2, <2>4
<1> QED
  BY <1>3, <1>4, <1>5 DEF History

LEMMA EmbeddedVersions ==
    ASSUME Types, NEW m \in Nat, History(m), NEW t, Changed(t, "embedded", TRUE)
    PROVE  versions' \subseteq VersionRow /\ History(m)'
<1> DEFINE g == [v \in versions |-> IF v.text = t THEN [v EXCEPT !.embedded = TRUE] ELSE v]
<1>1. versions' = {g[v] : v \in versions}
  BY DEF Changed
<1>2. \A v \in versions :
         g[v] \in VersionRow /\ g[v].no = v.no /\ g[v].text = v.text /\ g[v].superseded = v.superseded
  BY ZenonT(40) DEF Types, VersionRow
<1> HIDE DEF g
<1> QED
  BY <1>1, <1>2, SameHistory

LEMMA SummarizedVersions ==
    ASSUME Types, NEW m \in Nat, History(m), NEW t, NEW who \in {"summary", "reader"},
           Changed(t, "summary", who)
    PROVE  versions' \subseteq VersionRow /\ History(m)'
<1> DEFINE g == [v \in versions |-> IF v.text = t THEN [v EXCEPT !.summary = who] ELSE v]
<1>1. versions' = {g[v] : v \in versions}
  BY DEF Changed
<1>2. \A v \in versions :
         g[v] \in VersionRow /\ g[v].no = v.no /\ g[v].text = v.text /\ g[v].superseded = v.superseded
  BY ZenonT(40) DEF Types, VersionRow
<1> HIDE DEF g
<1> QED
  BY <1>1, <1>2, SameHistory

\* A version numbered after one that was written, and that collides with none,
\* is the next one.
LEMMA NextVersion ==
    ASSUME Types, NEW m \in Nat, History(m), NEW seen \in 0..m, NEW t \in Texts,
           ~Collides(seen + 1, t),
           versions' = Superseding(seen) \cup {Version(seen + 1, t)}
    PROVE  seen = m /\ versions' \subseteq VersionRow /\ History(m + 1)'
<1> DEFINE g == [v \in versions |-> IF v.no = m THEN [v EXCEPT !.superseded = TRUE] ELSE v]
           new == Version(m + 1, t)
<1>1. seen = m
  BY DEF Collides, Numbers, History
<1>2. versions' = {g[v] : v \in versions} \cup {new}
  BY <1>1 DEF Superseding
<1>3. ASSUME NEW v \in versions
      PROVE  /\ g[v] \in VersionRow /\ g[v].no = v.no /\ g[v].text = v.text
             /\ g[v].superseded = TRUE
  <2>1. v \in VersionRow /\ v.no \in 1..m /\ (v.superseded <=> v.no < m)
    BY DEF Types, History
  <2>2. v.superseded \in BOOLEAN
    BY <2>1 DEF VersionRow
  <2>3. CASE v.no = m
    BY <2>1, <2>3 DEF VersionRow
  <2>4. CASE v.no # m
    BY <2>1, <2>2, <2>4
  <2> QED
    BY <2>3, <2>4
<1>4. new \in VersionRow /\ new.no = m + 1 /\ new.text = t /\ new.superseded = FALSE
  BY DEF Version, VersionRow
<1>5. \A v \in versions : v.no \in 1..m /\ v.text # t
  BY DEF Collides, Known, History
<1> HIDE DEF g, new
<1>6. \A w \in versions' : w = new \/ \E v \in versions : w = g[v]
  BY <1>2
<1>7. ASSUME NEW w \in versions'
      PROVE  w \in VersionRow /\ w.no \in 1..(m + 1) /\ (w.superseded <=> w.no < m + 1)
  <2>1. CASE w = new
    BY <1>4, <2>1
  <2>2. CASE w # new
    <3>1. PICK v \in versions : w = g[v]
      BY <1>6, <2>2
    <3>2. w \in VersionRow /\ w.no = v.no /\ w.superseded = TRUE
      BY <1>3, <3>1
    <3>3. v.no \in 1..m
      BY <1>5
    <3> QED
      BY <3>2, <3>3
  <2> QED
    BY <2>1, <2>2
<1>9. ASSUME NEW n \in 1..(m + 1)
      PROVE  \E w \in versions' : w.no = n
  <2>1. CASE n = m + 1
    BY <1>2, <1>4, <2>1
  <2>2. CASE n # m + 1
    <3>1. PICK v \in versions : v.no = n
      BY <2>2 DEF History
    <3> QED
      BY <1>2, <1>3, <3>1
  <2> QED
    BY <2>1, <2>2
<1>10. ASSUME NEW x \in versions', NEW y \in versions', x.no = y.no \/ x.text = y.text
       PROVE  x = y
  <2>1. ASSUME NEW v \in versions
        PROVE  g[v].no # new.no /\ g[v].text # new.text
    <3>1. g[v].no = v.no /\ g[v].text = v.text
      BY <1>3, <2>1
    <3>2. v.no \in 1..m /\ v.text # t
      BY <1>5, <2>1
    <3> QED
      BY <1>4, <3>1, <3>2
  <2>2. CASE x = new \/ y = new
    BY <1>6, <1>10, <2>1, <2>2
  <2>3. CASE x # new /\ y # new
    <3>1. PICK v \in versions : x = g[v]
      BY <1>6, <2>3
    <3>2. PICK w \in versions : y = g[w]
      BY <1>6, <2>3
    <3>3. v.no = w.no \/ v.text = w.text
      BY <1>3, <1>10, <3>1, <3>2
    <3> QED
      BY <3>1, <3>2, <3>3 DEF History
  <2> QED
    BY <2>2, <2>3
<1> QED
  BY <1>1, <1>7, <1>9, <1>10 DEF History

-----------------------------------------------------------------------------
(* Every step keeps the invariant *)

LEMMA KindsOfJobs ==
    ASSUME NEW j \in Jobs, j[1] = "parse"
    PROVE  j[2] \in Bodies /\ (TextOf[j[2]] # None => TextOf[j[2]] \in Texts)
<1>1. j \in {"parse"} \X Bodies
  BY SettingsAssumption DEF Jobs
<1> QED
  BY <1>1, TextsAssumption

LEMMA RunsMove ==
    ASSUME NEW m \in Nat, Behind(m), NEW k \in Nat, m <= k, NEW j \in Jobs,
           \A i \in Jobs : i # j => run'[i] = run[i],
           j[1] = "parse" /\ run'[j].at = "read" => run'[j].seen \in 0..k /\ TextOf[j[2]] # None
    PROVE  Behind(k)'
  BY DEF Behind, At

\* A step that leaves the versions alone, and the runs of the other jobs.
LEMMA VersionsStay ==
    ASSUME Inv, UNCHANGED versions, NEW j \in Jobs,
           \A i \in Jobs : i # j => run'[i] = run[i],
           j[1] = "parse" /\ run'[j].at = "read" => run'[j].seen = LatestNo /\ TextOf[j[2]] # None
    PROVE  HistoryInv'
<1>1. PICK m \in Nat : History(m) /\ Behind(m)
  BY DEF Inv, HistoryInv
<1>2. LatestNo = m
  BY <1>1, LatestOfHistory DEF Inv
<1>3. History(m)'
  BY <1>1 DEF History
<1>4. Behind(m)'
  BY <1>1, <1>2, RunsMove
<1> QED
  BY <1>3, <1>4 DEF HistoryInv

LEMMA RunsAndVersionsStay ==
    ASSUME Inv, UNCHANGED <<versions, run>>
    PROVE  HistoryInv'
  BY DEF Inv, HistoryInv, History, Behind, At

LEMMA TurnKeeps ==
    ASSUME Inv, NEW j \in Jobs, Claim(j) \/ Finish(j) \/ Raise(j) \/ Die(j) \/ Retry(j)
    PROVE  Inv'
<1> USE DEF Inv
<1>1. CASE Claim(j)
  <2>1. Go(j, "begun", None) /\ "begun" \in Steps
    BY <1>1 DEF Claim, Steps
  <2>2. /\ run' \in [Jobs -> Run] /\ run'[j].at = "begun"
        /\ \A i \in Jobs : i # j => run'[i] = run[i]
    BY <2>1, GoStep
  <2>3. HistoryInv'
    BY <1>1, <2>2, VersionsStay DEF Claim
  <2> DEFINE new == [status |-> "running", attempts |-> job[j].attempts + 1]
  <2>4. job' = [job EXCEPT ![j] = new]
    BY <1>1 DEF Claim
  <2>5. new \in JobRow /\ new.attempts <= MaxAttempts[j]
    <3>1. job[j] \in JobRow /\ job[j].attempts < MaxAttempts[j]
      BY <1>1 DEF Claim, Types
    <3>2. job[j].attempts \in Nat /\ MaxAttempts[j] \in Nat
      BY <3>1, AttemptsAssumption DEF JobRow
    <3> QED
      BY <3>1, <3>2 DEF JobRow
  <2> HIDE DEF new
  <2>6. Types'
    BY <1>1, <2>2, <2>4, <2>5 DEF Types, Claim
  <2> QED
    BY <2>3, <2>6
<1>2. ASSUME NEW status \in {"queued", "succeeded", "failed"}, Settle(j, status)
      PROVE  Inv'
  <2>1. /\ run' \in [Jobs -> Run] /\ run'[j].at = "idle"
        /\ \A i \in Jobs : i # j => run'[i] = run[i]
    BY <1>2, LeaveStep DEF Settle
  <2>2. HistoryInv'
    BY <1>2, <2>1, VersionsStay DEF Settle
  <2>3. job' \in [Jobs -> JobRow] /\ \A i \in Jobs : job'[i].attempts = job[i].attempts
    BY <1>2, JobStep DEF Settle
  <2>4. Types'
    BY <1>2, <2>1, <2>3 DEF Types, Settle
  <2> QED
    BY <2>2, <2>4
<1>3. CASE Finish(j) \/ Raise(j) \/ Retry(j)
  BY <1>2, <1>3 DEF Finish, Raise, Retry
<1>4. CASE Die(j)
  <2>1. /\ run' \in [Jobs -> Run] /\ run'[j].at = "idle"
        /\ \A i \in Jobs : i # j => run'[i] = run[i]
    BY <1>4, LeaveStep DEF Die
  <2>2. HistoryInv'
    BY <1>4, <2>1, VersionsStay DEF Die
  <2> QED
    BY <1>4, <2>1, <2>2 DEF Types, Die
<1> QED
  BY <1>1, <1>3, <1>4

LEMMA FetchKeeps ==
    ASSUME Inv, NEW j \in Jobs, Download(j) \/ LoadFetched(j) \/ StoreFetched(j)
    PROVE  Inv'
<1> USE DEF Inv
<1>0. j[1] = "fetch"
  BY DEF Download, LoadFetched, StoreFetched
<1>1. ASSUME run' \in [Jobs -> Run], \A i \in Jobs : i # j => run'[i] = run[i], UNCHANGED versions
      PROVE  HistoryInv'
  BY <1>0, <1>1, VersionsStay
<1>2. CASE Download(j)
  <2>1. Go(j, "read", source) /\ "read" \in Steps /\ source \in Bodies
    BY <1>2 DEF Download, Steps, Types
  <2>2. run' \in [Jobs -> Run] /\ \A i \in Jobs : i # j => run'[i] = run[i]
    BY <2>1, GoStep
  <2> QED
    BY <1>1, <1>2, <2>2 DEF Types, Download
<1>3. CASE LoadFetched(j)
  <2>1. run' \in [Jobs -> Run] /\ \A i \in Jobs : i # j => run'[i] = run[i]
    BY <1>3, LoadStep DEF LoadFetched, Steps
  <2> QED
    BY <1>1, <1>3, <2>1 DEF Types, LoadFetched, Load
<1>4. CASE StoreFetched(j)
  <2>1. Go(j, "done", None) /\ "done" \in Steps
    BY <1>4 DEF StoreFetched, Steps
  <2>2. run' \in [Jobs -> Run] /\ \A i \in Jobs : i # j => run'[i] = run[i]
    BY <2>1, GoStep
  <2>3. document' \in DocumentStatus
    BY <1>4, StatusStep DEF StoreFetched, DocumentStatus
  <2>4. job' \in [Jobs -> JobRow] /\ \A i \in Jobs : job'[i].attempts = job[i].attempts
    BY <1>4, EnqueueStep DEF StoreFetched
  <2> QED
    BY <1>1, <1>4, <2>2, <2>3, <2>4 DEF Types, StoreFetched
<1> QED
  BY <1>2, <1>3, <1>4

LEMMA ParseKeeps ==
    ASSUME Inv, NEW j \in Jobs,
           \/ LoadParsed(j) \/ ReadVersions(j) \/ StoreUnchanged(j)
           \/ StoreParsed(j) \/ EnqueueEmbed(j) \/ EnqueueSummary(j)
    PROVE  Inv'
<1> USE DEF Inv
<1>0. PICK m \in Nat : History(m) /\ Behind(m)
  BY DEF HistoryInv
<1>1. CASE LoadParsed(j)
  <2>1. /\ run' \in [Jobs -> Run] /\ run'[j].at = "loaded"
        /\ \A i \in Jobs : i # j => run'[i] = run[i]
    BY <1>1, LoadStep DEF LoadParsed, Steps
  <2>2. HistoryInv'
    BY <1>1, <2>1, VersionsStay DEF LoadParsed, Load
  <2> QED
    BY <1>1, <2>1, <2>2 DEF Types, LoadParsed, Load
<1>2. CASE ReadVersions(j)
  <2>1. LatestNo = m
    BY <1>0, LatestOfHistory
  <2>2. /\ run' \in [Jobs -> Run]
        /\ run'[j].at = "read" => run'[j].seen = LatestNo
        /\ \A i \in Jobs : i # j => run'[i] = run[i]
    <3>1. CASE Known(TextOf[j[2]])
      <4>1. Go(j, "unchanged", None) /\ "unchanged" \in Steps
        BY <1>2, <3>1 DEF ReadVersions, Steps
      <4> QED
        BY <4>1, GoStep
    <3>2. CASE ~Known(TextOf[j[2]])
      <4>1. Go(j, "read", LatestNo) /\ "read" \in Steps
        BY <1>2, <3>2 DEF ReadVersions, Steps
      <4> QED
        BY <2>1, <4>1, GoStep
    <3> QED
      BY <3>1, <3>2
  <2>3. HistoryInv'
    BY <1>2, <2>2, VersionsStay DEF ReadVersions
  <2> QED
    BY <1>2, <2>2, <2>3 DEF Types, ReadVersions
<1>3. CASE StoreUnchanged(j)
  <2>1. Go(j, "done", None) /\ "done" \in Steps
    BY <1>3 DEF StoreUnchanged, Steps
  <2>2. /\ run' \in [Jobs -> Run] /\ run'[j].at = "done"
        /\ \A i \in Jobs : i # j => run'[i] = run[i]
    BY <2>1, GoStep
  <2>3. document' \in DocumentStatus
    BY <1>3, StatusStep DEF StoreUnchanged, Activated, DocumentStatus
  <2>4. HistoryInv'
    BY <1>3, <2>2, VersionsStay DEF StoreUnchanged
  <2> QED
    BY <1>3, <2>2, <2>3, <2>4 DEF Types, StoreUnchanged
<1>4. CASE StoreParsed(j)
  <2>1. Go(j, "stored", None) /\ "stored" \in Steps
    BY <1>4 DEF StoreParsed, Steps
  <2>2. /\ run' \in [Jobs -> Run] /\ run'[j].at = "stored"
        /\ \A i \in Jobs : i # j => run'[i] = run[i]
    BY <2>1, GoStep
  <2>3. document' \in DocumentStatus
    BY <1>4, StatusStep DEF StoreParsed, Activated, DocumentStatus
  <2>4. run[j].seen \in 0..m /\ TextOf[j[2]] \in Texts
    BY <1>0, <1>4, KindsOfJobs DEF StoreParsed, Behind
  <2>5. versions' \subseteq VersionRow /\ History(m + 1)'
    BY <1>0, <1>4, <2>4, NextVersion DEF StoreParsed
  <2>6. Behind(m + 1)'
    BY <1>0, <2>2, RunsMove
  <2>7. HistoryInv'
    BY <2>5, <2>6 DEF HistoryInv
  <2> QED
    BY <1>4, <2>2, <2>3, <2>5, <2>7 DEF Types, StoreParsed
<1>5. CASE EnqueueEmbed(j) \/ EnqueueSummary(j)
  <2>1. PICK step \in {"embedding", "done"} : Go(j, step, None)
    BY <1>5 DEF EnqueueEmbed, EnqueueSummary
  <2>2. /\ run' \in [Jobs -> Run] /\ run'[j].at = step
        /\ \A i \in Jobs : i # j => run'[i] = run[i]
    BY <2>1, GoStep DEF Steps
  <2>3. job' \in [Jobs -> JobRow] /\ \A i \in Jobs : job'[i].attempts = job[i].attempts
    BY <1>5, EnqueueStep DEF EnqueueEmbed, EnqueueSummary
  <2>4. HistoryInv'
    BY <1>5, <2>2, VersionsStay DEF EnqueueEmbed, EnqueueSummary
  <2> QED
    BY <1>5, <2>2, <2>3, <2>4 DEF Types, EnqueueEmbed, EnqueueSummary
<1> QED
  BY <1>1, <1>2, <1>3, <1>4, <1>5

LEMMA ModelKeeps ==
    ASSUME Inv, NEW j \in Jobs, StoreEmbeddings(j) \/ ReadSummary(j) \/ StoreSummary(j)
    PROVE  Inv'
<1> USE DEF Inv
<1>0. PICK m \in Nat : History(m) /\ Behind(m)
  BY DEF HistoryInv
<1>1. j[1] # "parse"
  BY DEF StoreEmbeddings, ReadSummary, StoreSummary
<1>2. run' \in [Jobs -> Run] /\ \A i \in Jobs : i # j => run'[i] = run[i]
  <2>1. PICK step \in {"read", "done"} : Go(j, step, None)
    BY DEF StoreEmbeddings, ReadSummary, StoreSummary
  <2> QED
    BY <2>1, GoStep DEF Steps
<1>3. CASE ReadSummary(j)
  <2>1. HistoryInv'
    BY <1>1, <1>2, <1>3, VersionsStay DEF ReadSummary
  <2> QED
    BY <1>2, <1>3, <2>1 DEF Types, ReadSummary
<1>4. CASE StoreEmbeddings(j) \/ StoreSummary(j)
  <2>1. versions' \subseteq VersionRow /\ History(m)'
    BY <1>0, <1>4, EmbeddedVersions, SummarizedVersions DEF StoreEmbeddings, StoreSummary
  <2>2. Behind(m)'
    BY <1>0, <1>1, <1>2, RunsMove
  <2>3. HistoryInv'
    BY <2>1, <2>2 DEF HistoryInv
  <2> QED
    BY <1>2, <1>4, <2>1, <2>3 DEF Types, StoreEmbeddings, StoreSummary
<1> QED
  BY <1>3, <1>4

LEMMA RequestKeeps ==
    ASSUME Inv, SourceChanges \/ RequestSummary \/ \E f \in Fetches : RequestFetch(f)
    PROVE  Inv'
<1> USE DEF Inv
<1>1. HistoryInv'
  BY RunsAndVersionsStay DEF SourceChanges, RequestSummary, RequestFetch
<1>2. CASE SourceChanges
  BY <1>1, <1>2 DEF Types, SourceChanges
<1>3. CASE RequestSummary
  <2>1. job' \in [Jobs -> JobRow] /\ \A i \in Jobs : job'[i].attempts = job[i].attempts
    BY <1>3, EnqueueStep DEF RequestSummary
  <2> QED
    BY <1>1, <1>3, <2>1 DEF Types, RequestSummary
<1>4. ASSUME NEW f \in Fetches, RequestFetch(f)
      PROVE  Inv'
  <2>1. job' \in [Jobs -> JobRow] /\ \A i \in Jobs : job'[i].attempts = job[i].attempts
    BY <1>4, EnqueueStep DEF RequestFetch
  <2> QED
    BY <1>1, <1>4, <2>1 DEF Types, RequestFetch
<1> QED
  BY <1>2, <1>3, <1>4

LEMMA DocumentInvariant == Spec => []Inv
<1>1. Init => Inv
  <2> SUFFICES ASSUME Init PROVE Inv
    OBVIOUS
  <2>1. Types
    BY AttemptsAssumption
       DEF Init, Types, DocumentStatus, JobRow, Absent, Run, Idle, Steps
  <2>2. History(0) /\ Behind(0)
    BY DEF Init, History, Behind, At, Idle
  <2> QED
    BY <2>1, <2>2 DEF Inv, HistoryInv
<1>2. Inv /\ [Next]_vars => Inv'
  <2> SUFFICES ASSUME Inv, [Next]_vars PROVE Inv'
    OBVIOUS
  <2>1. CASE UNCHANGED vars
    <3>1. HistoryInv'
      BY <2>1, RunsAndVersionsStay DEF vars
    <3> QED
      BY <2>1, <3>1 DEF Inv, vars, Types
  <2>2. CASE SourceChanges \/ RequestSummary \/ \E f \in Fetches : RequestFetch(f)
    BY <2>2, RequestKeeps
  <2>3. ASSUME NEW j \in Jobs, Claim(j) \/ Handler(j) \/ Finish(j) \/ Raise(j) \/ Die(j) \/ Retry(j)
        PROVE  Inv'
    BY <2>3, TurnKeeps, FetchKeeps, ParseKeeps, ModelKeeps DEF Handler
  <2> QED
    BY <2>1, <2>2, <2>3 DEF Next
<1> QED
  BY <1>1, <1>2, PTL DEF Spec

-----------------------------------------------------------------------------
(* Theorems *)

\* The rows of fetch_document, parse_document, embed_document and
\* summarize_document keep their types, for any bodies, texts, policies and jobs.
THEOREM DocumentTypes == Spec => []TypeOK
<1>1. Inv => TypeOK
  <2> SUFFICES ASSUME Inv PROVE TypeOK
    OBVIOUS
  <2>1. \A j \in Jobs : job[j] \in JobRow /\ job[j].attempts <= MaxAttempts[j] /\ MaxAttempts[j] \in Nat
    BY AttemptsAssumption DEF Inv, Types
  <2>2. \A j \in Jobs : /\ job[j].status \in {"absent", "queued", "running", "succeeded", "failed"}
                         /\ job[j].attempts \in 0..MaxAttempts[j]
    BY <2>1 DEF JobRow
  <2> QED
    BY <2>2 DEF Inv, Types, TypeOK, DocumentStatus, VersionRow
<1> QED
  BY <1>1, DocumentInvariant, PTL

\* Any number of parses of any bodies, overlapping, dying and retried as they
\* may, leave the versions of a document numbered from 1 without gaps, all
\* different, and all but the newest superseded: parse_document's MAX + 1, read
\* outside the transaction that writes it, and the two unique keys.
THEOREM VersionsNumbered == Spec => []VersionsAreAHistory
<1>1. Inv => VersionsAreAHistory
  <2> SUFFICES ASSUME Inv PROVE VersionsAreAHistory
    OBVIOUS
  <2>1. PICK m \in Nat : History(m)
    BY DEF Inv, HistoryInv
  <2>2. LatestNo = m
    BY <2>1, LatestOfHistory DEF Inv
  <2>3. Cardinality(versions) = m /\ Cardinality({v.text : v \in versions}) = m
    BY <2>1, SizeOfHistory
  <2>4. Numbers = 1..m
    BY <2>1 DEF History, Numbers
  <2> QED
    BY <2>1, <2>2, <2>3, <2>4 DEF VersionsAreAHistory, History
<1> QED
  BY <1>1, DocumentInvariant, PTL
=============================================================================
