---------------------------- MODULE HistoryProofs ----------------------------
(***************************************************************************)
(* Theorems of HistoryBatch, for any sources, keys, limits and manual       *)
(* requests.  The argument: the advisory lock lets one request at a time go *)
(* on, the request that goes on has found no active child, and a child that *)
(* was active before has spent its only attempt, so that neither a worker   *)
(* nor a retry brings it back to work while the request inserts its own.    *)
(***************************************************************************)
EXTENDS HistoryBatch, FiniteSetTheorems, TLAPS

\* The single attempt of a child is spent.
Spent(j) == job[j].attempts >= 1

\* What the columns of a batch's jobs say of one another.
RowsInv ==
    /\ \A j \in Children : Exists(j) => job[j].batch = j.key
    /\ \A j \in Markers : Exists(j) => job[j].batch \in Keys
    /\ \A j \in Children : Exists(j) => job[j].status = "queued" \/ Spent(j)
    /\ \A j \in runs : job[j].status = "running"

\* What the lock gives: one request goes on at a time, what it has found to be
\* so is so until it commits.
LockInv ==
    /\ \A k, l \in begun : k = l
    /\ \A k \in begun : Requested(k) = {}
    /\ begun # {} => \A j \in Children : ~Unspent(j)

\* The rows that carry a request's key agree on the batch, and each answer
\* was read from one of them.
AnswerInv ==
    \A k \in Keys :
        /\ \A i, j \in Requested(k) : job[i].batch = job[j].batch
        /\ \A b \in answers[k] : \E j \in Requested(k) : job[j].batch = b

\* A child that can still run is of a source that no batch has backfilled.
ToBackfill ==
    \A s \in Sources : \A k, l \in Keys :
        Unspent(Child(l, s)) => job[Child(k, s)].status # "succeeded"

HistoryInv ==
    /\ TypeOK /\ RowsInv /\ LockInv /\ AnswerInv
    /\ OneBatchAtWork /\ ToBackfill /\ BackfilledOnce

-----------------------------------------------------------------------------
(* The jobs *)

LEMMA Kinds ==
    /\ \A j \in Children : j.kind = "child" /\ j.key \in Keys /\ j.source \in Sources
                           /\ j = Child(j.key, j.source)
    /\ \A k \in Keys, s \in Sources : Child(k, s) \in Children /\ Child(k, s).key = k
                                      /\ Child(k, s).source = s
    /\ \A j \in Markers : j.kind = "marker" /\ j.key \in Keys
    /\ \A k \in Keys : [kind |-> "marker", key |-> k] \in Markers
    /\ \A j \in Manual : j.kind \in {"single", "latest"}
    /\ Jobs = Children \cup Markers \cup Manual
  BY DEF Children, Child, Markers, Manual, Singles, Latests, Jobs

LEMMA KindsDiffer ==
    /\ \A j \in Children : j \notin Markers /\ j \notin Manual
    /\ \A j \in Markers : j \notin Children /\ j \notin Manual
    /\ \A j \in Manual : j \notin Children /\ j \notin Markers
  BY Kinds

LEMMA AttemptsOfAJob ==
    ASSUME NEW j
    PROVE  /\ MaxAttempts(j) \in 1..ManualAttempts
           /\ j \in Children => MaxAttempts(j) = 1
  BY WindowAssumption, KindsDiffer DEF MaxAttempts

LEMMA UnspentChild ==
    ASSUME NEW j \in Children, TypeOK
    PROVE  Unspent(j) <=> job[j].status = "running" \/ (job[j].status = "queued" /\ ~Spent(j))
  BY AttemptsOfAJob DEF Unspent, Active, Spent

LEMMA NewType ==
    ASSUME TypeOK, born < MaxBorn, NEW status \in Status, NEW batch \in Keys \cup {None}
    PROVE  /\ New(status, batch) \in Row
           /\ New(status, batch).status = status /\ New(status, batch).attempts = 0
           /\ New(status, batch).batch = batch
  BY WindowAssumption DEF New, Row, TypeOK

LEMMA ActiveBatch ==
    ASSUME TypeOK, RowsInv, NEW j \in ActiveChildren
    PROVE  j \in Children /\ Exists(j) /\ job[j].batch \in Keys
  BY Kinds DEF ActiveChildren, Active, Exists, RowsInv

\* A step that writes one row, of its type.
LEMMA OneRow ==
    ASSUME TypeOK, NEW j \in Jobs, NEW row \in Row, job' = [job EXCEPT ![j] = row]
    PROVE  /\ job' \in [Jobs -> Row]
           /\ job'[j] = row
           /\ \A i \in Jobs : i # j => job'[i] = job[i]
  BY DEF TypeOK

-----------------------------------------------------------------------------
(* Steps of workers, operators and manual requests *)

\* What such a step spares the batches: it moves no job to another batch, brings
\* no child back to work, and a child that it ends has been at work.
Spares ==
    /\ UNCHANGED <<begun, answers>>
    /\ \A j \in Children \cup Markers :
          /\ job'[j].batch = job[j].batch
          /\ Exists(j)' <=> Exists(j)
    /\ \A j \in Children :
          /\ Unspent(j)' => Unspent(j)
          /\ job'[j].status = "succeeded" =>
                job[j].status = "succeeded" \/ (Unspent(j) /\ ~Unspent(j)')
          /\ Exists(j)' => job'[j].status = "queued" \/ Spent(j)'

LEMMA SparedBatches ==
    ASSUME HistoryInv, Spares, TypeOK', \A j \in runs' : job'[j].status = "running"
    PROVE  HistoryInv'
<1> USE DEF HistoryInv
<1>1. RowsInv'
  BY DEF Spares, RowsInv
<1>2. \A k : Requested(k)' = Requested(k)
  BY DEF Spares, Requested
<1>3. LockInv'
  BY <1>2 DEF Spares, LockInv
<1>4. AnswerInv'
  <2>1. \A k : \A j \in Requested(k) : job'[j].batch = job[j].batch
    BY DEF Spares, Requested
  <2>2. answers' = answers
    BY DEF Spares
  <2> QED
    BY <1>2, <2>1, <2>2 DEF AnswerInv
<1>5. OneBatchAtWork'
  BY DEF Spares, OneBatchAtWork
<1>6. \A s \in Sources : \A k, l \in Keys :
         Unspent(Child(k, s)) /\ Unspent(Child(l, s)) => k = l
  <2> SUFFICES ASSUME NEW s \in Sources, NEW k \in Keys, NEW l \in Keys,
                      Unspent(Child(k, s)), Unspent(Child(l, s))
               PROVE  k = l
    OBVIOUS
  <2>1. Child(k, s) \in Children /\ Child(l, s) \in Children
    BY Kinds
  <2>2. Exists(Child(k, s)) /\ Exists(Child(l, s))
    BY DEF Unspent, Active, Exists
  <2>3. job[Child(k, s)].batch = k /\ job[Child(l, s)].batch = l
    BY <2>1, <2>2, Kinds DEF RowsInv
  <2> QED
    BY <2>1, <2>3 DEF OneBatchAtWork
<1>7. \A s \in Sources, k \in Keys :
         /\ Unspent(Child(k, s))' => Unspent(Child(k, s))
         /\ job'[Child(k, s)].status = "succeeded" =>
               \/ job[Child(k, s)].status = "succeeded"
               \/ Unspent(Child(k, s)) /\ ~Unspent(Child(k, s))'
  BY Kinds DEF Spares
<1>8. ToBackfill'
  BY <1>6, <1>7 DEF ToBackfill
<1>9. BackfilledOnce'
  BY <1>6, <1>7 DEF ToBackfill, BackfilledOnce
<1> QED
  BY <1>1, <1>3, <1>4, <1>5, <1>8, <1>9

\* A worker or a retry writes one row: it keeps its batch, and a child begins
\* only when it is queued and its attempt unspent.
Allowed(j, row) ==
    /\ row.batch = job[j].batch
    /\ row.status = "absent" <=> ~Exists(j)
    /\ j \in Children =>
          /\ row.status = "running" =>
                job[j].status = "running" \/ (job[j].status = "queued" /\ ~Spent(j))
          /\ row.status = "queued" /\ row.attempts < 1 => job[j].status = "queued" /\ ~Spent(j)
          /\ row.status = "succeeded" => job[j].status \in {"running", "succeeded"}
          /\ row.status \in {"queued", "absent"} \/ row.attempts >= 1

LEMMA AllowedSpares ==
    ASSUME HistoryInv, NEW j \in Jobs, NEW row \in Row, job' = [job EXCEPT ![j] = row],
           Allowed(j, row), UNCHANGED <<begun, asked, eligible, answers, born>>,
           runs' \subseteq runs \cup {j}, j \in runs' => row.status = "running"
    PROVE  HistoryInv'
<1> USE DEF HistoryInv
<1>1. /\ job' \in [Jobs -> Row] /\ job'[j] = row
      /\ \A i \in Jobs : i # j => job'[i] = job[i]
  BY OneRow
<1>2. TypeOK'
  BY <1>1 DEF TypeOK
<1>3. \A i \in runs' : job'[i].status = "running"
  BY <1>1 DEF RowsInv, TypeOK
<1>4. ASSUME NEW i \in Children
      PROVE  /\ Unspent(i)' => Unspent(i)
             /\ job'[i].status = "succeeded" =>
                   job[i].status = "succeeded" \/ (Unspent(i) /\ ~Unspent(i)')
             /\ Exists(i)' => job'[i].status = "queued" \/ Spent(i)'
  <2>0. i \in Jobs /\ (Exists(i) => job[i].status = "queued" \/ Spent(i))
    BY Kinds DEF RowsInv
  <2>1. Unspent(i) <=> job[i].status = "running" \/ (job[i].status = "queued" /\ ~Spent(i))
    BY UnspentChild
  <2>2. Unspent(i)' <=> job'[i].status = "running" \/ (job'[i].status = "queued" /\ ~Spent(i)')
    BY <1>2, AttemptsOfAJob, <1>1, <2>0 DEF Unspent, Active, Spent, MaxAttempts
  <2>3. CASE i = j
    BY <1>1, <2>0, <2>1, <2>2, <2>3 DEF Allowed, Exists, Spent, Row
  <2>4. CASE i # j
    BY <1>1, <2>0, <2>1, <2>2, <2>4 DEF Exists, Spent
  <2> QED
    BY <2>3, <2>4
<1>5. \A i \in Children \cup Markers : job'[i].batch = job[i].batch /\ (Exists(i)' <=> Exists(i))
  BY <1>1, Kinds DEF Allowed, Exists
<1>6. Spares
  BY <1>4, <1>5 DEF Spares
<1> QED
  BY <1>2, <1>3, <1>6, SparedBatches

\* A step that leaves the rows alone.
LEMMA RowsAloneSpare ==
    ASSUME HistoryInv, job' = job, UNCHANGED <<begun, answers>>, TypeOK', runs' \subseteq runs
    PROVE  HistoryInv'
<1>1. Spares
  <2>1. \A j : (Unspent(j)' <=> Unspent(j)) /\ (Exists(j)' <=> Exists(j)) /\ (Spent(j)' <=> Spent(j))
    BY DEF Unspent, Active, Exists, Spent
  <2> QED
    BY <2>1 DEF Spares, HistoryInv, RowsInv
<1> QED
  BY <1>1, SparedBatches DEF HistoryInv, RowsInv

LEMMA WorkersSpare ==
    ASSUME HistoryInv, NEW j \in Jobs, Claim(j) \/ Finish(j) \/ Fail(j) \/ Dies(j) \/ Retry(j)
    PROVE  HistoryInv'
<1> USE DEF HistoryInv
<1>0. /\ job[j] \in Row /\ job[j].status \in Status /\ job[j].attempts \in 0..ManualAttempts + 1
      /\ job[j].batch \in Keys \cup {None} /\ job[j].born \in 0..MaxBorn
      /\ MaxAttempts(j) \in 1..ManualAttempts /\ (j \in Children => MaxAttempts(j) = 1)
  BY AttemptsOfAJob DEF TypeOK, Row
<1>1. j \in runs => job[j].status = "running"
  BY DEF RowsInv
<1>2. j \in Children /\ Exists(j) => job[j].status = "queued" \/ Spent(j)
  BY DEF RowsInv
<1>3. CASE Claim(j)
  <2> DEFINE row == [job[j] EXCEPT !.status = "running", !.attempts = job[j].attempts + 1]
  <2>1. /\ row \in Row /\ row.status = "running" /\ row.batch = job[j].batch
        /\ row.attempts = job[j].attempts + 1
    <3>1. job[j].attempts + 1 \in 0..ManualAttempts + 1
      BY <1>0, <1>3, WindowAssumption DEF Claim
    <3> QED
      BY <1>0, <3>1 DEF Row, Status
  <2>2. Allowed(j, row)
    BY <1>0, <1>2, <1>3, <2>1 DEF Claim, Lost, Allowed, Exists, Spent
  <2>3. /\ job' = [job EXCEPT ![j] = row]
        /\ UNCHANGED <<begun, asked, eligible, answers, born>> /\ runs' = runs \cup {j}
    BY <1>3 DEF Claim
  <2> QED
    BY <2>1, <2>2, <2>3, AllowedSpares
<1>4. ASSUME NEW status \in Status \ {"absent", "running"},
             job' = [job EXCEPT ![j].status = status], runs' = runs \ {j}, Exists(j),
             UNCHANGED <<begun, asked, eligible, answers, born>>,
             status # "queued" => j \in runs
      PROVE  HistoryInv'
  <2> DEFINE row == [job[j] EXCEPT !.status = status]
  <2>1. /\ row \in Row /\ row.status = status /\ row.batch = job[j].batch
        /\ row.attempts = job[j].attempts
    BY <1>0 DEF Row
  <2>2. Allowed(j, row)
    BY <1>0, <1>1, <1>2, <1>4, <2>1 DEF Allowed, Exists, Spent
  <2>3. job' = [job EXCEPT ![j] = row]
    BY <1>4
  <2> QED
    BY <1>4, <2>1, <2>2, <2>3, AllowedSpares
<1>5. CASE Finish(j)
  BY <1>1, <1>4, <1>5 DEF Finish, Settle, Status, Exists
<1>6. CASE Fail(j)
  <2>1. CASE job[j].attempts >= MaxAttempts(j)
    BY <1>1, <1>4, <1>6, <2>1 DEF Fail, Settle, Status, Exists
  <2>2. CASE ~(job[j].attempts >= MaxAttempts(j))
    BY <1>1, <1>4, <1>6, <2>2 DEF Fail, Settle, Status, Exists
  <2> QED
    BY <2>1, <2>2
<1>7. CASE Retry(j)
  BY <1>4, <1>7 DEF Retry, Status
<1>8. CASE Dies(j)
  <2>1. TypeOK' /\ job' = job /\ UNCHANGED <<begun, answers>> /\ runs' \subseteq runs
    BY <1>8 DEF Dies, TypeOK
  <2> QED
    BY <2>1, RowsAloneSpare
<1> QED
  BY <1>3, <1>5, <1>6, <1>7, <1>8

LEMMA ManualSpares ==
    ASSUME HistoryInv, NEW j \in Manual, ManualReads(j) \/ ManualInserts(j)
    PROVE  HistoryInv'
<1> USE DEF HistoryInv
<1>0. j \in Jobs /\ j \notin Children \cup Markers
  BY Kinds, KindsDiffer
<1>1. CASE ManualReads(j) \/ (ManualInserts(j) /\ Exists(j))
  <2>1. TypeOK' /\ job' = job /\ UNCHANGED <<begun, answers>> /\ runs' \subseteq runs
    BY <1>1, WindowAssumption DEF ManualReads, ManualInserts, TypeOK
  <2> QED
    BY <2>1, RowsAloneSpare
<1>2. CASE ManualInserts(j) /\ ~Exists(j)
  <2>1. New("queued", None) \in Row
    BY <1>2, NewType DEF ManualInserts, Status
  <2>2. /\ job' \in [Jobs -> Row]
        /\ \A i \in Jobs : i # j => job'[i] = job[i]
    BY <1>0, <1>2, <2>1, OneRow DEF ManualInserts
  <2>3. TypeOK'
    BY <1>2, <2>2, WindowAssumption DEF ManualInserts, TypeOK
  <2>4. UNCHANGED <<runs, begun, answers>> /\ ~Exists(j)
    BY <1>2 DEF ManualInserts
  <2>5. \A i \in runs' : job'[i].status = "running"
    BY <2>2, <2>4 DEF RowsInv, TypeOK, Exists
  <2>6. \A i \in Children \cup Markers : job'[i] = job[i]
    BY <1>0, <2>2, Kinds
  <2>7. \A i \in Children \cup Markers :
           (Unspent(i)' <=> Unspent(i)) /\ (Exists(i)' <=> Exists(i)) /\ (Spent(i)' <=> Spent(i))
    BY <2>6 DEF Unspent, Active, Exists, Spent
  <2>8. Spares
    BY <2>4, <2>6, <2>7 DEF Spares, RowsInv
  <2> QED
    BY <2>3, <2>5, <2>8, SparedBatches
<1> QED
  BY <1>1, <1>2

-----------------------------------------------------------------------------
(* Batch requests *)

LEMMA ReplayKeeps ==
    ASSUME HistoryInv, NEW k \in Keys, Replay(k)
    PROVE  HistoryInv'
<1> USE DEF HistoryInv
<1>1. PICK j \in Requested(k) : answers' = [answers EXCEPT ![k] = @ \cup {job[j].batch}]
  BY DEF Replay, Answer
<1>2. job[j].batch \in Keys
  BY Kinds DEF Requested, RowsInv
<1>3. UNCHANGED <<job, runs, begun, asked, eligible, born>>
  BY DEF Replay
<1>4. TypeOK'
  BY <1>1, <1>2, <1>3 DEF TypeOK
<1>5. \A i : (Unspent(i)' <=> Unspent(i)) /\ (Exists(i)' <=> Exists(i)) /\ (Spent(i)' <=> Spent(i))
  BY <1>3 DEF Unspent, Active, Exists, Spent
<1>6. \A l : Requested(l)' = Requested(l)
  BY <1>5 DEF Requested
<1>7. RowsInv' /\ LockInv' /\ OneBatchAtWork' /\ ToBackfill' /\ BackfilledOnce'
  BY <1>3, <1>5, <1>6 DEF RowsInv, LockInv, OneBatchAtWork, ToBackfill, BackfilledOnce
<1>8. AnswerInv'
  <2>1. answers \in [Keys -> SUBSET Keys]
    BY DEF TypeOK
  <2> QED
    BY <1>1, <1>3, <1>6, <2>1 DEF AnswerInv
<1> QED
  BY <1>4, <1>7, <1>8

\* A marker is inserted, for a request that nothing carries the key of yet.
LEMMA MarkerKeeps ==
    ASSUME HistoryInv, NEW k \in Keys, Requested(k) = {}, NEW batch \in Keys, born < MaxBorn,
           job' = MarkerIfNeeded(k, batch), Answer(k, batch), born' = born + 1,
           begun' \subseteq begun, k \notin begun', UNCHANGED <<runs, asked, eligible>>
    PROVE  HistoryInv'
<1> USE DEF HistoryInv
<1> DEFINE m == [kind |-> "marker", key |-> k]
<1>1. m \in Markers /\ m \in Jobs /\ m \notin Children /\ m.key = k
  BY Kinds, KindsDiffer
<1>2. /\ New("succeeded", batch) \in Row /\ New("succeeded", batch).batch = batch
      /\ New("succeeded", batch).status = "succeeded"
  BY NewType DEF Status
<1>3. /\ job' \in [Jobs -> Row] /\ job'[m] = New("succeeded", batch)
      /\ \A i \in Jobs : i # m => job'[i] = job[i]
  BY <1>1, <1>2, OneRow DEF MarkerIfNeeded
<1>4. TypeOK'
  BY <1>3, WindowAssumption DEF TypeOK, Answer
<1>5. ~Exists(m)
  BY <1>1 DEF Requested
<1>6. \A i \in Children : /\ job'[i] = job[i] /\ (Unspent(i)' <=> Unspent(i))
                          /\ (Exists(i)' <=> Exists(i)) /\ (Spent(i)' <=> Spent(i))
  BY <1>1, <1>3, Kinds DEF Unspent, Active, Exists, Spent
<1>7. RowsInv'
  <2>1. \A j \in Markers : Exists(j)' => job'[j].batch \in Keys
    BY <1>2, <1>3, Kinds DEF RowsInv, Exists
  <2>2. \A j \in runs' : job'[j].status = "running"
    BY <1>3, <1>5 DEF RowsInv, Exists, TypeOK
  <2> QED
    BY <1>6, <2>1, <2>2 DEF RowsInv
<1>8. /\ \A l \in Keys : l # k => Requested(l)' = Requested(l)
      /\ Requested(k)' = {m}
  <2>1. \A i \in Children \cup Markers : i # m => (Exists(i)' <=> Exists(i))
    BY <1>3, Kinds DEF Exists
  <2>2. Exists(m)'
    BY <1>2, <1>3 DEF Exists
  <2> QED
    BY <1>1, <2>1, <2>2 DEF Requested
<1>9. LockInv'
  BY <1>6, <1>8 DEF LockInv, TypeOK
<1>10. AnswerInv'
  <2>1. answers \in [Keys -> SUBSET Keys] /\ answers[k] = {}
    BY DEF TypeOK, AnswerInv
  <2>2. answers'[k] = {batch} /\ \A l \in Keys : l # k => answers'[l] = answers[l]
    BY <2>1 DEF Answer
  <2>3. \A l \in Keys : l # k => \A i \in Requested(l) : job'[i] = job[i]
    BY <1>1, <1>3, Kinds DEF Requested
  <2> QED
    BY <1>2, <1>3, <1>8, <2>2, <2>3 DEF AnswerInv
<1>11. OneBatchAtWork'
  BY <1>6 DEF OneBatchAtWork
<1>12. ToBackfill' /\ BackfilledOnce'
  BY <1>6, Kinds DEF ToBackfill, BackfilledOnce
<1> QED
  BY <1>4, <1>7, <1>9, <1>10, <1>11, <1>12

LEMMA ReuseKeeps ==
    ASSUME HistoryInv, NEW k \in Keys, Reuse(k)
    PROVE  HistoryInv'
<1>1. PICK j \in Newest(ActiveChildren) :
         job' = MarkerIfNeeded(k, job[j].batch) /\ Answer(k, job[j].batch)
  BY DEF Reuse, ReuseMarker
<1>2. job[j].batch \in Keys
  BY ActiveBatch DEF Newest, HistoryInv
<1>3. begun = {} /\ begun' = begun
  BY DEF Reuse, Holding
<1> QED
  BY <1>1, <1>2, <1>3, MarkerKeeps DEF Reuse

LEMMA BeginKeeps ==
    ASSUME HistoryInv, NEW k \in Keys, Begin(k)
    PROVE  HistoryInv'
<1> USE DEF HistoryInv
<1>1. begun' = {k} /\ UNCHANGED <<job, runs, asked, eligible, answers, born>>
  BY DEF Begin, Holding
<1>2. \A i : (Unspent(i)' <=> Unspent(i)) /\ (Exists(i)' <=> Exists(i)) /\ (Spent(i)' <=> Spent(i))
  BY <1>1 DEF Unspent, Active, Exists, Spent
<1>3. \A l : Requested(l)' = Requested(l)
  BY <1>2 DEF Requested
<1>4. TypeOK' /\ RowsInv' /\ AnswerInv' /\ OneBatchAtWork' /\ ToBackfill' /\ BackfilledOnce'
  BY <1>1, <1>2, <1>3 DEF TypeOK, RowsInv, AnswerInv, OneBatchAtWork, ToBackfill, BackfilledOnce
<1>5. \A j \in Children : ~Unspent(j)
  BY DEF Begin, ActiveChildren, Unspent
<1>6. LockInv'
  BY <1>1, <1>2, <1>3, <1>5 DEF LockInv, Begin
<1> QED
  BY <1>4, <1>6

\* The batch's children: none of another batch can run, and none is of a source
\* that has been backfilled.
LEMMA ChildrenKeep ==
    ASSUME HistoryInv, NEW k \in Keys, Create(k), Selected(k) # {}
    PROVE  HistoryInv'
<1> USE DEF HistoryInv
<1> DEFINE Made == {Child(k, s) : s \in Selected(k)}
<1>0. Requested(k) = {} /\ begun' = {} /\ \A j \in Children : ~Unspent(j)
  BY DEF Create, LockInv
<1>1. Selected(k) \subseteq Sources /\ Made \subseteq Children
  <2>1. Selected(k) \subseteq Sources
    BY DEF Selected, Candidates, TypeOK
  <2> QED
    BY <2>1, Kinds
<1>2. /\ New("queued", k) \in Row /\ New("queued", k).batch = k
      /\ New("queued", k).status = "queued" /\ New("queued", k).attempts = 0
  BY NewType DEF Create, Status
<1>3. /\ job' = [j \in Jobs |-> IF j \in Made THEN New("queued", k) ELSE job[j]]
      /\ UNCHANGED <<runs, asked, eligible>> /\ born' = born + 1 /\ born < MaxBorn
      /\ answers' = [answers EXCEPT ![k] = @ \cup {k}]
  BY DEF Create, Answer
<1>4. TypeOK'
  BY <1>0, <1>2, <1>3, WindowAssumption DEF TypeOK
<1>5. \A j \in Made : ~Exists(j) /\ j.key = k
  BY <1>0, <1>1, Kinds DEF Requested
<1>6. /\ \A j \in Jobs : j \notin Made => job'[j] = job[j]
      /\ \A j \in Made : job'[j] = New("queued", k)
  BY <1>1, <1>3, Kinds
<1>7. /\ \A j \in Children \cup Markers : j \notin Made => (Exists(j)' <=> Exists(j))
      /\ \A j \in Children : j \notin Made => ~Unspent(j)' /\ (Spent(j)' <=> Spent(j))
  BY <1>0, <1>6, Kinds DEF Exists, Unspent, Active, Spent
<1>8. RowsInv'
  <2>1. \A j \in Children : Exists(j)' => /\ job'[j].batch = j.key
                                          /\ job'[j].status = "queued" \/ Spent(j)'
    BY <1>2, <1>5, <1>6, <1>7, Kinds DEF RowsInv
  <2>2. \A j \in Markers : Exists(j)' => job'[j].batch \in Keys
    BY <1>1, <1>6, <1>7, Kinds, KindsDiffer DEF RowsInv
  <2>3. \A j \in runs' : job'[j].status = "running"
    BY <1>3, <1>5, <1>6 DEF RowsInv, Exists, TypeOK
  <2> QED
    BY <2>1, <2>2, <2>3 DEF RowsInv
<1>9. /\ \A l \in Keys : l # k => Requested(l)' = Requested(l)
      /\ \A j \in Requested(k)' : j \in Made
      /\ Made \subseteq Requested(k)'
  <2>1. \A j \in Made : Exists(j)'
    BY <1>2, <1>6 DEF Exists
  <2> QED
    BY <1>0, <1>1, <1>5, <1>7, <2>1 DEF Requested
<1>10. LockInv'
  BY <1>0 DEF LockInv
<1>11. AnswerInv'
  <2>1. answers \in [Keys -> SUBSET Keys] /\ answers[k] = {}
    BY <1>0 DEF TypeOK, AnswerInv
  <2>2. answers'[k] = {k} /\ \A l \in Keys : l # k => answers'[l] = answers[l]
    BY <1>3, <2>1
  <2>3. \A l \in Keys : l # k => \A i \in Requested(l) : job'[i] = job[i]
    BY <1>5, <1>6, Kinds DEF Requested
  <2>4. \E j \in Requested(k)' : job'[j].batch = k
    BY <1>2, <1>6, <1>9
  <2>5. \A j \in Requested(k)' : job'[j].batch = k
    BY <1>2, <1>6, <1>9
  <2> QED
    BY <1>9, <2>2, <2>3, <2>4, <2>5 DEF AnswerInv
<1>12. OneBatchAtWork'
  BY <1>2, <1>6, <1>7 DEF OneBatchAtWork
<1>13. \A s \in Sources, l \in Keys :
          /\ job'[Child(l, s)].status = "succeeded" => job[Child(l, s)].status = "succeeded"
          /\ Unspent(Child(l, s))' => s \in Selected(k)
  <2> SUFFICES ASSUME NEW s \in Sources, NEW l \in Keys
               PROVE  /\ job'[Child(l, s)].status = "succeeded" => job[Child(l, s)].status = "succeeded"
                      /\ Unspent(Child(l, s))' => s \in Selected(k)
    OBVIOUS
  <2>1. Child(l, s) \in Children /\ Child(l, s) \in Jobs /\ Child(l, s).source = s
    BY Kinds
  <2>2. CASE Child(l, s) \in Made
    <3>1. PICK t \in Selected(k) : Child(l, s) = Child(k, t)
      BY <2>2
    <3>2. t = s
      BY <1>1, <2>1, <3>1, Kinds
    <3> QED
      BY <1>2, <1>6, <2>2, <3>1, <3>2
  <2>3. CASE Child(l, s) \notin Made
    BY <1>6, <1>7, <2>1, <2>3
  <2> QED
    BY <2>2, <2>3
<1>14. \A s \in Selected(k), l \in Keys : job[Child(l, s)].status # "succeeded"
  <2>1. \A s \in Selected(k) : s \notin Completed
    BY DEF Selected, Candidates
  <2> QED
    BY <1>1, <2>1, Kinds DEF Completed
<1>15. ToBackfill'
  BY <1>13, <1>14 DEF ToBackfill
<1>16. BackfilledOnce'
  BY <1>13 DEF BackfilledOnce
<1> QED
  BY <1>4, <1>8, <1>10, <1>11, <1>12, <1>15, <1>16

LEMMA CreateKeeps ==
    ASSUME HistoryInv, NEW k \in Keys, Create(k)
    PROVE  HistoryInv'
<1>1. CASE Selected(k) = {}
  <2>1. /\ Requested(k) = {} /\ born < MaxBorn /\ born' = born + 1
        /\ begun' \subseteq begun /\ k \notin begun' /\ UNCHANGED <<runs, asked, eligible>>
        /\ job' = MarkerIfNeeded(k, k) /\ Answer(k, k)
    BY <1>1 DEF Create, ReuseMarker, HistoryInv, LockInv
  <2> QED
    BY <2>1, MarkerKeeps
<1> QED
  BY <1>1, ChildrenKeep

LEMMA FailsKeeps ==
    ASSUME HistoryInv, NEW k \in Keys, RequestFails(k)
    PROVE  HistoryInv'
<1> USE DEF HistoryInv
<1>1. begun' \subseteq begun /\ UNCHANGED <<job, runs, asked, eligible, answers, born>>
  BY DEF RequestFails
<1>2. \A i : (Unspent(i)' <=> Unspent(i)) /\ (Exists(i)' <=> Exists(i)) /\ (Spent(i)' <=> Spent(i))
  BY <1>1 DEF Unspent, Active, Exists, Spent
<1>3. \A l : Requested(l)' = Requested(l)
  BY <1>2 DEF Requested
<1>4. TypeOK' /\ RowsInv' /\ AnswerInv' /\ OneBatchAtWork' /\ ToBackfill' /\ BackfilledOnce'
  BY <1>1, <1>2, <1>3 DEF TypeOK, RowsInv, AnswerInv, OneBatchAtWork, ToBackfill, BackfilledOnce
<1>5. LockInv'
  BY <1>1, <1>2, <1>3 DEF LockInv
<1> QED
  BY <1>4, <1>5

-----------------------------------------------------------------------------
(* Theorems *)

LEMMA HistoryInductive == Spec => []HistoryInv
<1>1. Init => HistoryInv
  <2> SUFFICES ASSUME Init
               PROVE  HistoryInv
    OBVIOUS
  <2>1. \A j \in Jobs : job[j] = Absent
    BY DEF Init
  <2>2. Absent \in Row
    BY WindowAssumption DEF Absent, Row, Status
  <2>3. TypeOK
    BY <2>2, WindowAssumption DEF Init, TypeOK
  <2>4. \A j \in Jobs : ~Exists(j) /\ ~Unspent(j) /\ job[j].status = "absent"
    BY <2>1 DEF Absent, Exists, Unspent, Active
  <2>5. \A j \in Children \cup Markers : j \in Jobs
    BY Kinds
  <2>6. \A k \in Keys, s \in Sources : Child(k, s) \in Jobs
    BY Kinds
  <2>7. RowsInv /\ LockInv
    BY <2>4, <2>5 DEF Init, RowsInv, LockInv
  <2>8. AnswerInv
    BY <2>4, <2>5 DEF Init, AnswerInv, Requested
  <2> QED
    BY <2>3, <2>4, <2>5, <2>6, <2>7, <2>8 DEF HistoryInv, OneBatchAtWork, ToBackfill, BackfilledOnce
<1>2. HistoryInv /\ [Next]_vars => HistoryInv'
  <2> SUFFICES ASSUME HistoryInv, [Next]_vars
               PROVE  HistoryInv'
    OBVIOUS
  <2>1. ASSUME NEW k \in Keys, Replay(k) \/ Reuse(k) \/ Begin(k) \/ Create(k) \/ RequestFails(k)
        PROVE  HistoryInv'
    BY <2>1, ReplayKeeps, ReuseKeeps, BeginKeeps, CreateKeeps, FailsKeeps
  <2>2. ASSUME NEW j \in Manual, ManualReads(j) \/ ManualInserts(j)
        PROVE  HistoryInv'
    BY <2>2, ManualSpares
  <2>3. ASSUME NEW j \in Jobs, Claim(j) \/ Finish(j) \/ Fail(j) \/ Dies(j) \/ Retry(j)
        PROVE  HistoryInv'
    BY <2>3, WorkersSpare
  <2>4. ASSUME (\E s \in Sources : MappingChanges(s)) \/ UNCHANGED vars
        PROVE  HistoryInv'
    <3>1. TypeOK' /\ job' = job /\ UNCHANGED <<begun, answers>> /\ runs' \subseteq runs
      BY <2>4 DEF MappingChanges, vars, HistoryInv, TypeOK
    <3> QED
      BY <3>1, RowsAloneSpare
  <2> QED
    BY <2>1, <2>2, <2>3, <2>4 DEF Next
<1> QED
  BY <1>1, <1>2, PTL DEF Spec

\* Every reachable state has its type.
THEOREM HistoryTypes == Spec => []TypeOK
  BY HistoryInductive, PTL DEF HistoryInv

\* Two batches are never at work at the same time, for any number of requests,
\* sources and workers: the lock keeps requests apart, and a child has one
\* attempt.
THEOREM BatchesTakeTurns == Spec => []OneBatchAtWork
  BY HistoryInductive, PTL DEF HistoryInv

\* A repeated request gets the answer it got before.
THEOREM AnswersRepeat == Spec => []SameAnswer
<1>1. HistoryInv => SameAnswer
  <2> SUFFICES ASSUME HistoryInv, NEW k \in Keys
               PROVE  Cardinality(answers[k]) <= 1
    BY DEF SameAnswer
  <2>1. ASSUME NEW b \in answers[k], NEW c \in answers[k]
        PROVE  b = c
    <3>1. PICK i \in Requested(k) : job[i].batch = b
      BY DEF HistoryInv, AnswerInv
    <3>2. PICK j \in Requested(k) : job[j].batch = c
      BY DEF HistoryInv, AnswerInv
    <3> QED
      BY <3>1, <3>2 DEF HistoryInv, AnswerInv
  <2>2. CASE answers[k] = {}
    BY <2>2, FS_EmptySet
  <2>3. CASE answers[k] # {}
    <3>1. PICK b \in answers[k] : answers[k] = {b}
      BY <2>1, <2>3
    <3>2. Cardinality({b}) = 1
      BY FS_Singleton
    <3> QED
      BY <3>1, <3>2
  <2> QED
    BY <2>2, <2>3
<1> QED
  BY <1>1, HistoryInductive, PTL

\* No source is backfilled by two batches.
THEOREM SourcesBackfilledOnce == Spec => []BackfilledOnce
  BY HistoryInductive, PTL DEF HistoryInv
=============================================================================
