------------------------------ MODULE MappingProofs ------------------------------
(***************************************************************************)
(* Theorems of Mappings, for any mappings, identities, probes and requests,*)
(* of Probes, the evidence that Mappings takes as given, and of what the   *)
(* adapters fetch once a mapping is approved: Paging, Windows and Extracts.*)
(*                                                                         *)
(* An approval that nobody raced is known to every request that reads or   *)
(* writes after it: who holds a row of that mapping holds the row as it is,*)
(* and nobody holds its probe to retry it.  An import of TradingView's      *)
(* mapping is known likewise, and leaves the row of the registry.           *)
(*                                                                         *)
(* What a pager has received is, at every page, of the history it opened, if*)
(* the total tells of every change; what is left of a fetch in windows brings,*)
(* with what it has, each row that is wanted; and an extract is made of the*)
(* rows that its identity and description match, month by month.           *)
(***************************************************************************)
EXTENDS Mappings, Probes, Paging, Windows, Extracts, FiniteSetTheorems, FunctionTheorems, WellFoundedInduction, TLAPS

-----------------------------------------------------------------------------
(* The inductive invariant *)

ProbeStatus == {"absent", "queued", "running", "succeeded", "failed"}
ProbeRow == [status : ProbeStatus, attempts : Nat, evidence : EvidenceRow \cup {None}, approved : BOOLEAN]
Reading ==
    {NoWriter} \cup [kind : {"patch", "seed"}, of : Maps, row : MappingRow]
           \cup [kind : {"retry"}, of : Probes, row : ProbeRow]

Types ==
    /\ mapping \in [Maps -> MappingRow]
    /\ asked \subseteq Maps /\ raced \subseteq Maps
    /\ probe \in [Probes -> ProbeRow]
    /\ probing \in [Probes -> Identities \cup {None}]
    /\ writer \in [Writers -> Reading]

\* A probe tests the identity whose fingerprint it leaves, and a run has its job
\* until the job is taken from it.
ProbeOK(p) ==
    /\ probe[p].attempts <= MaxAttempts[p]
    /\ probe[p].status = "succeeded" =>
        probe[p].evidence \in EvidenceRow /\ probe[p].evidence.fingerprint = probe[p].evidence.tested
    /\ probing[p] # None => probe[p].status = "running"
    /\ p[1] \in OfTradingView => probe[p].status # "succeeded"
ProbeInv == \A p \in Probes : ProbeOK(p)

\* Ingested by an approval or an import that no request raced.
Settled(m) == m \notin raced /\ Ingested(m)

Probed(m) ==
    LET p == mapping[m].job IN
    /\ p # None /\ p[1] = m /\ probe[p].status = "succeeded" /\ probe[p].approved
    /\ probe[p].evidence.pass /\ probe[p].evidence.tested = mapping[m].identity
    /\ mapping[m].fingerprint = mapping[m].identity
Stands(m) == IF m \in OfTradingView THEN mapping[m] = TradingViewRow(m) ELSE Probed(m)
StandInv == \A m \in Maps : Settled(m) => Stands(m)

Knows(r, m) ==
    /\ writer[r].kind \in {"patch", "seed"} /\ writer[r].of = m => writer[r].row = mapping[m]
    /\ writer[r].kind = "retry" => writer[r].of # mapping[m].job
ReadInv == \A r \in Writers, m \in Maps : Settled(m) => Knows(r, m)

Inv == Types /\ ProbeInv /\ StandInv /\ ReadInv

-----------------------------------------------------------------------------
(* The rows *)

LEMMA RequestTypes ==
    ASSUME Types, NEW r \in Writers
    PROVE  /\ writer[r].kind \in {"idle", "patch", "seed", "retry"}
           /\ writer[r].kind \in {"patch", "seed"} => writer[r].of \in Maps /\ writer[r].row \in MappingRow
           /\ writer[r].kind = "retry" => writer[r].of \in Probes /\ writer[r].row \in ProbeRow
<1>1. writer[r] \in Reading
  BY DEF Types
<1>2. CASE writer[r] = NoWriter
  BY <1>2 DEF NoWriter
<1>3. CASE writer[r] \in [kind : {"patch", "seed"}, of : Maps, row : MappingRow]
  BY <1>3
<1>4. CASE writer[r] \in [kind : {"retry"}, of : Probes, row : ProbeRow]
  BY <1>4
<1> QED
  BY <1>1, <1>2, <1>3, <1>4 DEF Reading

LEMMA JobTypes ==
    ASSUME Types, NEW m \in Maps, Probed(m)
    PROVE  mapping[m].job \in Probes
<1>1. mapping[m] \in MappingRow
  BY DEF Types
<1> QED
  BY <1>1 DEF MappingRow, Probed

\* The row of the registry is one, and no probe is its job.
LEMMA TradingViewTypes ==
    ASSUME NEW m \in Maps
    PROVE  /\ TradingViewRow(m) \in MappingRow
           /\ TradingViewRow(m).job = None
           /\ TradingViewRow(m).status = "verified" <=> m \in Ready
           /\ TradingViewRow(m).primary <=> m \in Ready
<1>1. PICK st \in Blocked \cup {"verified"} : st = IF m \in Ready THEN "verified" ELSE "disabled"
  BY DEF Blocked
<1>2. PICK ready \in BOOLEAN : ready <=> m \in Ready
  OBVIOUS
<1>3. TradingViewRow(m) = [identity |-> Registered[m], status |-> st, primary |-> ready,
                           job |-> None, fingerprint |-> None]
  <2>1. (m \in Ready) = ready
    BY <1>2
  <2> QED
    BY <1>1, <2>1 DEF TradingViewRow
<1>4. Registered[m] \in Identities
  BY IdentitiesAssumption
<1>5. st = "verified" <=> m \in Ready
  BY <1>1
<1> QED
  BY <1>2, <1>3, <1>4, <1>5 DEF MappingRow

-----------------------------------------------------------------------------
(* The steps of a probe *)

\* A step of a probe that has not succeeded is none of a mapping that stands.
LEMMA ProbeMoves ==
    ASSUME Inv, NEW p \in Probes, UNCHANGED <<mapping, raced, writer>>,
           probe[p].status # "succeeded" \/ probe'[p] = probe[p],
           \A q \in Probes \ {p} : probe'[q] = probe[q]
    PROVE  StandInv' /\ ReadInv'
<1>1. \A m \in Maps : Settled(m)' <=> Settled(m)
  BY DEF Settled, Ingested
<1>2. \A m \in Maps : Settled(m) => Stands(m)'
  <2> SUFFICES ASSUME NEW m \in Maps, Settled(m) PROVE Stands(m)'
    OBVIOUS
  <2>1. Stands(m)
    BY DEF Inv, StandInv
  <2>2. ASSUME Probed(m) PROVE Probed(m)'
    <3>1. mapping[m].job \in Probes
      BY <2>2, JobTypes DEF Inv
    <3>2. probe'[mapping[m].job] = probe[mapping[m].job]
      BY <2>2, <3>1 DEF Probed
    <3> QED
      BY <2>2, <3>2 DEF Probed
  <2>3. TradingViewRow(m)' = TradingViewRow(m)
    BY DEF TradingViewRow
  <2> QED
    BY <2>1, <2>2, <2>3 DEF Stands
<1>3. \A r \in Writers, m \in Maps : Knows(r, m)' <=> Knows(r, m)
  BY DEF Knows
<1> QED
  BY <1>1, <1>2, <1>3 DEF Inv, StandInv, ReadInv

LEMMA ProbeWrite ==
    ASSUME Inv, NEW p \in Probes, UNCHANGED <<mapping, raced, writer>>, asked' \subseteq Maps,
           probe[p].status # "succeeded" \/ probe'[p] = probe[p],
           \A q \in Probes \ {p} : probe'[q] = probe[q] /\ probing'[q] = probing[q],
           probe' \in [Probes -> ProbeRow], probing' \in [Probes -> Identities \cup {None}],
           ProbeOK(p)'
    PROVE  Inv'
<1>1. Types'
  BY DEF Inv, Types
<1>2. ProbeInv'
  BY DEF Inv, ProbeInv, ProbeOK
<1>3. StandInv' /\ ReadInv'
  BY ProbeMoves
<1> QED
  BY <1>1, <1>2, <1>3 DEF Inv

LEMMA ProbeTypes ==
    ASSUME Inv, NEW p \in Probes
    PROVE  /\ probe[p] \in ProbeRow /\ probe[p].status \in ProbeStatus /\ probe[p].attempts \in Nat
           /\ probe[p].evidence \in EvidenceRow \cup {None} /\ probe[p].approved \in BOOLEAN
           /\ probing[p] \in Identities \cup {None}
           /\ MaxAttempts[p] \in Nat /\ p[1] \in Maps /\ mapping[p[1]] \in MappingRow
<1>1. probe[p] \in ProbeRow
  BY DEF Inv, Types
<1>2. p[1] \in Maps /\ MaxAttempts[p] \in Nat
  BY ProbesAssumption
<1> QED
  BY <1>1, <1>2 DEF ProbeRow, Inv, Types

LEMMA CreateKeeps ==
    ASSUME Inv, NEW p \in Probes, CreateProbe(p)
    PROVE  Inv'
<1>1. PICK row : row = [probe[p] EXCEPT !.status = "queued"]
  OBVIOUS
<1>2. probe' = [probe EXCEPT ![p] = row] /\ probe \in [Probes -> ProbeRow]
  BY <1>1 DEF CreateProbe, Inv, Types
<1>3. row \in ProbeRow /\ row.status = "queued" /\ row.attempts = probe[p].attempts
  BY <1>1, ProbeTypes DEF ProbeRow, ProbeStatus
<1>4. ProbeOK(p)'
  <2>1. ProbeOK(p) /\ probe[p].status = "absent" /\ probing' = probing /\ probe'[p] = row
    BY <1>2 DEF Inv, ProbeInv, CreateProbe
  <2> QED
    BY <2>1, <1>3 DEF ProbeOK
<1>5. asked' \subseteq Maps /\ p[1] \in Maps
  BY ProbeTypes DEF CreateProbe, Inv, Types
<1>6. probe' \in [Probes -> ProbeRow] /\ \A q \in Probes \ {p} : probe'[q] = probe[q]
  BY <1>2, <1>3
<1> QED
  BY <1>4, <1>5, <1>6, ProbeWrite DEF CreateProbe, Inv, Types

LEMMA BeginKeeps ==
    ASSUME Inv, NEW p \in Probes, BeginProbe(p)
    PROVE  Inv'
<1>1. PICK row : row = [probe[p] EXCEPT !.status = "running", !.attempts = @ + 1]
  OBVIOUS
<1>2. /\ probe' = [probe EXCEPT ![p] = row] /\ probe \in [Probes -> ProbeRow]
      /\ probe[p].status \in {"queued", "running"} /\ probe[p].attempts < MaxAttempts[p]
  BY <1>1 DEF BeginProbe, Inv, Types
<1>3. row \in ProbeRow /\ row.status = "running" /\ row.attempts = probe[p].attempts + 1
  <2>1. probe[p] \in ProbeRow /\ "running" \in ProbeStatus
    BY ProbeTypes DEF ProbeStatus
  <2>2. probe[p].attempts + 1 \in Nat
    BY ProbeTypes
  <2>3. row.status = "running" /\ row.attempts = probe[p].attempts + 1
    BY <1>1, <2>1 DEF ProbeRow
  <2>4. row \in ProbeRow
    BY <1>1, <2>1, <2>2 DEF ProbeRow
  <2> QED
    BY <2>3, <2>4
<1>4. mapping[p[1]].identity \in Identities
  BY ProbeTypes DEF MappingRow
<1>5. /\ probing' \in [Probes -> Identities \cup {None}]
      /\ \A q \in Probes \ {p} : probing'[q] = probing[q]
  BY <1>4 DEF BeginProbe, Inv, Types
<1>6. probe' \in [Probes -> ProbeRow] /\ probe'[p] = row /\ \A q \in Probes \ {p} : probe'[q] = probe[q]
  BY <1>2, <1>3
<1>7. ProbeOK(p)'
  BY <1>2, <1>3, <1>6, ProbeTypes DEF ProbeOK
<1> QED
  BY <1>2, <1>5, <1>6, <1>7, ProbeWrite DEF BeginProbe, Inv, Types

LEMMA EndKeeps ==
    ASSUME Inv, NEW p \in Probes, EndProbe(p)
    PROVE  Inv'
<1>1. ProbeOK(p) /\ probing[p] # None /\ probe[p].status = "running" /\ probing[p] \in Identities
  BY ProbeTypes DEF EndProbe, Inv, ProbeInv, ProbeOK
<1>2. probing' = [probing EXCEPT ![p] = None] /\ UNCHANGED <<mapping, asked, writer, raced>>
  BY DEF EndProbe
<1>3. /\ probing' \in [Probes -> Identities \cup {None}] /\ probing'[p] = None
      /\ \A q \in Probes \ {p} : probing'[q] = probing[q]
  BY <1>2 DEF Inv, Types
<1>4. ASSUME NEW row \in ProbeRow, probe' = [probe EXCEPT ![p] = row], row.attempts = probe[p].attempts,
             row.status = "succeeded" =>
                /\ row.evidence \in EvidenceRow /\ row.evidence.fingerprint = row.evidence.tested
                /\ p[1] \notin OfTradingView
      PROVE  Inv'
  <2>1. probe' \in [Probes -> ProbeRow] /\ probe'[p] = row /\ \A q \in Probes \ {p} : probe'[q] = probe[q]
    BY <1>4 DEF Inv, Types
  <2>2. ProbeOK(p)'
    BY <1>1, <1>3, <1>4, <2>1 DEF ProbeOK
  <2>3. asked' \subseteq Maps
    BY <1>2 DEF Inv, Types
  <2> QED
    BY <1>1, <1>2, <1>3, <2>1, <2>2, <2>3, ProbeWrite
<1>5. ASSUME NEW pass \in BOOLEAN, p[1] \notin OfTradingView,
             probe' = [probe EXCEPT ![p].status = "succeeded", ![p].evidence = Evidence(p, pass),
                                    ![p].approved = FALSE]
      PROVE  Inv'
  <2>1. PICK e : e = Evidence(p, pass)
    OBVIOUS
  <2>2. e \in EvidenceRow /\ e.fingerprint = e.tested
    BY <1>1, <2>1 DEF Evidence, EvidenceRow
  <2>3. PICK row : row = [probe[p] EXCEPT !.status = "succeeded", !.evidence = e, !.approved = FALSE]
    OBVIOUS
  <2>4. /\ row \in ProbeRow /\ row.attempts = probe[p].attempts
        /\ row.evidence = e /\ row.status = "succeeded"
    BY <2>2, <2>3, ProbeTypes DEF ProbeRow, ProbeStatus
  <2>5. probe' = [probe EXCEPT ![p] = row]
    BY <1>5, <2>1, <2>3 DEF Types
  <2> QED
    BY <1>4, <1>5, <2>2, <2>4, <2>5
<1>6. ASSUME NEW status \in {"queued", "failed"}, probe' = [probe EXCEPT ![p].status = status]
      PROVE  Inv'
  <2>1. PICK row : row = [probe[p] EXCEPT !.status = status]
    OBVIOUS
  <2>2. row \in ProbeRow /\ row.attempts = probe[p].attempts /\ row.status = status
    BY <2>1, ProbeTypes DEF ProbeRow, ProbeStatus
  <2>3. probe' = [probe EXCEPT ![p] = row]
    BY <1>6, <2>1
  <2> QED
    BY <1>4, <2>2, <2>3
<1> QED
  BY <1>5, <1>6 DEF EndProbe

LEMMA DieKeeps ==
    ASSUME Inv, NEW p \in Probes, Die(p)
    PROVE  Inv'
<1>1. /\ probing' \in [Probes -> Identities \cup {None}] /\ probing'[p] = None
      /\ \A q \in Probes \ {p} : probing'[q] = probing[q]
  BY DEF Die, Inv, Types
<1>2. ProbeOK(p)'
  BY <1>1 DEF Die, ProbeOK, Inv, ProbeInv
<1> QED
  BY <1>1, <1>2, ProbeWrite DEF Die, Inv, Types

-----------------------------------------------------------------------------
(* The approval *)

LEMMA PromotedRows ==
    ASSUME Inv, NEW p \in Probes, Approve(p)
    PROVE  /\ mapping' \in [Maps -> MappingRow]
           /\ mapping'[p[1]].job = p /\ mapping'[p[1]].identity = mapping[p[1]].identity
           /\ mapping'[p[1]].fingerprint = probe[p].evidence.fingerprint
           /\ \A m \in Maps \ {p[1]} : ~mapping'[m].primary
<1>1. p[1] \in Maps /\ mapping \in [Maps -> MappingRow] /\ probe[p].evidence.fingerprint \in Identities
  BY ProbeTypes DEF Inv, Types, ProbeInv, ProbeOK, Approve, Accepted, EvidenceRow
<1>2. PICK f : f = probe[p].evidence.fingerprint
  OBVIOUS
<1>3. \A m \in Maps :
        mapping'[m] = IF m = p[1] THEN [mapping[m] EXCEPT !.status = "verified", !.primary = TRUE,
                                                          !.job = p, !.fingerprint = f]
                      ELSE [mapping[m] EXCEPT !.primary = FALSE]
  BY <1>2 DEF Approve, Promoted
<1>4. mapping' = [m \in Maps |-> mapping'[m]]
  BY DEF Approve, Promoted
<1>5. /\ mapping'[p[1]] \in MappingRow /\ mapping'[p[1]].job = p
      /\ mapping'[p[1]].identity = mapping[p[1]].identity /\ mapping'[p[1]].fingerprint = f
  <2>1. mapping[p[1]] \in MappingRow /\ f \in Identities
    BY <1>1, <1>2
  <2>2. PICK row : row = [mapping[p[1]] EXCEPT !.status = "verified", !.primary = TRUE, !.job = p, !.fingerprint = f]
    OBVIOUS
  <2>3. row \in MappingRow /\ row.job = p /\ row.identity = mapping[p[1]].identity /\ row.fingerprint = f
    BY <2>1, <2>2 DEF MappingRow
  <2> QED
    BY <1>1, <1>3, <2>2, <2>3
<1>6. \A m \in Maps \ {p[1]} : mapping'[m] \in MappingRow /\ ~mapping'[m].primary
  <2> SUFFICES ASSUME NEW m \in Maps \ {p[1]} PROVE mapping'[m] \in MappingRow /\ ~mapping'[m].primary
    OBVIOUS
  <2>1. mapping[m] \in MappingRow /\ mapping'[m] = [mapping[m] EXCEPT !.primary = FALSE]
    BY <1>1, <1>3
  <2> QED
    BY <2>1 DEF MappingRow
<1> QED
  BY <1>1, <1>2, <1>4, <1>5, <1>6

\* Who races an approval reads the mapping or its probe before it and writes
\* after; without one, the mapping stands and nobody holds what it replaced.
LEMMA ApproveKeeps ==
    ASSUME Inv, NEW p \in Probes, Approve(p)
    PROVE  Inv'
<1>1. /\ mapping' \in [Maps -> MappingRow]
      /\ mapping'[p[1]].job = p /\ mapping'[p[1]].identity = mapping[p[1]].identity
      /\ mapping'[p[1]].fingerprint = probe[p].evidence.fingerprint
      /\ \A m \in Maps \ {p[1]} : ~mapping'[m].primary
  BY PromotedRows
<1>2. PICK row : row = [probe[p] EXCEPT !.approved = TRUE]
  OBVIOUS
<1>3. /\ row \in ProbeRow /\ row.approved /\ row.status = probe[p].status
      /\ row.attempts = probe[p].attempts /\ row.evidence = probe[p].evidence
  BY <1>2, ProbeTypes DEF ProbeRow
<1>4. /\ probe' = [probe EXCEPT ![p] = row] /\ asked' = {} /\ UNCHANGED <<probing, writer>>
      /\ raced' = IF Overlapped(p) THEN raced \cup {p[1]} ELSE raced \ {p[1]}
      /\ Accepted(p) /\ p[1] \in Maps
  BY <1>2, ProbeTypes DEF Approve
<1>5. probe' \in [Probes -> ProbeRow] /\ probe'[p] = row /\ \A q \in Probes \ {p} : probe'[q] = probe[q]
  BY <1>3, <1>4 DEF Inv, Types
<1>6. Types'
  BY <1>1, <1>4, <1>5 DEF Inv, Types
<1>7. ProbeInv'
  BY <1>3, <1>4, <1>5 DEF Inv, ProbeInv, ProbeOK
<1>8. \A m \in Maps : Settled(m)' => m = p[1] /\ ~Overlapped(p)
  BY <1>1, <1>4 DEF Settled, Ingested
<1>9. Stands(p[1])'
  <2>1. /\ probe[p].status = "succeeded" /\ probe[p].evidence.pass
        /\ probe[p].evidence.fingerprint = mapping[p[1]].identity
        /\ probe[p].evidence.fingerprint = probe[p].evidence.tested
    BY <1>4 DEF Accepted, Inv, ProbeInv, ProbeOK
  <2>2. p # None
    BY ProbesAssumption
  <2>3. p[1] \notin OfTradingView
    BY <1>4 DEF Accepted, Inv, ProbeInv, ProbeOK
  <2>4. Probed(p[1])'
    BY <1>1, <1>3, <1>5, <2>1, <2>2 DEF Probed
  <2> QED
    BY <2>3, <2>4 DEF Stands
<1>10. StandInv'
  BY <1>8, <1>9 DEF StandInv
<1>11. ReadInv'
  <2> SUFFICES ASSUME NEW r \in Writers, ~Overlapped(p) PROVE Knows(r, p[1])'
    BY <1>8 DEF ReadInv
  <2>1. writer[r].kind = "idle" \/ writer[r].of \notin {p, p[1]}
    BY DEF Overlapped
  <2> QED
    BY <1>1, <1>4, <2>1 DEF Knows
<1> QED
  BY <1>6, <1>7, <1>10, <1>11 DEF Inv

-----------------------------------------------------------------------------
(* Requests that read first and write later *)

LEMMA RequestMoves ==
    ASSUME Inv, NEW r \in Writers, NEW next \in Reading, writer' = [writer EXCEPT ![r] = next],
           UNCHANGED <<mapping, asked, probe, probing, raced>>,
           \A m \in Maps : Settled(m) =>
                /\ next.kind \in {"patch", "seed"} /\ next.of = m => next.row = mapping[m]
                /\ next.kind = "retry" => next.of # mapping[m].job
    PROVE  Inv'
<1>1. writer' \in [Writers -> Reading] /\ writer'[r] = next /\ \A q \in Writers \ {r} : writer'[q] = writer[q]
  BY DEF Inv, Types
<1>2. Types'
  BY <1>1 DEF Inv, Types
<1>3. ProbeInv'
  BY DEF Inv, ProbeInv, ProbeOK
<1>4. \A m \in Maps : (Settled(m)' <=> Settled(m)) /\ (Stands(m)' <=> Stands(m))
  BY DEF Settled, Ingested, Stands, Probed, TradingViewRow
<1>5. StandInv'
  BY <1>4 DEF Inv, StandInv
<1>6. ReadInv'
  <2> SUFFICES ASSUME NEW q \in Writers, NEW m \in Maps, Settled(m) PROVE Knows(q, m)'
    BY <1>4 DEF ReadInv
  <2>1. CASE q = r
    BY <2>1, <1>1 DEF Knows
  <2>2. CASE q # r
    BY <2>2, <1>1 DEF Knows, Inv, ReadInv
  <2> QED
    BY <2>1, <2>2
<1> QED
  BY <1>2, <1>3, <1>5, <1>6 DEF Inv

LEMMA AbandonKeeps ==
    ASSUME Inv, NEW r \in Writers, AbandonWrite(r)
    PROVE  Inv'
<1>1. NoWriter \in Reading /\ NoWriter.kind = "idle"
  BY DEF Reading, NoWriter
<1> QED
  BY <1>1, RequestMoves DEF AbandonWrite

\* A request reads the row as it is; of a probe it reads, retry_job refuses one
\* whose evidence a mapping stands on.
LEMMA ReadKeeps ==
    ASSUME Inv, NEW r \in Writers,
           \/ \E m \in Edited : BeginPatch(r, m) \/ BeginSeed(r, m)
           \/ \E p \in Retried : BeginRetry(r, p)
    PROVE  Inv'
<1>1. ASSUME NEW m \in Edited, NEW kind \in {"patch", "seed"}, Read(r, kind, m, mapping[m])
      PROVE  Inv'
  <2>1. PICK next : next = [kind |-> kind, of |-> m, row |-> mapping[m]]
    OBVIOUS
  <2>2. m \in Maps /\ mapping[m] \in MappingRow
    BY EditsAssumption DEF Inv, Types
  <2>3. next \in Reading /\ next.kind = kind /\ next.of = m /\ next.row = mapping[m]
    BY <2>1, <2>2 DEF Reading
  <2>4. writer' = [writer EXCEPT ![r] = next] /\ UNCHANGED <<mapping, asked, probe, probing, raced>>
    BY <1>1, <2>1 DEF Read
  <2> QED
    BY <2>3, <2>4, RequestMoves
<1>2. ASSUME NEW p \in Retried, BeginRetry(r, p)
      PROVE  Inv'
  <2>1. PICK next : next = [kind |-> "retry", of |-> p, row |-> probe[p]]
    OBVIOUS
  <2>2. p \in Probes
    BY ProbesAssumption
  <2>3. next \in Reading /\ next.kind = "retry" /\ next.of = p
    BY <2>1, <2>2, ProbeTypes DEF Reading
  <2>4. writer' = [writer EXCEPT ![r] = next] /\ UNCHANGED <<mapping, asked, probe, probing, raced>>
    BY <1>2, <2>1 DEF BeginRetry, Read
  <2>5. ASSUME NEW m \in Maps, Settled(m) PROVE p # mapping[m].job
    <3>1. CASE m \in OfTradingView
      BY <2>2, <2>5, <3>1, TradingViewTypes, ProbesAssumption DEF Inv, StandInv, Stands
    <3>2. CASE m \notin OfTradingView
      BY <1>2, <2>5, <3>2 DEF BeginRetry, Inv, StandInv, Stands, Probed
    <3> QED
      BY <3>1, <3>2
  <2> QED
    BY <2>3, <2>4, <2>5, RequestMoves
<1> QED
  BY <1>1, <1>2 DEF BeginPatch, BeginSeed

LEMMA MergedRow ==
    ASSUME NEW row \in MappingRow, NEW new \in MappingRow, NEW now \in MappingRow
    PROVE  /\ Merged(row, new, now) \in MappingRow
           /\ Merged(row, new, now).status = Column(row.status, new.status, now.status)
           /\ Merged(row, new, now).primary = Column(row.primary, new.primary, now.primary)
           /\ new = row => Merged(row, new, now) = now
<1>1. Merged(row, new, now) \in MappingRow
  BY DEF Merged, Column, MappingRow
<1>2. new = row => Merged(row, new, now) = now
  <2>1. now = [identity |-> now.identity, status |-> now.status, primary |-> now.primary,
               job |-> now.job, fingerprint |-> now.fingerprint]
    BY DEF MappingRow
  <2> QED
    BY <2>1 DEF Merged, Column
<1> QED
  BY <1>1, <1>2 DEF Merged

\* A write that leaves a mapping that stands verified and primary leaves it as it
\* is.
LEMMA WriteKeeps ==
    ASSUME Inv, NEW r \in Writers, writer[r].kind \in {"patch", "seed"},
           NEW new \in MappingRow, Write(r, new),
           new.status = writer[r].row.status \/ new.status \in Blocked,
           new.primary => writer[r].row.primary,
           (/\ Settled(writer[r].of) /\ writer[r].row = mapping[writer[r].of]
            /\ new.status = writer[r].row.status /\ new.primary) => new = writer[r].row
    PROVE  Inv'
<1>1. PICK m : m = writer[r].of
  OBVIOUS
<1>2. PICK row : row = writer[r].row
  OBVIOUS
<1>3. m \in Maps /\ row \in MappingRow /\ mapping[m] \in MappingRow
  BY <1>1, <1>2, RequestTypes DEF Inv, Types
<1>4. mapping' = [mapping EXCEPT ![m] = Merged(row, new, mapping[m])]
  BY <1>1, <1>2 DEF Write
<1>5. /\ mapping' \in [Maps -> MappingRow] /\ mapping'[m] = Merged(row, new, mapping[m])
      /\ \A k \in Maps \ {m} : mapping'[k] = mapping[k]
  BY <1>3, <1>4, MergedRow DEF Inv, Types
<1>6. /\ writer' = [writer EXCEPT ![r] = NoWriter] /\ UNCHANGED <<probe, probing, raced>>
      /\ asked' \subseteq Maps
  BY DEF Write, Inv, Types
<1>7. /\ writer' \in [Writers -> Reading] /\ writer'[r].kind = "idle"
      /\ \A q \in Writers \ {r} : writer'[q] = writer[q]
  <2>1. NoWriter \in Reading /\ NoWriter.kind = "idle"
    BY DEF Reading, NoWriter
  <2> QED
    BY <1>6, <2>1 DEF Inv, Types
<1>8. Types'
  BY <1>5, <1>6, <1>7 DEF Inv, Types
<1>9. ProbeInv'
  BY <1>6 DEF Inv, ProbeInv, ProbeOK
<1>10. \A k \in Maps : Settled(k)' => Settled(k) /\ mapping'[k] = mapping[k]
  <2>1. \A k \in Maps \ {m} : Settled(k)' => Settled(k) /\ mapping'[k] = mapping[k]
    BY <1>5, <1>6 DEF Settled, Ingested
  <2>2. Settled(m)' => Settled(m) /\ mapping'[m] = mapping[m]
    <3> SUFFICES ASSUME Settled(m)' PROVE Settled(m) /\ mapping'[m] = mapping[m]
      OBVIOUS
    <3>1. /\ m \notin raced
          /\ Column(row.status, new.status, mapping[m].status) = "verified"
          /\ Column(row.primary, new.primary, mapping[m].primary)
      BY <1>3, <1>5, <1>6, MergedRow DEF Settled, Ingested
    <3>2. new.status = row.status /\ mapping[m].status = "verified"
      BY <1>2, <3>1 DEF Column, Blocked
    <3>3. new.primary = row.primary /\ mapping[m].primary
      <4>1. CASE new.primary = row.primary
        BY <3>1, <4>1 DEF Column
      <4>2. CASE new.primary # row.primary
        <5>1. new.primary
          BY <3>1, <4>2 DEF Column
        <5>2. new.primary \in BOOLEAN /\ row.primary \in BOOLEAN
          BY <1>3 DEF MappingRow
        <5> QED
          BY <1>2, <4>2, <5>1, <5>2
      <4> QED
        BY <4>1, <4>2
    <3>4. Settled(m)
      BY <3>1, <3>2, <3>3 DEF Settled, Ingested
    <3>5. row = mapping[m]
      BY <1>1, <1>2, <1>3, <3>4 DEF Inv, ReadInv, Knows
    <3>6. new = row
      BY <1>1, <1>2, <3>2, <3>3, <3>4, <3>5
    <3> QED
      BY <1>3, <1>5, <3>4, <3>6, MergedRow
  <2> QED
    BY <2>1, <2>2
<1>11. StandInv'
  <2> SUFFICES ASSUME NEW k \in Maps, Settled(k)' PROVE Stands(k)'
    BY DEF StandInv
  <2>1. Stands(k) /\ mapping'[k] = mapping[k]
    BY <1>10 DEF Inv, StandInv
  <2> QED
    BY <1>6, <2>1 DEF Stands, Probed, TradingViewRow
<1>12. ReadInv'
  <2> SUFFICES ASSUME NEW q \in Writers, NEW k \in Maps, Settled(k)' PROVE Knows(q, k)'
    BY DEF ReadInv
  <2>1. Knows(q, k) /\ mapping'[k] = mapping[k]
    BY <1>10 DEF Inv, ReadInv
  <2> QED
    BY <1>7, <2>1 DEF Knows
<1> QED
  BY <1>8, <1>9, <1>11, <1>12 DEF Inv

LEMMA RevokedRow ==
    ASSUME NEW row \in MappingRow
    PROVE  /\ Revoked(row) \in MappingRow /\ ~Revoked(row).primary
           /\ Revoked(row).identity = row.identity /\ Revoked(row).status = row.status
BY DEF Revoked, MappingRow

\* An edit that leaves a row primary revokes nothing, so it changes nothing.
LEMMA PatchedRows ==
    ASSUME NEW row \in MappingRow, NEW identity \in Identities \cup {None},
           NEW status \in Statuses \cup {None}, NEW demote \in BOOLEAN
    PROVE  LET new == PatchedRow(row, identity, status, demote) IN
           /\ new \in MappingRow
           /\ new.status = row.status \/ new.status \in Blocked
           /\ new.primary => row.primary /\ new = row
<1>1. PICK changed \in BOOLEAN : changed <=> identity \notin {None, row.identity}
  OBVIOUS
<1>2. PICK revoked \in BOOLEAN : revoked <=> changed \/ status # None
  OBVIOUS
<1>3. PICK base : base = IF revoked THEN Revoked(row) ELSE [row EXCEPT !.primary = @ /\ ~demote]
  OBVIOUS
<1>4. PICK new : new = PatchedRow(row, identity, status, demote)
  OBVIOUS
<1>5. new = [base EXCEPT !.identity = IF changed THEN identity ELSE @,
                         !.status = IF status # None THEN status ELSE IF changed THEN "needs_review" ELSE @]
  BY <1>1, <1>2, <1>3, <1>4 DEF PatchedRow
<1>6. /\ base \in MappingRow /\ base.identity = row.identity /\ base.status = row.status
      /\ revoked => ~base.primary
      /\ base.primary => row.primary /\ base = row
  <2>1. CASE revoked
    BY <2>1, <1>3, RevokedRow
  <2>2. CASE ~revoked
    <3>1. base = [row EXCEPT !.primary = row.primary /\ ~demote]
      BY <2>2, <1>3
    <3>2. /\ base \in MappingRow /\ base.identity = row.identity /\ base.status = row.status
          /\ base.primary = (row.primary /\ ~demote)
      BY <3>1 DEF MappingRow
    <3>3. ASSUME base.primary PROVE row.primary /\ base = row
      <4>1. row.primary /\ ~demote
        BY <3>2, <3>3
      <4>2. base.primary = row.primary
        BY <3>2, <4>1
      <4>3. /\ row = [identity |-> row.identity, status |-> row.status, primary |-> row.primary,
                      job |-> row.job, fingerprint |-> row.fingerprint]
            /\ base = [identity |-> row.identity, status |-> row.status, primary |-> base.primary,
                       job |-> row.job, fingerprint |-> row.fingerprint]
        BY <3>1, <3>2 DEF MappingRow
      <4> QED
        BY <4>1, <4>2, <4>3
    <3> QED
      BY <2>2, <3>2, <3>3
  <2> QED
    BY <2>1, <2>2
<1>7. changed => identity \in Identities
  BY <1>1
<1>8. status # None => status \in Blocked
  BY EditsAssumption
<1>9. /\ new \in MappingRow /\ new.primary = base.primary
      /\ new.status = row.status \/ new.status \in Blocked
  <2>1. PICK i \in Identities : i = IF changed THEN identity ELSE base.identity
    BY <1>6, <1>7 DEF MappingRow
  <2>2. PICK st \in Blocked \cup {"verified"} :
            /\ st = IF status # None THEN status ELSE IF changed THEN "needs_review" ELSE base.status
            /\ st = row.status \/ st \in Blocked
    BY <1>6, <1>8 DEF MappingRow, Blocked
  <2>3. new = [base EXCEPT !.identity = i, !.status = st]
    BY <1>5, <2>1, <2>2
  <2>4. new \in MappingRow /\ new.primary = base.primary /\ new.status = st
    BY <1>6, <2>3 DEF MappingRow
  <2> QED
    BY <2>2, <2>4
<1>10. ASSUME new.primary PROVE row.primary /\ new = row
  <2>1. ~revoked /\ row.primary /\ base = row
    BY <1>6, <1>9, <1>10
  <2>2. ~changed /\ status = None
    BY <1>2, <2>1
  <2>3. new = [row EXCEPT !.identity = @, !.status = @]
    BY <1>5, <2>1, <2>2
  <2>4. new = row
    BY <2>3 DEF MappingRow
  <2> QED
    BY <2>1, <2>4
<1> QED
  BY <1>4, <1>9, <1>10

LEMMA PatchKeeps ==
    ASSUME Inv, NEW r \in Writers, CommitPatch(r)
    PROVE  Inv'
<1>1. PICK identity \in Identities \cup {None}, status \in Statuses \cup {None}, demote \in BOOLEAN :
            Write(r, PatchedRow(writer[r].row, identity, status, demote))
  BY DEF CommitPatch
<1>2. PICK row : row = writer[r].row
  OBVIOUS
<1>3. writer[r].kind = "patch" /\ row \in MappingRow
  BY <1>2, RequestTypes DEF Inv, CommitPatch
<1>4. PICK new : new = PatchedRow(row, identity, status, demote)
  OBVIOUS
<1>5. /\ new \in MappingRow
      /\ new.status = row.status \/ new.status \in Blocked
      /\ new.primary => row.primary /\ new = row
  BY <1>3, <1>4, PatchedRows
<1>6. Write(r, new)
  BY <1>1, <1>2, <1>4
<1>7. /\ writer[r].kind \in {"patch", "seed"}
      /\ new.status = writer[r].row.status \/ new.status \in Blocked
      /\ new.primary => writer[r].row.primary
      /\ new.primary => new = writer[r].row
  BY <1>2, <1>3, <1>5
<1> QED
  BY <1>5, <1>6, <1>7, WriteKeeps

\* The import that finds the row as it is, and the row standing, finds its
\* identity registered already.
LEMMA SeedKeeps ==
    ASSUME Inv, NEW r \in Writers, CommitSeed(r)
    PROVE  Inv'
<1>1. PICK m : m = writer[r].of
  OBVIOUS
<1>2. PICK row : row = writer[r].row
  OBVIOUS
<1>3. /\ writer[r].kind = "seed" /\ m \in Maps /\ row \in MappingRow /\ Registered[m] \in Identities
      /\ m \notin OfTradingView
  BY <1>1, <1>2, RequestTypes, IdentitiesAssumption DEF Inv, CommitSeed
<1>4. PICK new : new = SeededRow(m, row)
  OBVIOUS
<1>5. PICK kept \in BOOLEAN :
        kept <=> /\ m \in Ready /\ row.status = "verified" /\ row.primary
                 /\ row.job # None /\ probe[row.job].status = "succeeded"
                 /\ probe[row.job].approved /\ probe[row.job].evidence.fingerprint = Registered[m]
                 /\ row.fingerprint = Registered[m]
  OBVIOUS
<1>6. new = IF kept THEN [row EXCEPT !.identity = Registered[m]]
            ELSE [Revoked(row) EXCEPT !.identity = Registered[m],
                                      !.status = IF m \in Ready THEN "needs_review" ELSE "license_required"]
  BY <1>4, <1>5 DEF SeededRow
<1>7. CASE kept
  <2>1. new = [row EXCEPT !.identity = Registered[m]]
    BY <1>6, <1>7
  <2>2. new \in MappingRow /\ new.status = row.status /\ new.primary = row.primary
    BY <1>3, <2>1 DEF MappingRow
  <2>3. ASSUME Settled(m), row = mapping[m] PROVE new = row
    <3>1. row.identity = row.fingerprint
      BY <1>3, <2>3 DEF Inv, StandInv, Stands, Probed
    <3>2. row.identity = Registered[m]
      BY <1>5, <1>7, <3>1
    <3> QED
      BY <1>3, <2>1, <3>2 DEF MappingRow
  <2>4. /\ writer[r].kind \in {"patch", "seed"} /\ Write(r, new)
        /\ new.status = writer[r].row.status
        /\ new.primary => writer[r].row.primary
        /\ Settled(writer[r].of) /\ writer[r].row = mapping[writer[r].of] => new = writer[r].row
    BY <1>1, <1>2, <1>3, <1>4, <2>2, <2>3 DEF CommitSeed
  <2> QED
    BY <2>2, <2>4, WriteKeeps
<1>8. CASE ~kept
  <2>1. PICK st \in {"needs_review", "license_required"} : st = IF m \in Ready THEN "needs_review" ELSE "license_required"
    OBVIOUS
  <2>2. PICK base : base = Revoked(row)
    OBVIOUS
  <2>3. new = [base EXCEPT !.identity = Registered[m], !.status = st]
    BY <1>6, <1>8, <2>1, <2>2
  <2>4. base \in MappingRow /\ ~base.primary
    BY <1>3, <2>2, RevokedRow
  <2>5. new \in MappingRow /\ new.status \in Blocked /\ ~new.primary
    BY <1>3, <2>3, <2>4 DEF MappingRow, Blocked
  <2>6. writer[r].kind \in {"patch", "seed"} /\ Write(r, new)
    BY <1>1, <1>2, <1>3, <1>4 DEF CommitSeed
  <2> QED
    BY <2>5, <2>6, WriteKeeps
<1> QED
  BY <1>7, <1>8

\* An import that found the row as it is, and that nobody else holds, leaves the
\* row of the registry; one that anybody raced vouches for nothing.
LEMMA TradingViewSeedKeeps ==
    ASSUME Inv, NEW r \in Writers, CommitTradingViewSeed(r)
    PROVE  Inv'
<1>1. PICK m : m = writer[r].of
  OBVIOUS
<1>2. PICK row : row = writer[r].row
  OBVIOUS
<1>3. PICK new : new = TradingViewRow(m)
  OBVIOUS
<1>4. m \in Maps /\ m \in OfTradingView /\ row \in MappingRow /\ mapping[m] \in MappingRow /\ new \in MappingRow
  <2>1. m \in Maps /\ m \in OfTradingView /\ row \in MappingRow
    BY <1>1, <1>2, RequestTypes DEF Inv, CommitTradingViewSeed
  <2> QED
    BY <1>3, <2>1, TradingViewTypes DEF Inv, Types
<1>5. /\ mapping' = [mapping EXCEPT ![m] = Merged(row, new, mapping[m])]
      /\ raced' = IF HoldsAlso(r, m) \/ row # mapping[m] THEN raced \cup {m} ELSE raced \ {m}
      /\ asked' \subseteq Maps
      /\ writer' = [writer EXCEPT ![r] = NoWriter] /\ UNCHANGED <<probe, probing>>
  BY <1>1, <1>2, <1>3 DEF CommitTradingViewSeed, Inv, Types
<1>6. /\ mapping' \in [Maps -> MappingRow] /\ mapping'[m] = Merged(row, new, mapping[m])
      /\ \A k \in Maps \ {m} : mapping'[k] = mapping[k]
  BY <1>4, <1>5, MergedRow DEF Inv, Types
<1>7. /\ writer' \in [Writers -> Reading] /\ writer'[r].kind = "idle"
      /\ \A q \in Writers \ {r} : writer'[q] = writer[q]
  <2>1. NoWriter \in Reading /\ NoWriter.kind = "idle"
    BY DEF Reading, NoWriter
  <2> QED
    BY <1>5, <2>1 DEF Inv, Types
<1>8. Types'
  BY <1>4, <1>5, <1>6, <1>7 DEF Inv, Types
<1>9. ProbeInv'
  BY <1>5 DEF Inv, ProbeInv, ProbeOK
<1>10. ASSUME NEW k \in Maps \ {m}, Settled(k)'
       PROVE  Stands(k)' /\ \A q \in Writers : Knows(q, k)'
  <2>1. Settled(k) /\ mapping'[k] = mapping[k]
    BY <1>5, <1>6, <1>10 DEF Settled, Ingested
  <2>2. Stands(k) /\ \A q \in Writers : Knows(q, k)
    BY <2>1 DEF Inv, StandInv, ReadInv
  <2>3. Stands(k)'
    BY <1>5, <2>1, <2>2 DEF Stands, Probed, TradingViewRow
  <2> QED
    BY <1>7, <2>1, <2>2, <2>3 DEF Knows
<1>11. ASSUME Settled(m)'
       PROVE  Stands(m)' /\ \A q \in Writers : Knows(q, m)'
  <2>1. ~HoldsAlso(r, m) /\ row = mapping[m]
    BY <1>5, <1>11 DEF Settled
  <2>2. mapping'[m] = new
    <3>1. new = [identity |-> new.identity, status |-> new.status, primary |-> new.primary,
                 job |-> new.job, fingerprint |-> new.fingerprint]
      BY <1>4 DEF MappingRow
    <3> QED
      BY <1>6, <2>1, <3>1 DEF Merged, Column
  <2>3. Stands(m)'
    BY <1>3, <1>4, <2>2 DEF Stands, TradingViewRow
  <2>4. mapping'[m].job = None
    BY <1>3, <1>4, <2>2, TradingViewTypes
  <2>5. ASSUME NEW q \in Writers PROVE Knows(q, m)'
    <3>1. CASE q = r
      BY <1>7, <3>1 DEF Knows
    <3>2. CASE q # r
      <4>1. writer'[q] = writer[q] /\ ~(writer[q].kind \in {"patch", "seed"} /\ writer[q].of = m)
        BY <1>7, <2>1, <3>2 DEF HoldsAlso
      <4>2. writer[q].kind = "retry" => writer[q].of # None
        BY RequestTypes, ProbesAssumption DEF Inv
      <4> QED
        BY <2>4, <4>1, <4>2 DEF Knows
    <3> QED
      BY <3>1, <3>2
  <2> QED
    BY <2>3, <2>5
<1> QED
  BY <1>8, <1>9, <1>10, <1>11 DEF Inv, StandInv, ReadInv

\* The probe a retry takes back is none that a mapping stands on.
LEMMA RetryKeeps ==
    ASSUME Inv, NEW r \in Writers, CommitRetry(r)
    PROVE  Inv'
<1>1. PICK p : p = writer[r].of
  OBVIOUS
<1>2. writer[r].kind = "retry" /\ p \in Probes
  BY <1>1, RequestTypes DEF Inv, CommitRetry
<1>3. /\ UNCHANGED <<mapping, asked, raced>> /\ writer' = [writer EXCEPT ![r] = NoWriter]
      /\ \/ UNCHANGED <<probe, probing>>
         \/ probe' = [probe EXCEPT ![p].status = "queued"] /\ probing' = [probing EXCEPT ![p] = None]
  <2>1. CASE writer[r].row.status = "queued"
    BY <1>1, <1>2, <2>1 DEF CommitRetry, Inv, Types, ProbeRow
  <2>2. CASE writer[r].row.status # "queued"
    BY <1>1, <2>2 DEF CommitRetry
  <2> QED
    BY <2>1, <2>2 DEF CommitRetry

<1>4. PICK next : next = NoWriter
  OBVIOUS
<1>5. next \in Reading /\ next.kind = "idle" /\ writer' = [writer EXCEPT ![r] = next]
  BY <1>3, <1>4 DEF Reading, NoWriter
<1>6. CASE UNCHANGED <<probe, probing>>
  BY <1>3, <1>5, <1>6, RequestMoves
<1>7. CASE probe' = [probe EXCEPT ![p].status = "queued"] /\ probing' = [probing EXCEPT ![p] = None]
  <2>1. /\ probe[p] \in ProbeRow /\ probe'[p] = [probe[p] EXCEPT !.status = "queued"] /\ probing'[p] = None
        /\ \A q \in Probes \ {p} : probe'[q] = probe[q] /\ probing'[q] = probing[q]
    BY <1>2, <1>7 DEF Inv, Types
  <2>2. probe'[p] \in ProbeRow /\ probe'[p].attempts = probe[p].attempts /\ probe'[p].status = "queued"
    BY <2>1 DEF ProbeRow, ProbeStatus
  <2>3. probe' \in [Probes -> ProbeRow] /\ probing' \in [Probes -> Identities \cup {None}]
    BY <1>7, <2>1, <2>2 DEF Inv, Types
  <2>4. /\ writer' \in [Writers -> Reading] /\ writer'[r] = next
        /\ \A q \in Writers \ {r} : writer'[q] = writer[q]
    BY <1>5 DEF Inv, Types
  <2>5. Types'
    BY <1>3, <2>3, <2>4 DEF Inv, Types
  <2>6. ProbeInv'
    <3> SUFFICES ASSUME NEW q \in Probes PROVE ProbeOK(q)'
      BY DEF ProbeInv
    <3>1. ProbeOK(q)
      BY DEF Inv, ProbeInv
    <3>2. CASE q = p
      BY <3>1, <3>2, <2>1, <2>2 DEF ProbeOK
    <3>3. CASE q # p
      BY <3>1, <3>3, <2>1 DEF ProbeOK
    <3> QED
      BY <3>2, <3>3
  <2>7. \A m \in Maps : Settled(m)' <=> Settled(m)
    BY <1>3 DEF Settled, Ingested
  <2>8. \A m \in Maps : Settled(m) => Stands(m)'
    <3> SUFFICES ASSUME NEW m \in Maps, Settled(m) PROVE Stands(m)'
      OBVIOUS
    <3>1. Stands(m) /\ mapping[m].job # p
      BY <1>1, <1>2 DEF Inv, StandInv, ReadInv, Knows
    <3>2. ASSUME Probed(m) PROVE Probed(m)'
      <4>1. mapping[m].job \in Probes
        BY <3>2, JobTypes DEF Inv
      <4>2. probe'[mapping[m].job] = probe[mapping[m].job]
        BY <2>1, <3>1, <4>1
      <4> QED
        BY <1>3, <3>2, <4>2 DEF Probed
    <3> QED
      BY <1>3, <3>1, <3>2 DEF Stands, TradingViewRow
  <2>9. \A q \in Writers, m \in Maps : Knows(q, m) => Knows(q, m)'
    <3> SUFFICES ASSUME NEW q \in Writers, NEW m \in Maps, Knows(q, m) PROVE Knows(q, m)'
      OBVIOUS
    <3>1. CASE q = r
      BY <3>1, <1>5, <2>4 DEF Knows
    <3>2. CASE q # r
      BY <3>2, <1>3, <2>4 DEF Knows
    <3> QED
      BY <3>1, <3>2
  <2> QED
    BY <2>5, <2>6, <2>7, <2>8, <2>9 DEF Inv, StandInv, ReadInv
<1> QED
  BY <1>3, <1>6, <1>7

-----------------------------------------------------------------------------
(* Theorems *)

LEMMA InitInv ==
    ASSUME MappingsInit
    PROVE  Inv
<1>1. Types
  <2>1. ASSUME NEW m \in Maps PROVE mapping[m] \in MappingRow
    <3>1. CASE m \in OfTradingView
      BY <3>1, TradingViewTypes DEF MappingsInit
    <3>2. CASE m \notin OfTradingView
      BY <3>2, IdentitiesAssumption DEF MappingsInit, MappingRow, Blocked
    <3> QED
      BY <3>1, <3>2
  <2>2. mapping \in [Maps -> MappingRow]
    BY <2>1 DEF MappingsInit
  <2>3. NoProbe \in ProbeRow
    BY DEF NoProbe, ProbeRow, ProbeStatus
  <2>4. probe \in [Probes -> ProbeRow]
    BY <2>3 DEF MappingsInit
  <2>5. writer \in [Writers -> Reading]
    BY DEF MappingsInit, Reading
  <2> QED
    BY <2>2, <2>4, <2>5 DEF MappingsInit, Types
<1>2. ProbeInv
  <2>1. \A p \in Probes : probe[p] = NoProbe /\ probing[p] = None /\ MaxAttempts[p] \in Nat
    BY ProbesAssumption DEF MappingsInit
  <2> QED
    BY <2>1 DEF ProbeInv, ProbeOK, NoProbe
<1>3. ASSUME NEW m \in Maps, Settled(m) PROVE Stands(m)
  BY <1>3 DEF MappingsInit, Settled, Ingested, Stands
<1>4. \A r \in Writers : writer[r].kind = "idle"
  BY DEF MappingsInit, NoWriter
<1>5. ReadInv
  BY <1>4 DEF ReadInv, Knows
<1> QED
  BY <1>1, <1>2, <1>3, <1>5 DEF Inv, StandInv

LEMMA NextKeeps ==
    ASSUME Inv, MappingsNext
    PROVE  Inv'
<1>1. ASSUME NEW p \in Probes, CreateProbe(p) PROVE Inv'
  BY <1>1, CreateKeeps
<1>2. ASSUME NEW p \in Probes, BeginProbe(p) PROVE Inv'
  BY <1>2, BeginKeeps
<1>3. ASSUME NEW p \in Probes, EndProbe(p) PROVE Inv'
  BY <1>3, EndKeeps
<1>4. ASSUME NEW p \in Probes, Die(p) PROVE Inv'
  BY <1>4, DieKeeps
<1>5. ASSUME NEW p \in Probes, Approve(p) PROVE Inv'
  BY <1>5, ApproveKeeps
<1>6. ASSUME NEW r \in Writers, NEW m \in Edited, BeginPatch(r, m) \/ BeginSeed(r, m) PROVE Inv'
  BY <1>6, ReadKeeps
<1>7. ASSUME NEW r \in Writers, NEW p \in Retried, BeginRetry(r, p) PROVE Inv'
  BY <1>7, ReadKeeps
<1>8. ASSUME NEW r \in Writers, CommitPatch(r) PROVE Inv'
  BY <1>8, PatchKeeps
<1>9. ASSUME NEW r \in Writers, CommitSeed(r) PROVE Inv'
  BY <1>9, SeedKeeps
<1>10. ASSUME NEW r \in Writers, CommitRetry(r) PROVE Inv'
  BY <1>10, RetryKeeps
<1>11. ASSUME NEW r \in Writers, AbandonWrite(r) PROVE Inv'
  BY <1>11, AbandonKeeps
<1>12. ASSUME NEW r \in Writers, CommitTradingViewSeed(r) PROVE Inv'
  BY <1>12, TradingViewSeedKeeps
<1> QED
  BY <1>1, <1>2, <1>3, <1>4, <1>5, <1>6, <1>7, <1>8, <1>9, <1>10, <1>11, <1>12 DEF MappingsNext

LEMMA StutterKeeps ==
    ASSUME Inv, UNCHANGED mappingVars
    PROVE  Inv'
<1>1. Types' /\ ProbeInv'
  BY DEF Inv, mappingVars, Types, ProbeInv, ProbeOK
<1>2. \A m \in Maps : (Settled(m)' <=> Settled(m)) /\ (Stands(m)' <=> Stands(m))
  BY DEF mappingVars, Settled, Ingested, Stands, Probed, TradingViewRow
<1>3. \A r \in Writers, m \in Maps : Knows(r, m)' <=> Knows(r, m)
  BY DEF mappingVars, Knows
<1> QED
  BY <1>1, <1>2, <1>3 DEF Inv, StandInv, ReadInv

LEMMA InvHolds == MappingsSpec => []Inv
<1>1. Inv /\ [MappingsNext]_mappingVars => Inv'
  BY NextKeeps, StutterKeeps
<1>2. MappingsInit => Inv
  BY InitInv
<1> QED
  BY <1>1, <1>2, PTL DEF MappingsSpec

\* The rows, the evidence of a probe and the requests have their types, a probe
\* has succeeded only with evidence, and none is begun more often than its job allows.
THEOREM MappingTypes == MappingsSpec => []MappingsTypeOK
<1>1. Inv => MappingsTypeOK
  <2> SUFFICES ASSUME Inv PROVE MappingsTypeOK
    OBVIOUS
  <2>1. ASSUME NEW p \in Probes
        PROVE  /\ probe[p].status \in {"absent", "queued", "running", "succeeded", "failed"}
               /\ probe[p].attempts \in 0..MaxAttempts[p]
               /\ probe[p].status = "succeeded" => probe[p].evidence \in EvidenceRow
               /\ probing[p] \in Identities \cup {None}
    <3>1. ProbeOK(p) /\ probe[p].attempts \in Nat /\ MaxAttempts[p] \in Nat /\ probing[p] \in Identities \cup {None}
      BY ProbeTypes DEF Inv, ProbeInv
    <3>2. probe[p].status \in ProbeStatus
      BY ProbeTypes
    <3> QED
      BY <3>1, <3>2 DEF ProbeOK, ProbeStatus
  <2>2. \A r \in Writers : writer[r].kind \in {"idle", "patch", "seed", "retry"}
    BY RequestTypes DEF Inv
  <2> QED
    BY <2>1, <2>2 DEF MappingsTypeOK, Inv, Types
<1> QED
  BY <1>1, InvHolds, PTL

\* Of a mapping whose approval or import no edit, import or retry raced, what is
\* ingested is what a probe tested, that passed, whose evidence the mapping still
\* names, or is TradingView's mapping as the registry has it: no probe that ends
\* late, no retry and no edit after the approval or the import undoes it.
THEOREM IngestedVouchedFor == MappingsSpec => []IngestedIsVouchedFor
<1>1. Inv => IngestedIsVouchedFor
  BY DEF Inv, StandInv, Stands, Probed, Settled, IngestedIsVouchedFor
<1> QED
  BY <1>1, InvHolds, PTL

-----------------------------------------------------------------------------
(* What a probe reports *)

\* A probe that goes on has met no failure.
OutcomeInv ==
    /\ adapter \in DOMAIN Adapters /\ key \in BOOLEAN
    /\ ProbesTypeOK
    /\ found = Pending => failed = "nothing"
    /\ ClassIsEarned

LEMMA EvidenceFields ==
    ASSUME NEW stage, NEW authorized
    PROVE  /\ EvidenceAt(stage, authorized).transport = (Before[stage] > 0)
           /\ EvidenceAt(stage, authorized).http = (Before[stage] > 1)
           /\ EvidenceAt(stage, authorized).business = (Before[stage] > 2)
           /\ EvidenceAt(stage, authorized).identity = (Before[stage] > 3)
           /\ EvidenceAt(stage, authorized).authorized = authorized
  BY Zenon DEF EvidenceAt

\* The evidence of a failure has no identity, so nothing can pass on it, whatever
\* the issues the adapter names.
LEMMA FailureBlocks ==
    ASSUME NEW stage \in Stages, NEW e, ~e.identity, NEW status, Ends(stage, e, status)
    PROVE  found'.class \in {"raised", "BLOCKED"}
<1>1. Classify(e, Issues(stage)) = "BLOCKED"
  BY DEF Classify
<1>2. BlsClass(e) = "BLOCKED"
  BY DEF BlsClass
<1> DEFINE claimed == IF adapter = "BLS" THEN BlsClass(e) ELSE Classify(e, Issues(stage))
<1>3. claimed = "BLOCKED"
  BY <1>1, <1>2
<1>4. found' = Raised \/ found' = [evidence |-> e, class |-> claimed]
  BY DEF Ends, Reported
<1> QED
  BY <1>3, <1>4 DEF Raised, Pending

\* An identity that was met is worth what the key allows.
LEMMA MatchClass ==
    ASSUME OutcomeInv, Ends("nothing", EvidenceAt("nothing", Authorized), "ok")
    PROVE  found'.class \in {"raised", IF Authorized THEN "PASS" ELSE "AUTH_REQUIRED"}
<1> DEFINE e == EvidenceAt("nothing", Authorized)
           earned == IF Authorized THEN "PASS" ELSE "AUTH_REQUIRED"
           claimed == IF adapter = "BLS" THEN BlsClass(e) ELSE Classify(e, Issues("nothing"))
<1>1. e.transport /\ e.http /\ e.business /\ e.identity /\ e.authorized = Authorized
  <2>1. Before["nothing"] > 0 /\ Before["nothing"] > 1 /\ Before["nothing"] > 2 /\ Before["nothing"] > 3
    BY DEF Before
  <2> QED
    BY <2>1, EvidenceFields, Zenon
<1>2. BlsClass(e) = earned
  BY <1>1 DEF BlsClass
<1>3. adapter # "BLS" => Issues("nothing") = IF Authorized THEN {} ELSE {"authorization"}
  BY DEF Issues
<1>4. adapter # "BLS" => Classify(e, Issues("nothing")) = earned
  <2>1. CASE Authorized
    BY <1>1, <1>3, <2>1 DEF Classify
  <2>2. CASE ~Authorized
    BY <1>1, <1>3, <2>2 DEF Classify
  <2> QED
    BY <2>1, <2>2
<1>5. claimed = earned
  BY <1>2, <1>4
<1>6. found' = Raised \/ found' = [evidence |-> e, class |-> claimed]
  BY DEF Ends, Reported
<1> QED
  BY <1>5, <1>6 DEF Raised, Pending

LEMMA OneOrTwoRequests ==
    ASSUME adapter \in DOMAIN Adapters
    PROVE  A.requests \in 1..2
  BY DEF A, Adapters, Bls, Fred, Bea, Census, Eia, Treasury, NyFed, Board

\* The evidence of a stage that failed has no identity.
LEMMA NoIdentity ==
    ASSUME NEW stage \in Stages, NEW authorized
    PROVE  ~EvidenceAt(stage, authorized).identity
<1>1. ~(Before[stage] > 3)
  BY DEF Before, Stages
<1> QED
  BY <1>1, EvidenceFields, Zenon

LEMMA ProbeFails ==
    ASSUME OutcomeInv, NEW stage \in Stages, failed' = stage,
           UNCHANGED <<adapter, key>>, at' = at, found'.class \in {"raised", "BLOCKED"}
    PROVE  OutcomeInv'
<1>1. found' # Pending
  <2>1. Pending.class = "none"
    BY DEF Pending
  <2> QED
    BY <2>1
<1>2. failed' \in Stages /\ failed' # "nothing"
  BY DEF Stages
<1>3. ProbesTypeOK'
  BY <1>2 DEF OutcomeInv, ProbesTypeOK
<1>4. ClassIsEarned'
  BY <1>2 DEF ClassIsEarned, Ended
<1> QED
  BY <1>1, <1>3, <1>4 DEF OutcomeInv

LEMMA ProbesStep ==
    ASSUME OutcomeInv, [ProbesNext]_probeVars
    PROVE  OutcomeInv'
<1>1. CASE Unpinned
  <2>1. /\ failed' = "configuration" /\ "configuration" \in Stages
        /\ UNCHANGED <<adapter, key>> /\ at' = at
    BY <1>1 DEF Unpinned, Stages
  <2>2. \/ found' = Raised
        \/ Ends("configuration", EvidenceAt("configuration", Authorized), "none")
        \/ Ends("configuration", [EvidenceAt("configuration", TRUE) EXCEPT !.transport = TRUE], "none")
    BY <1>1 DEF Unpinned
  <2>3. ~[EvidenceAt("configuration", TRUE) EXCEPT !.transport = TRUE].identity
    <3>1. [EvidenceAt("configuration", TRUE) EXCEPT !.transport = TRUE].identity
             = EvidenceAt("configuration", TRUE).identity
      BY DEF EvidenceAt
    <3> QED
      BY <2>1, <3>1, NoIdentity
  <2>4. found'.class \in {"raised", "BLOCKED"}
    BY <2>1, <2>2, <2>3, FailureBlocks, NoIdentity DEF Raised, Pending
  <2> QED
    BY <2>1, <2>4, ProbeFails
<1>2. CASE KeyMissing
  <2>1. /\ failed' = "authorization" /\ "authorization" \in Stages
        /\ UNCHANGED <<adapter, key>> /\ at' = at
        /\ Ends("authorization", EvidenceAt("authorization", FALSE), "none")
    BY <1>2 DEF KeyMissing, Stages
  <2>2. found'.class \in {"raised", "BLOCKED"}
    BY <2>1, FailureBlocks, NoIdentity
  <2> QED
    BY <2>1, <2>2, ProbeFails
<1>3. CASE Send
  BY <1>3 DEF Send, OutcomeInv, ProbesTypeOK, ClassIsEarned, Ended, Authorized, A
<1>4. CASE Unreachable
  <2> DEFINE reached == IF at = 1 THEN "transport" ELSE "identity"
  <2>1. /\ failed' = "transport" /\ "transport" \in Stages /\ reached \in Stages
        /\ UNCHANGED <<adapter, key>> /\ at' = at
        /\ Ends("transport", EvidenceAt(reached, Authorized), "none")
    BY <1>4 DEF Unreachable, Stages
  <2>2. ~EvidenceAt(reached, Authorized).identity
    BY <2>1, NoIdentity
  <2>3. found'.class \in {"raised", "BLOCKED"}
    BY <2>1, <2>2, FailureBlocks
  <2> QED
    BY <2>1, <2>3, ProbeFails
<1>5. CASE Refused
  <2>1. /\ failed' = "http" /\ "http" \in Stages
        /\ UNCHANGED <<adapter, key>> /\ at' = at
        /\ Ends("http", EvidenceAt("http", Authorized), "error")
    BY <1>5 DEF Refused, RefusedStatus, Stages
  <2>2. found'.class \in {"raised", "BLOCKED"}
    BY <2>1, FailureBlocks, NoIdentity
  <2> QED
    BY <2>1, <2>2, ProbeFails
<1>6. CASE Opaque
  <2>1. failed' = "business" /\ "business" \in Stages /\ UNCHANGED <<adapter, key>> /\ at' = at
    BY <1>6 DEF Opaque, Stages
  <2>2. PICK stage \in {A.opaque, A.junk} :
           IF stage = "raise" THEN found' = Raised ELSE Ends(stage, EvidenceAt(stage, Authorized), "ok")
    BY <1>6 DEF Opaque
  <2>3. stage \in Stages \/ stage = "raise"
    BY <2>2 DEF OutcomeInv, A, Adapters, Bls, Fred, Bea, Census, Eia, Treasury, NyFed, Board, Stages
  <2>4. found'.class \in {"raised", "BLOCKED"}
    BY <2>2, <2>3, FailureBlocks, NoIdentity DEF Raised, Pending
  <2> QED
    BY <2>1, <2>4, ProbeFails
<1>7. CASE OtherIdentity
  <2>1. /\ failed' = "identity" /\ "identity" \in Stages
        /\ UNCHANGED <<adapter, key>> /\ at' = at
        /\ Ends("identity", EvidenceAt("identity", Authorized), "ok")
    BY <1>7 DEF OtherIdentity, Stages
  <2>2. found'.class \in {"raised", "BLOCKED"}
    BY <2>1, FailureBlocks, NoIdentity
  <2> QED
    BY <2>1, <2>2, ProbeFails
<1>8. CASE Matches
  <2>1. /\ failed' = failed /\ UNCHANGED <<adapter, key>> /\ failed = "nothing"
        /\ found = Pending /\ at > 0
    BY <1>8 DEF Matches, OutcomeInv
  <2>2. CASE at < A.requests
    <3>1. at' = at + 1 /\ found' = found
      BY <1>8, <2>2 DEF Matches
    <3>2. at' \in 0..2
      BY <2>2, <3>1, OneOrTwoRequests DEF OutcomeInv, ProbesTypeOK
    <3> QED
      BY <2>1, <3>1, <3>2 DEF OutcomeInv, ProbesTypeOK, ClassIsEarned, Ended, Authorized, A
  <2>3. CASE ~(at < A.requests)
    <3>1. at' = at /\ Ends("nothing", EvidenceAt("nothing", Authorized), "ok")
      BY <1>8, <2>3 DEF Matches
    <3>2. found'.class \in {"raised", IF Authorized THEN "PASS" ELSE "AUTH_REQUIRED"}
      BY <3>1, MatchClass
    <3>3. Authorized' <=> Authorized
      BY <2>1 DEF Authorized, A
    <3>4. ProbesTypeOK'
      BY <2>1, <3>1, <3>2 DEF OutcomeInv, ProbesTypeOK
    <3>5. ClassIsEarned'
      BY <2>1, <3>2, <3>3 DEF ClassIsEarned, Ended
    <3> QED
      BY <2>1, <3>4, <3>5 DEF OutcomeInv
  <2> QED
    BY <2>2, <2>3
<1>9. CASE UNCHANGED probeVars
  BY <1>9 DEF probeVars, OutcomeInv, ProbesTypeOK, ClassIsEarned, Ended, Authorized, A
<1> QED
  BY <1>1, <1>2, <1>3, <1>4, <1>5, <1>6, <1>7, <1>8, <1>9 DEF ProbesNext

\* A result says PASS only when everything that was asked was answered with what
\* is pinned and the provider's key was there, AUTH_REQUIRED only when the key
\* alone was missing, and BLOCKED in every other case, of every adapter.
THEOREM ClassEarned == ProbesSpec => []ClassIsEarned
<1>1. ProbesInit => OutcomeInv
  BY DEF ProbesInit, OutcomeInv, ProbesTypeOK, ClassIsEarned, Ended, Pending
<1>2. OutcomeInv /\ [ProbesNext]_probeVars => OutcomeInv'
  BY ProbesStep
<1>3. OutcomeInv => ClassIsEarned
  BY DEF OutcomeInv
<1> QED
  BY <1>1, <1>2, <1>3, PTL DEF ProbesSpec

-----------------------------------------------------------------------------
(* Paging *)

OneWay == changes.gained = 0 \/ changes.lost = 0

\* What the provider still has of the history that was opened, and what is known
\* of the rows received while no page was refused.
PagingInv ==
    /\ PagingTypeOK
    /\ turns = 0 => history = opened /\ pages = {} /\ count = 0 /\ OneWay
    /\ changes.gained = 0 => history \subseteq opened
    /\ changes.lost = 0 => opened \subseteq history
    /\ turns > 0 /\ declared => total = Cardinality(opened)
    /\ paged = "reading" => turns < MaxPages
    /\ paged # "raised" /\ declared /\ OneWay => Received \subseteq opened
    /\ paged = "reading" /\ "row" \in Pager.repeats => Cardinality(Received) = count
    /\ CompleteIsWhole

\* Every adapter minds a row that comes twice, at once or at the end.
LEMMA RepeatsCaught == pager \in DOMAIN Pagers => "row" \in Pager.repeats \/ "row_at_end" \in Pager.repeats
<1>1. /\ pager = "EIA" => Pager = EiaPages
      /\ pager = "FRED" => Pager = FredRows
      /\ pager = "FRED_BACKFILL" => Pager = FredBackfill
      /\ pager = "VINTAGES" => Pager = FredVintages
      /\ pager = "DOL" => Pager = Dol
      /\ pager = "DOL_WHOLE" => Pager = DolWhole
  BY DEF Pagers, Pager
<1>2. DOMAIN Pagers = {"EIA", "FRED", "FRED_BACKFILL", "VINTAGES", "DOL", "DOL_WHOLE"}
  BY DEF Pagers
<1>3. /\ "row" \in EiaPages.repeats /\ "row" \in FredRows.repeats
      /\ "row_at_end" \in FredVintages.repeats /\ "row_at_end" \in Dol.repeats
  BY DEF EiaPages, FredRows, FredVintages, Dol
<1>4. "row_at_end" \in DolWhole.repeats /\ "row" \in FredBackfill.repeats
  BY DEF Dol, DolWhole, FredRows, FredBackfill
<1> QED
  BY <1>1, <1>2, <1>3, <1>4

LEMMA SomeDates ==
    ASSUME NEW set, set \subseteq Dates
    PROVE  IsFiniteSet(set) /\ Cardinality(set) \in Nat
<1>1. IsFiniteSet(Dates) /\ set \in SUBSET Dates
  BY PagesAssumption
<1>2. IsFiniteSet(set)
  BY <1>1, FS_Subset
<1> QED
  BY <1>2, FS_CardinalityType

LEMMA PageTypes ==
    ASSUME PagingTypeOK, NEW page, page \subseteq history
    PROVE  /\ page \subseteq Dates /\ Cardinality(page) \in Nat /\ CountWith(page) \in Nat
           /\ Received \subseteq Dates /\ TotalNow \in Nat
<1>1. page \subseteq Dates /\ Received \subseteq Dates /\ history \subseteq Dates /\ count \in Nat
  BY DEF PagingTypeOK, Received
<1>2. Cardinality(page) \in Nat /\ Cardinality(history) \in Nat
  BY <1>1, SomeDates
<1> QED
  BY <1>1, <1>2 DEF CountWith, TotalNow

\* A history that has gained nothing, or lost nothing, and has as many rows as
\* it had is the one it was.
LEMMA SameTotal ==
    ASSUME PagingInv, declared, OneWay, ~ TotalChanged
    PROVE  history = opened
<1>1. CASE turns = 0
  BY <1>1 DEF PagingInv
<1>2. CASE turns # 0
  <2>1. turns > 0
    BY <1>2 DEF PagingInv, PagingTypeOK
  <2>2. Cardinality(history) = Cardinality(opened)
    BY <2>1 DEF PagingInv, TotalChanged, TotalNow
  <2>3. IsFiniteSet(history) /\ IsFiniteSet(opened)
    BY SomeDates DEF PagingInv, PagingTypeOK
  <2>4. CASE changes.gained = 0
    <3>1. history \in SUBSET opened
      BY <2>4 DEF PagingInv
    <3> QED
      BY <2>2, <2>3, <3>1, FS_Subset
  <2>5. CASE changes.lost = 0
    <3>1. opened \in SUBSET history
      BY <2>5 DEF PagingInv
    <3> QED
      BY <2>2, <2>3, <3>1, FS_Subset
  <2> QED
    BY <2>4, <2>5 DEF OneWay
<1> QED
  BY <1>1, <1>2

\* Rows that none of those received is among add up.
LEMMA RowsAddUp ==
    ASSUME PagingInv, NEW page, page \subseteq history, paged = "reading", "row" \in Pager.repeats, ~ RepeatsRow(page)
    PROVE  Cardinality(Received \cup page) = CountWith(page)
<1>1. page \cap Received = {} /\ Cardinality(Received) = count
  BY DEF RepeatsRow, PagingInv
<1>2. IsFiniteSet(page) /\ IsFiniteSet(Received) /\ Cardinality(page) \in Nat /\ Cardinality(Received) \in Nat
  BY PageTypes, SomeDates DEF PagingInv
<1>3. Cardinality(Received \cup page) = Cardinality(Received) + Cardinality(page) - Cardinality(Received \cap page)
  BY <1>2, FS_Union
<1>4. Cardinality(Received \cap page) = 0
  <2>1. Received \cap page = {}
    BY <1>1
  <2> QED
    BY <2>1, FS_EmptySet
<1> QED
  BY <1>1, <1>2, <1>3, <1>4 DEF CountWith

LEMMA TurnKeeps ==
    ASSUME PagingInv, NEW page, page \subseteq history, paged = "reading", Turn(page), paged' \in {"reading", "raised", "complete"}
    PROVE  /\ PagingTypeOK' /\ turns' > 0
           /\ Received' = Received \cup page
           /\ declared' => total' = Cardinality(opened')
           /\ UNCHANGED <<pager, declared, history, opened, changes>>
<1>1. turns \in Nat /\ MaxPages \in Nat /\ turns < MaxPages /\ total \in Nat /\ turns' = turns + 1
  BY PagesAssumption DEF PagingInv, PagingTypeOK, Turn
<1>2. TotalNow \in Nat /\ page \subseteq Dates /\ CountWith(page) \in Nat
  BY PageTypes DEF PagingInv
<1>3. turns' \in 0..MaxPages /\ total' \in Nat /\ count' \in Nat /\ pages' \subseteq SUBSET Dates
  BY <1>1, <1>2 DEF PagingInv, PagingTypeOK, Turn
<1>4. PagingTypeOK'
  BY <1>3 DEF PagingInv, PagingTypeOK, Turn
<1>5. Received' = Received \cup page
  BY DEF Received, Turn
<1>6. declared' => total' = Cardinality(opened')
  <2>1. CASE turns = 0
    BY <2>1 DEF PagingInv, Turn, TotalNow
  <2>2. CASE turns # 0
    <3>1. turns > 0
      BY <1>1, <2>2
    <3> QED
      BY <3>1, <2>2 DEF PagingInv, Turn
  <2> QED
    BY <2>1, <2>2
<1> QED
  BY <1>1, <1>4, <1>5, <1>6 DEF Turn

LEMMA RefuseKeeps ==
    ASSUME PagingInv, NEW page, page \subseteq history, Refuse(page)
    PROVE  PagingInv'
<1>1. /\ PagingTypeOK' /\ turns' > 0 /\ (declared' => total' = Cardinality(opened'))
      /\ UNCHANGED <<pager, declared, history, opened, changes>> /\ paged' = "raised"
  BY TurnKeeps DEF Refuse
<1> QED
  BY <1>1 DEF PagingInv, CompleteIsWhole, OneWay

LEMMA ContinueKeeps ==
    ASSUME PagingInv, NEW page, page \subseteq history, Continue(page)
    PROVE  PagingInv'
<1>1. /\ PagingTypeOK' /\ turns' > 0 /\ (declared' => total' = Cardinality(opened'))
      /\ Received' = Received \cup page
      /\ UNCHANGED <<pager, declared, history, opened, changes>>
      /\ paged = "reading" /\ paged' \in {"reading", "raised"} /\ Turn(page) /\ ~ PageRefused(page)
      /\ paged' = "reading" => turns + 1 # MaxPages
  BY TurnKeeps DEF Continue
<1>2. paged' = "reading" => turns' < MaxPages'
  BY <1>1, PagesAssumption DEF PagingInv, PagingTypeOK, Turn
<1>3. declared /\ OneWay => Received' \subseteq opened
  BY <1>1, SameTotal DEF PagingInv, PageRefused
<1>4. "row" \in Pager.repeats => Cardinality(Received') = count'
  BY <1>1, RowsAddUp DEF PageRefused, Turn
<1>5. Pager' = Pager /\ (OneWay' <=> OneWay)
  BY <1>1 DEF Pager, OneWay
<1> QED
  BY <1>1, <1>2, <1>3, <1>4, <1>5 DEF PagingInv, CompleteIsWhole

LEMMA FinishKeeps ==
    ASSUME PagingInv, NEW page, page \subseteq history, Finish(page)
    PROVE  PagingInv'
<1>1. /\ PagingTypeOK' /\ turns' > 0 /\ (declared' => total' = Cardinality(opened'))
      /\ Received' = Received \cup page
      /\ UNCHANGED <<pager, declared, history, opened, changes>>
      /\ paged = "reading" /\ paged' \in {"complete", "raised"} /\ Turn(page) /\ ~ PageRefused(page)
      /\ paged' = "complete" => WholeHistory(page)
  BY TurnKeeps DEF Finish
<1>2. declared /\ OneWay => history = opened /\ Received' \subseteq opened
  BY <1>1, SameTotal DEF PagingInv, PageRefused
<1>3. paged' = "complete" => Cardinality(Received') = count'
  <2> SUFFICES ASSUME paged' = "complete" PROVE Cardinality(Received \cup page) = CountWith(page)
    BY <1>1 DEF Turn
  <2>1. CASE "row" \in Pager.repeats
    BY <1>1, <2>1, RowsAddUp DEF PageRefused
  <2>2. CASE "row_at_end" \in Pager.repeats
    BY <1>1, <2>2 DEF WholeHistory, NoRowTwice
  <2> QED
    BY <2>1, <2>2, RepeatsCaught DEF PagingInv, PagingTypeOK
<1>4. paged' = "complete" /\ declared /\ OneWay => Received' = opened
  <2> SUFFICES ASSUME paged' = "complete", declared, OneWay PROVE Received' = opened
    OBVIOUS
  <2>1. CountWith(page) >= Cardinality(opened)
    <3> DEFINE expected == IF turns = 0 THEN TotalNow ELSE total
    <3>1. expected = Cardinality(opened)
      <4>1. turns \in Nat
        BY DEF PagingInv, PagingTypeOK
      <4> QED
        BY <4>1 DEF TotalNow, PagingInv
    <3>2. Cardinality(opened) \in Nat /\ CountWith(page) \in Nat
      BY PageTypes, SomeDates DEF PagingInv, PagingTypeOK
    <3>3. CountWith(page) = expected \/ CountWith(page) >= expected
      BY <1>1 DEF WholeHistory, AtHand
    <3> QED
      BY <3>1, <3>2, <3>3
  <2>2. Received' \in SUBSET opened /\ IsFiniteSet(opened) /\ Cardinality(opened) \in Nat
    BY <1>2, SomeDates DEF PagingInv, PagingTypeOK
  <2>3. IsFiniteSet(Received') /\ Cardinality(Received') <= Cardinality(opened)
    BY <2>2, FS_Subset
  <2>4. Cardinality(Received') \in Nat
    BY <2>3, FS_CardinalityType
  <2>5. Cardinality(Received') = Cardinality(opened)
    BY <1>1, <1>3, <2>1, <2>2, <2>3, <2>4 DEF Turn
  <2> QED
    BY <2>2, <2>5, FS_Subset
<1>5. Pager' = Pager /\ (OneWay' <=> OneWay)
  BY <1>1 DEF Pager, OneWay
<1> QED
  BY <1>1, <1>2, <1>3, <1>4, <1>5 DEF PagingInv, CompleteIsWhole, OneWay

LEMMA ChangeKeeps ==
    ASSUME PagingInv, NEW d \in Dates, Gains(d) \/ Loses(d)
    PROVE  PagingInv'
<1>1. /\ paged = "reading" /\ turns > 0 /\ changes.gained + changes.lost < MaxChanges
      /\ UNCHANGED <<pager, declared, ascending, opened, turns, total, pages, count, paged>>
  BY DEF Gains, Loses, Change
<1>2. changes \in [gained : Nat, lost : Nat] /\ MaxChanges \in Nat
  BY PagesAssumption DEF PagingInv, PagingTypeOK
<1>3. \/ history' = history \cup {d} /\ changes' = [changes EXCEPT !.gained = @ + 1]
      \/ history' = history \ {d} /\ changes' = [changes EXCEPT !.lost = @ + 1]
  BY DEF Gains, Loses, Change
<1>4. /\ changes' \in [gained : Nat, lost : Nat] /\ changes'.gained + changes'.lost <= MaxChanges
      /\ changes'.gained = 0 => changes.gained = 0 /\ history' \subseteq history
      /\ changes'.lost = 0 => changes.lost = 0 /\ history \subseteq history'
  BY <1>1, <1>2, <1>3
<1>5. PagingTypeOK'
  BY <1>1, <1>3, <1>4 DEF PagingInv, PagingTypeOK
<1>6. Received' = Received /\ Pager' = Pager /\ (OneWay' => OneWay)
  BY <1>1, <1>4 DEF Received, Pager, OneWay
<1>7. turns' # 0
  BY <1>1 DEF PagingInv, PagingTypeOK
<1> QED
  BY <1>1, <1>4, <1>5, <1>6, <1>7 DEF PagingInv, CompleteIsWhole

LEMMA PagingInvariant == PagingSpec => []PagingInv
<1>1. PagingInit => PagingInv
  <2> SUFFICES ASSUME PagingInit PROVE PagingInv
    OBVIOUS
  <2>1. PagingTypeOK
    BY PagesAssumption DEF PagingInit, PagingTypeOK
  <2>2. Received = {} /\ Cardinality({}) = 0 /\ 0 < MaxPages
    BY FS_EmptySet, PagesAssumption DEF PagingInit, Received
  <2> QED
    BY <2>1, <2>2 DEF PagingInit, PagingInv, OneWay, CompleteIsWhole
<1>2. PagingInv /\ [PagingNext]_pagingVars => PagingInv'
  <2> SUFFICES ASSUME PagingInv, [PagingNext]_pagingVars PROVE PagingInv'
    OBVIOUS
  <2>1. \A n \in 1..PageSize : PageOf(n) \subseteq history
    BY DEF PageOf
  <2>2. CASE \E d \in Dates : Gains(d) \/ Loses(d)
    BY <2>2, ChangeKeeps
  <2>3. CASE \E n \in 1..PageSize : Refuse(PageOf(n)) \/ Continue(PageOf(n)) \/ Finish(PageOf(n))
    BY <2>1, <2>3, RefuseKeeps, ContinueKeeps, FinishKeeps
  <2>4. CASE NoAnswer
    BY <2>4 DEF NoAnswer, PagingInv, PagingTypeOK, CompleteIsWhole, OneWay, Received, Pager
  <2>5. CASE UNCHANGED pagingVars
    BY <2>5 DEF pagingVars, PagingInv, PagingTypeOK, CompleteIsWhole, OneWay, Received, Pager
  <2> QED
    BY <2>2, <2>3, <2>4, <2>5 DEF PagingNext
<1> QED
  BY <1>1, <1>2, PTL DEF PagingSpec

\* Types of the fetch of a history by page: the counts, the rows received and the
\* outcome.
THEOREM PagingTypes == PagingSpec => []PagingTypeOK
<1>1. PagingInv => PagingTypeOK
  BY DEF PagingInv
<1> QED
  BY <1>1, PagingInvariant, PTL

\* A fetch by page of EIA, FRED or DOL that ends with all its rows has none twice,
\* and has what the provider had at the first request, unless it declared no total
\* or has both gained and lost rows since.
THEOREM CompletePages == PagingSpec => []CompleteIsWhole
<1>1. PagingInv => CompleteIsWhole
  BY DEF PagingInv
<1> QED
  BY <1>1, PagingInvariant, PTL

-----------------------------------------------------------------------------
(* Extracts *)

\* What is known of an answer: the G.17 file has a month once, and after the one before it.
Answered ==
    /\ extractor \in Extractors /\ coarse \in BOOLEAN /\ (coarse => extractor = "SDMX")
    /\ received \in Seq(AnswerRow)
G17Listed ==
    extractor = "G17" =>
        \A i \in DOMAIN received :
            /\ received[i].period # None
            /\ \A j \in DOMAIN received :
                  received[j].code = received[i].code /\ received[j].period = received[i].period => j = i
            /\ received[i].period % 2 = 0 =>
                  \E j \in 1..(i - 1) : received[j].code = received[i].code /\ received[j].period = received[i].period - 1

LEMMA RowTypes ==
    ASSUME Answered, NEW i \in DOMAIN received
    PROVE  /\ received[i] \in AnswerRow /\ i \in Nat
           /\ received[i].code \in Codes
           /\ received[i].period \in Nat \cup {None} /\ received[i].value \in Int \cup {None}
<1>1. received[i] \in AnswerRow /\ i \in Nat
  BY DEF Answered
<1>2. FinePeriods \subseteq Nat /\ Amounts \subseteq Int
  BY ExtractsAssumption DEF FinePeriods
<1> QED
  BY <1>1, <1>2 DEF AnswerRow

LEMMA FiniteLabels ==
    ASSUME Answered, NEW code
    PROVE  IsFiniteSet(Labelled(code))
<1> DEFINE all == {received[i].label : i \in DOMAIN received}
           label == [i \in DOMAIN received |-> received[i].label]
<1>1. PICK n \in Nat : DOMAIN received = 1..n
  BY DEF Answered
<1>2. IsFiniteSet(DOMAIN received)
  <2>1. 1 \in Int /\ n \in Int
    BY <1>1
  <2> QED
    BY <1>1, <2>1, FS_Interval, Zenon
<1>3. label \in [DOMAIN received -> all] /\ \A l \in all : \E i \in DOMAIN received : label[i] = l
  OBVIOUS
<1> HIDE DEF label
<1>4. label \in Surjection(DOMAIN received, all)
  BY <1>3, Fun_IsSurj
<1>5. IsFiniteSet(all)
  BY <1>2, <1>4, FS_Surjection
<1>6. Labelled(code) \in SUBSET all
  BY DEF Labelled, AnswerRows
<1> QED
  BY <1>5, <1>6, FS_Subset

\* A set of at most one has one.
LEMMA AtMostOne ==
    ASSUME NEW set, IsFiniteSet(set), ~ (Cardinality(set) > 1), NEW a \in set, NEW b \in set
    PROVE  a = b
<1> SUFFICES ASSUME a # b PROVE FALSE
  OBVIOUS
<1>1. IsFiniteSet({a}) /\ Cardinality({a}) = 1 /\ b \notin {a}
  <2>1. b \notin {a}
    OBVIOUS
  <2> QED
    BY <2>1, FS_Singleton
<1>2. Cardinality({a} \cup {b}) = 2
  <2>1. Cardinality({a} \cup {b}) = Cardinality({a}) + 1
    BY <1>1, FS_AddElement, Zenon
  <2> QED
    BY <1>1, <2>1
<1>3. ({a} \cup {b}) \in SUBSET set
  OBVIOUS
<1>4. Cardinality({a} \cup {b}) <= Cardinality(set)
  BY <1>3, FS_Subset
<1>5. Cardinality(set) \in Nat
  BY FS_CardinalityType
<1> QED
  BY <1>2, <1>4, <1>5

\* The rows that match are those of the series: a description that one identity has,
\* and nothing else, names it.
LEMMA MatchingIsMeant ==
    ASSUME Answered, ~ AnswerRefused
    PROVE  /\ \A i \in Matching : received[i] \in Meant
           /\ \A r \in Meant : \E i \in Matching : received[i] = r
<1>1. SUFFICES ASSUME NEW i \in DOMAIN received
               PROVE  RowMatches(received[i]) <=>
                        /\ IF extractor = "BEA_LABEL" THEN received[i].label = Label ELSE received[i].code = Mine
                        /\ extractor = "TREASURY" => received[i].value # None
  BY <1>1 DEF Matching, Meant, AnswerRows
<1>2. received[i] \in AnswerRows
  BY DEF AnswerRows
<1>3. CASE extractor = "BEA_CODE"
  BY <1>2, <1>3 DEF RowMatches, OfBea, Resolved
<1>4. CASE extractor = "BEA_LABEL"
  <2>1. RowMatches(received[i]) <=> Label \in Labelled(received[i].code)
    BY <1>2, <1>4 DEF RowMatches, OfBea, Resolved
  <2>2. received[i].label \in Labelled(received[i].code)
    BY <1>2 DEF Labelled
  <2>3. ~ (Cardinality(Labelled(received[i].code)) > 1)
    BY <1>4, RowTypes DEF AnswerRefused, OfBea, BeaRefuses
  <2>4. Label \in Labelled(received[i].code) => received[i].label = Label
    BY <2>2, <2>3, FiniteLabels, AtMostOne
  <2> QED
    BY <1>4, <2>1, <2>2, <2>4
<1>5. CASE extractor \notin {"BEA_CODE", "BEA_LABEL"}
  BY <1>5 DEF RowMatches, OfBea
<1> QED
  BY <1>3, <1>4, <1>5

\* The months of a year that the G.17 file lists are its first and its second.
LEMMA MonthsInOrder ==
    ASSUME Answered, G17Listed, extractor = "G17", NEW i \in Matching
    PROVE  G17Period(i) = received[i].period
<1> DEFINE p == received[i].period
           year == Year(p)
           upto == {j \in Months(year) : j <= i}
<1>1. \A j \in Matching :
        /\ j \in DOMAIN received /\ j \in Nat
        /\ received[j].code = Mine /\ received[j].period \in Nat
        /\ j \in Months(year) <=> Year(received[j].period) = year
        /\ received[j].period = p => j = i
        /\ received[j].period % 2 = 0 =>
              \E k \in 1..(j - 1) : received[k].code = Mine /\ received[k].period = received[j].period - 1
  BY RowTypes DEF Matching, RowMatches, OfBea, G17Listed, Months
<1>2. \A j \in DOMAIN received : received[j].code = Mine => j \in Matching
  BY DEF Matching, RowMatches, OfBea
<1>3. upto \subseteq Matching /\ p \in Nat /\ i \in Nat
  BY <1>1 DEF Months
<1>4. CASE p % 2 = 1
  <2>1. p = 2 * year - 1 /\ year \in Nat
    BY <1>3, <1>4 DEF Year
  <2>2. upto = {i}
    <3>1. i \in upto
      BY <1>1
    <3>2. ASSUME NEW j \in upto, j # i PROVE FALSE
      <4>1. received[j].period = p + 1 /\ j <= i /\ j \in Matching
        <5>1. Year(received[j].period) = year /\ received[j].period \in Nat /\ received[j].period # p
          BY <1>1, <1>3, <3>2
        <5>2. received[j].period = 2 * year - 1 \/ received[j].period = 2 * year
          BY <5>1 DEF Year
        <5> QED
          BY <1>3, <2>1, <3>2, <5>1, <5>2
      <4>2. received[j].period % 2 = 0
        BY <1>3, <1>4, <4>1
      <4>3. PICK k \in 1..(j - 1) : received[k].code = Mine /\ received[k].period = p
        BY <1>1, <1>3, <4>1, <4>2
      <4>4. k \in DOMAIN received /\ k # i
        BY <1>1, <1>3, <4>1, <4>3 DEF Answered
      <4> QED
        BY <1>1, <1>2, <4>3, <4>4
    <3> QED
      BY <3>1, <3>2
  <2>3. MonthOf(i) = 1
    BY <2>2, FS_Singleton DEF MonthOf
  <2> QED
    BY <1>3, <2>1, <2>3 DEF G17Period
<1>5. CASE p % 2 = 0
  <2>1. p = 2 * year /\ year \in Nat
    BY <1>3, <1>5 DEF Year
  <2>2. PICK k \in 1..(i - 1) : received[k].code = Mine /\ received[k].period = p - 1
    BY <1>1, <1>5
  <2>3. k \in Matching /\ k < i
    BY <1>1, <1>2, <1>3, <2>2 DEF Answered
  <2>4. p - 1 \in Nat /\ Year(p - 1) = year
    BY <1>1, <1>3, <2>1, <2>2, <2>3 DEF Year
  <2>5. upto = {k} \cup {i}
    <3>1. i \in upto /\ k \in upto
      BY <1>1, <1>3, <2>2, <2>3, <2>4
    <3>2. ASSUME NEW j \in upto, j # i PROVE j = k
      <4>1. Year(received[j].period) = year /\ received[j].period \in Nat /\ received[j].period # p /\ j \in Matching
        BY <1>1, <1>3, <3>2
      <4>2. received[j].period = 2 * year - 1 \/ received[j].period = 2 * year
        <5>1. \A d \in Nat : d = 2 * Year(d) - 1 \/ d = 2 * Year(d)
          BY DEF Year
        <5> QED
          BY <4>1, <5>1
      <4>3. received[j].period = p - 1
        <5> HIDE DEF year, p
        <5> QED
          BY <1>3, <2>1, <4>1, <4>2 DEF p
      <4> QED
        BY <1>1, <2>2, <2>3, <4>1, <4>3 DEF G17Listed, Matching
    <3> QED
      BY <3>1, <3>2
  <2>6. MonthOf(i) = 2
    <3>1. IsFiniteSet({k}) /\ Cardinality({k}) = 1 /\ i \notin {k}
      <4>1. k \in Nat
        BY <1>1, <2>3
      <4>2. i # k
        BY <1>3, <2>3, <4>1
      <4>3. i \notin {k}
        BY <4>2
      <4> QED
        BY <4>3, FS_Singleton
    <3>2. Cardinality({k} \cup {i}) = 2
      <4>1. Cardinality({k} \cup {i}) = IF i \in {k} THEN Cardinality({k}) ELSE Cardinality({k}) + 1
        BY ONLY <3>1, FS_AddElement, Zenon
      <4> QED
        BY ONLY <3>1, <4>1
    <3> QED
      BY <2>5, <3>2 DEF MonthOf
  <2> QED
    BY <1>3, <2>1, <2>6 DEF G17Period
<1> QED
  BY <1>3, <1>4, <1>5

Sound(set) ==
    /\ \A o \in set : o.period \in FinePeriods
    /\ {o.period : o \in set} = {Floor(r.period) : r \in Meant}
    /\ \A o, q \in set : o.period = q.period => o = q
    /\ extractor \notin {"BLS_DIFFERENCE", "NYFED_SUM"} =>
          \A r \in Meant : [period |-> Floor(r.period), value |-> r.value] \in set
    /\ extractor = "BLS_DIFFERENCE" =>
          /\ \A o \in set : o.value = None \/
                \E r, q \in Meant : r.period = o.period /\ q.period = o.period - 1 /\ o.value = r.value - q.value
          /\ \A r, q \in Meant : q.period = r.period - 1 /\ r.value # None /\ q.value # None =>
                [period |-> r.period, value |-> r.value - q.value] \in set

\* What is taken is one observation of each row, at its period or the coarser one.
LEMMA TakenOf ==
    ASSUME Answered, G17Listed, ~ AnswerRefused
    PROVE  /\ \A i \in Matching : received[i].period \in FinePeriods /\ Floor(received[i].period) \in FinePeriods
           /\ extractor # "NYFED_SUM" =>
                Taken = {[period |-> Floor(received[i].period), value |-> received[i].value] : i \in Matching}
           /\ extractor = "NYFED_SUM" =>
                Taken = {[period |-> Floor(received[i].period), value |-> SumOf(received[i].period)] : i \in Matching}
<1>1. \A i \in Matching : received[i].period \in FinePeriods
  <2> TAKE i \in Matching
  <2>1. i \in DOMAIN received /\ received[i] \in AnswerRow
    BY RowTypes DEF Matching
  <2>2. received[i].period # None
    BY <2>1 DEF AnswerRefused, Unreadable
  <2> QED
    BY <2>1, <2>2 DEF AnswerRow
<1>2. \A p \in FinePeriods : Floor(p) \in FinePeriods
  BY ExtractsAssumption DEF Floor, Year, FinePeriods
<1>3. extractor # "SDMX" => \A p : Floor(p) = p
  BY DEF Answered, Floor
<1>4. CASE extractor = "G17"
  <2>1. Taken = {[period |-> G17Period(i), value |-> received[i].value] : i \in Matching}
    BY <1>4 DEF Taken
  <2>2. \A i \in Matching : G17Period(i) = Floor(received[i].period)
    BY <1>3, <1>4, MonthsInOrder
  <2> QED
    BY <1>1, <1>2, <1>4, <2>1, <2>2
<1>5. CASE extractor = "NYFED_SUM"
  <2>1. Taken = {[period |-> received[i].period, value |-> SumOf(received[i].period)] : i \in Matching}
    BY <1>5 DEF Taken
  <2> QED
    BY <1>1, <1>2, <1>3, <1>5, <2>1
<1>6. CASE extractor \notin {"G17", "NYFED_SUM"}
  <2>1. Taken = {[period |-> Floor(received[i].period), value |-> received[i].value] : i \in Matching}
    BY <1>6 DEF Taken
  <2> QED
    BY <1>1, <1>2, <1>6, <2>1
<1> QED
  BY <1>4, <1>5, <1>6

\* What is taken, as it is, is of the series and whole.
LEMMA TakenIsSound ==
    ASSUME Answered, G17Listed, ~ AnswerRefused, ~ Conflict(Taken), extractor # "BLS_DIFFERENCE"
    PROVE  Sound(Taken)
<1>1. /\ \A i \in Matching : received[i] \in Meant
      /\ \A r \in Meant : \E i \in Matching : received[i] = r
  BY MatchingIsMeant
<1>2. \A i \in Matching : Floor(received[i].period) \in FinePeriods
  BY TakenOf
<1>3. \A o, q \in Taken : o.period = q.period => o.value = q.value
  BY DEF Conflict
<1>4. CASE extractor # "NYFED_SUM"
  <2>1. Taken = {[period |-> Floor(received[i].period), value |-> received[i].value] : i \in Matching}
    BY <1>4, TakenOf
  <2>2. \A o \in Taken : \E i \in Matching : o = [period |-> Floor(received[i].period), value |-> received[i].value]
    BY <2>1
  <2>3. \A i \in Matching : [period |-> Floor(received[i].period), value |-> received[i].value] \in Taken
    BY <2>1
  <2>4. \A r \in Meant : [period |-> Floor(r.period), value |-> r.value] \in Taken
    BY <1>1, <2>3
  <2>5. \A o \in Taken : o.period \in FinePeriods /\ \E r \in Meant : o.period = Floor(r.period)
    BY <1>1, <1>2, <2>2
  <2>6. \A o, q \in Taken : o.period = q.period => o = q
    BY <1>3, <2>2
  <2>7. {o.period : o \in Taken} = {Floor(r.period) : r \in Meant}
    <3>1. \A r \in Meant : \E o \in Taken : o.period = Floor(r.period)
      BY <2>4
    <3> QED
      BY <2>5, <3>1
  <2> QED
    BY <1>4, <2>4, <2>5, <2>6, <2>7 DEF Sound
<1>5. CASE extractor = "NYFED_SUM"
  <2>1. Taken = {[period |-> Floor(received[i].period), value |-> SumOf(received[i].period)] : i \in Matching}
    BY <1>5, TakenOf
  <2>2. \A o \in Taken : \E i \in Matching : o = [period |-> Floor(received[i].period), value |-> SumOf(received[i].period)]
    BY <2>1
  <2>3. \A i \in Matching : [period |-> Floor(received[i].period), value |-> SumOf(received[i].period)] \in Taken
    BY <2>1
  <2>4. \A r \in Meant : \E o \in Taken : o.period = Floor(r.period)
    BY <1>1, <2>3
  <2>5. \A o \in Taken : o.period \in FinePeriods /\ \E r \in Meant : o.period = Floor(r.period)
    BY <1>1, <1>2, <2>2
  <2>6. \A o, q \in Taken : o.period = q.period => o = q
    BY <1>3, <2>2
  <2>7. {o.period : o \in Taken} = {Floor(r.period) : r \in Meant}
    BY <2>4, <2>5
  <2> QED
    BY <1>5, <2>5, <2>6, <2>7 DEF Sound
<1> QED
  BY <1>4, <1>5

LEMMA SmallestOf ==
    ASSUME NEW T, T \subseteq Nat, T # {}
    PROVE  \E n \in T : \A k \in T : n <= k
<1> DEFINE less == {ss \in Nat \X Nat : ss[1] < ss[2]}
<1>1. \A k, n \in Nat : <<k, n>> \in less <=> k < n
  OBVIOUS
<1>2. IsWellFoundedOn(less, Nat)
  BY NatLessThanWellFounded DEF OpToRel
<1> HIDE DEF less
<1>3. PICK n \in T : \A k \in T : ~ (<<k, n>> \in less)
  BY <1>2, WFMin
<1>4. n \in Nat /\ \A k \in T : k \in Nat /\ ~ (k < n)
  BY <1>1, <1>3
<1> QED
  BY <1>4

\* The row before in order is the latest of those before.
LEMMA PreviousOf ==
    ASSUME NEW observed, NEW o \in observed, \A q \in observed : q.period \in Nat, EarlierThan(observed, o) # {}
    PROVE  /\ Previous(observed, o) \in EarlierThan(observed, o)
           /\ \A w \in EarlierThan(observed, o) : w.period <= Previous(observed, o).period
<1> DEFINE before == EarlierThan(observed, o)
           gaps == {o.period - q.period : q \in before}
<1>1. \A q \in before : q.period \in Nat /\ o.period \in Nat /\ o.period - q.period \in Nat
  BY DEF EarlierThan
<1>2. PICK n \in gaps : \A k \in gaps : n <= k
  <2>1. gaps \subseteq Nat /\ gaps # {}
    BY <1>1
  <2> HIDE DEF gaps
  <2> QED
    BY <2>1, SmallestOf
<1>3. PICK q \in before : n = o.period - q.period
  BY <1>2
<1>4. \A w \in before : w.period <= q.period
  <2> TAKE w \in before
  <2>1. o.period - q.period <= o.period - w.period
    BY <1>2, <1>3
  <2> QED
    BY <1>1, <2>1
<1> QED
  BY <1>3, <1>4 DEF Previous

\* A difference is of a row and the row of the period before.
LEMMA IncreaseOf ==
    ASSUME NEW observed, NEW o \in observed, \A q \in observed : q.period \in Nat,
           \A q, w \in observed : q.period = w.period => q = w
    PROVE  /\ Increase(observed, o) = None \/
                \E q \in observed : q.period = o.period - 1 /\ o.value # None /\ q.value # None
                                      /\ Increase(observed, o) = o.value - q.value
           /\ \A q \in observed : q.period = o.period - 1 /\ o.value # None /\ q.value # None =>
                Increase(observed, o) = o.value - q.value
<1> DEFINE before == EarlierThan(observed, o)
           last == Previous(observed, o)
<1>1. before # {} => last \in before /\ \A w \in before : w.period <= last.period
  BY PreviousOf
<1>2. before \subseteq observed
  BY DEF EarlierThan
<1>3. Increase(observed, o) = None \/
        /\ last \in observed /\ last.period = o.period - 1 /\ o.value # None /\ last.value # None
        /\ Increase(observed, o) = o.value - last.value
  BY <1>1, <1>2 DEF Increase
<1>4. ASSUME NEW q \in observed, q.period = o.period - 1, o.value # None, q.value # None
      PROVE  Increase(observed, o) = o.value - q.value
  <2>1. q \in before /\ o.period \in Nat
    BY <1>4 DEF EarlierThan
  <2>2. last \in observed /\ last.period \in Nat /\ last.period < o.period /\ q.period <= last.period
    BY <1>1, <1>2, <2>1 DEF EarlierThan
  <2>3. last.period = o.period - 1
    BY <1>4, <2>1, <2>2
  <2>4. last = q
    BY <1>4, <2>2, <2>3
  <2> QED
    BY <1>4, <2>1, <2>3, <2>4 DEF Increase
<1> QED
  BY <1>3, <1>4

LEMMA DifferenceIsSound ==
    ASSUME Answered, G17Listed, ~ AnswerRefused, ~ Conflict(Taken), extractor = "BLS_DIFFERENCE"
    PROVE  Sound(Difference(Taken))
<1> DEFINE all == {[period |-> received[i].period, value |-> received[i].value] : i \in Matching}
<1>1. /\ \A i \in Matching : received[i] \in Meant
      /\ \A r \in Meant : \E i \in Matching : received[i] = r
  BY MatchingIsMeant
<1>2. \A p : Floor(p) = p
  BY DEF Answered, Floor
<1>3. \A i \in Matching : received[i].period \in FinePeriods
  BY TakenOf
<1>4. Taken = all
  BY <1>2, TakenOf
<1>5. /\ \A r \in Meant : \E o \in Taken : o.period = r.period /\ o.value = r.value
      /\ \A o \in Taken : o.period \in FinePeriods /\ \E r \in Meant : o.period = r.period /\ o.value = r.value
  <2>1. \A i \in Matching : [period |-> received[i].period, value |-> received[i].value] \in Taken
    BY <1>4
  <2>2. \A o \in Taken : \E i \in Matching : o = [period |-> received[i].period, value |-> received[i].value]
    BY <1>4
  <2>3. \A r \in Meant : \E o \in Taken : o.period = r.period /\ o.value = r.value
    BY <1>1, <2>1
  <2>4. \A o \in Taken : o.period \in FinePeriods /\ \E r \in Meant : o.period = r.period /\ o.value = r.value
    <3> TAKE o \in Taken
    <3>1. PICK i \in Matching : o = [period |-> received[i].period, value |-> received[i].value]
      BY <2>2
    <3> QED
      BY <1>1, <1>3, <3>1
  <2> QED
    BY <2>3, <2>4
<1>6. \A o, q \in Taken : o.period = q.period => o = q
  <2>1. \A o \in Taken : o = [period |-> o.period, value |-> o.value]
    BY <1>4
  <2> QED
    BY <2>1 DEF Conflict
<1>7. \A o \in Taken : o.period \in Nat
  BY <1>5, ExtractsAssumption DEF FinePeriods
<1>8. \A o \in Taken :
        /\ Increase(Taken, o) = None \/
              \E q \in Taken : q.period = o.period - 1 /\ o.value # None /\ q.value # None
                                    /\ Increase(Taken, o) = o.value - q.value
        /\ \A q \in Taken : q.period = o.period - 1 /\ o.value # None /\ q.value # None =>
              Increase(Taken, o) = o.value - q.value
  BY <1>6, <1>7, IncreaseOf
<1> HIDE DEF all
<1> DEFINE result == Difference(Taken)
<1>9. /\ \A d \in result : \E o \in Taken : d = [period |-> o.period, value |-> Increase(Taken, o)]
      /\ \A o \in Taken : [period |-> o.period, value |-> Increase(Taken, o)] \in result
  BY DEF Difference
<1> HIDE DEF result
<1>10. \A d \in result : d.period \in FinePeriods
  BY <1>5, <1>9
<1>11. {d.period : d \in result} = {Floor(r.period) : r \in Meant}
  <2>1. \A d \in result : \E r \in Meant : d.period = Floor(r.period)
    BY <1>2, <1>5, <1>9
  <2>2. \A r \in Meant : \E d \in result : d.period = Floor(r.period)
    <3> TAKE r \in Meant
    <3>1. PICK o \in Taken : o.period = r.period
      BY <1>5
    <3>2. [period |-> o.period, value |-> Increase(Taken, o)] \in result
      BY <1>9
    <3> QED
      BY <1>2, <3>1, <3>2
  <2> QED
    BY <2>1, <2>2
<1>12. \A d, e \in result : d.period = e.period => d = e
  <2> SUFFICES ASSUME NEW d \in result, NEW e \in result, d.period = e.period PROVE d = e
    OBVIOUS
  <2>1. PICK o \in Taken : d = [period |-> o.period, value |-> Increase(Taken, o)]
    BY <1>9
  <2>2. PICK q \in Taken : e = [period |-> q.period, value |-> Increase(Taken, q)]
    BY <1>9
  <2>3. o = q
    BY <1>6, <2>1, <2>2
  <2> QED
    BY <2>1, <2>2, <2>3
<1>13. ASSUME NEW d \in result, d.value # None
       PROVE  \E r, q \in Meant : r.period = d.period /\ q.period = d.period - 1 /\ d.value = r.value - q.value
  <2>1. PICK o \in Taken : d = [period |-> o.period, value |-> Increase(Taken, o)]
    BY <1>9
  <2>2. PICK w \in Taken : w.period = o.period - 1 /\ Increase(Taken, o) = o.value - w.value
    BY <1>8, <1>13, <2>1
  <2>3. PICK r \in Meant : o.period = r.period /\ o.value = r.value
    BY <1>5
  <2>4. PICK q \in Meant : w.period = q.period /\ w.value = q.value
    BY <1>5
  <2> QED
    BY <2>1, <2>2, <2>3, <2>4
<1>14. ASSUME NEW r \in Meant, NEW q \in Meant, q.period = r.period - 1, r.value # None, q.value # None
       PROVE  [period |-> r.period, value |-> r.value - q.value] \in result
  <2>1. PICK o \in Taken : o.period = r.period /\ o.value = r.value
    BY <1>5
  <2>2. PICK w \in Taken : w.period = q.period /\ w.value = q.value
    BY <1>5
  <2>3. Increase(Taken, o) = o.value - w.value
    BY <1>8, <1>14, <2>1, <2>2
  <2>4. [period |-> o.period, value |-> Increase(Taken, o)] \in result
    BY <1>9
  <2> QED
    BY <2>1, <2>2, <2>3, <2>4
<1>15. Sound(result)
  BY <1>10, <1>11, <1>12, <1>13, <1>14 DEF Sound
<1> QED
  BY <1>15 DEF result

ExtractsInv == Answered /\ G17Listed /\ ExtractsTypeOK /\ WholeAndUnmixed

LEMMA ReceiveKeeps ==
    ASSUME ExtractsInv, NEW r \in AnswerRow, Receive(r)
    PROVE  ExtractsInv'
<1>1. /\ received \in Seq(AnswerRow) /\ received' = Append(received, r) /\ extracted = "reading"
      /\ Len(received) < MaxRows /\ Plausible(r)
      /\ UNCHANGED <<extractor, coarse, partial, starts, extract, extracted>>
  BY DEF ExtractsInv, Answered, Receive
<1>2. /\ received' \in Seq(AnswerRow) /\ Len(received') = Len(received) + 1
      /\ DOMAIN received = 1..Len(received) /\ DOMAIN received' = 1..(Len(received) + 1)
      /\ \A i \in DOMAIN received : received'[i] = received[i]
      /\ received'[Len(received) + 1] = r
      /\ Len(received) \in Nat
  BY <1>1
<1>3. G17Listed'
  <2> SUFFICES ASSUME extractor' = "G17", NEW i \in DOMAIN received'
               PROVE  /\ received'[i].period # None
                      /\ \A j \in DOMAIN received' :
                            received'[j].code = received'[i].code /\ received'[j].period = received'[i].period => j = i
                      /\ received'[i].period % 2 = 0 =>
                            \E j \in 1..(i - 1) :
                              received'[j].code = received'[i].code /\ received'[j].period = received'[i].period - 1
    BY DEF G17Listed
  <2>1. /\ r.period # None
        /\ r.period % 2 = 0 => \E j \in DOMAIN received : received[j].code = r.code /\ received[j].period = r.period - 1
        /\ \A j \in DOMAIN received : ~ (received[j].code = r.code /\ received[j].period = r.period)
    BY <1>1 DEF Plausible, AnswerRows
  <2>2. G17Listed /\ extractor = "G17"
    BY <1>1 DEF ExtractsInv
  <2>3. CASE i \in DOMAIN received
    <3>1. received'[i] = received[i]
      BY <1>2, <2>3
    <3>2. ASSUME NEW j \in DOMAIN received', received'[j].code = received'[i].code, received'[j].period = received'[i].period
          PROVE  j = i
      <4>1. CASE j \in DOMAIN received
        BY <1>2, <2>2, <2>3, <3>1, <3>2, <4>1 DEF G17Listed
      <4>2. CASE j = Len(received) + 1
        BY <1>2, <2>1, <2>3, <3>1, <3>2, <4>2
      <4> QED
        BY <1>2, <4>1, <4>2
    <3>3. ASSUME received'[i].period % 2 = 0
          PROVE  \E j \in 1..(i - 1) :
                    received'[j].code = received'[i].code /\ received'[j].period = received'[i].period - 1
      <4>1. PICK j \in 1..(i - 1) : received[j].code = received[i].code /\ received[j].period = received[i].period - 1
        BY <2>2, <2>3, <3>1, <3>3 DEF G17Listed
      <4>2. j \in DOMAIN received
        BY <1>2, <2>3, <4>1
      <4> QED
        BY <1>2, <3>1, <4>1, <4>2
    <3> QED
      BY <2>2, <2>3, <3>1, <3>2, <3>3 DEF G17Listed
  <2>4. CASE i = Len(received) + 1
    <3>1. received'[i] = r
      BY <1>2, <2>4
    <3>2. ASSUME NEW j \in DOMAIN received', received'[j].code = r.code, received'[j].period = r.period
          PROVE  j = i
      BY <1>2, <2>1, <2>4, <3>2
    <3>3. ASSUME r.period % 2 = 0
          PROVE  \E j \in 1..(i - 1) : received'[j].code = r.code /\ received'[j].period = r.period - 1
      <4>1. PICK j \in DOMAIN received : received[j].code = r.code /\ received[j].period = r.period - 1
        BY <2>1, <3>3
      <4>2. j \in 1..(i - 1) /\ received'[j] = received[j]
        BY <1>2, <2>4, <4>1
      <4> QED
        BY <4>1, <4>2
    <3> QED
      BY <2>1, <3>1, <3>2, <3>3
  <2> QED
    BY <1>2, <2>3, <2>4
<1>4. Answered' /\ ExtractsTypeOK'
  <2>1. Len(received) + 1 <= MaxRows
    BY <1>1, <1>2, ExtractsAssumption
  <2> QED
    BY <1>1, <1>2, <2>1 DEF ExtractsInv, Answered, ExtractsTypeOK
<1> QED
  BY <1>1, <1>3, <1>4 DEF ExtractsInv, WholeAndUnmixed

LEMMA ExtractKeeps ==
    ASSUME ExtractsInv, Extract
    PROVE  ExtractsInv'
<1>1. /\ UNCHANGED <<extractor, coarse, partial, starts, received>> /\ extracted' \in {"raised", "accepted"}
      /\ extracted' = "accepted" => ~ AnswerRefused /\ ~ Conflict(Taken) /\ extract' = Transformed(Taken)
      /\ extracted' = "raised" => extract' = {}
  BY DEF Extract
<1>2. extracted' = "accepted" => Sound(extract')
  BY <1>1, TakenIsSound, DifferenceIsSound DEF ExtractsInv, Transformed
<1>3. Meant' = Meant /\ \A p : Floor(p)' = Floor(p)
  BY <1>1 DEF Meant, AnswerRows, Floor
<1>4. WholeAndUnmixed' /\ \A o \in extract' : o.period \in FinePeriods
  BY <1>1, <1>2, <1>3 DEF WholeAndUnmixed, Sound
<1> QED
  BY <1>1, <1>4 DEF ExtractsInv, Answered, G17Listed, ExtractsTypeOK

LEMMA ExtractsInvariant == ExtractsSpec => []ExtractsInv
<1>1. ExtractsInit => ExtractsInv
  BY ExtractsAssumption DEF ExtractsInit, ExtractsInv, Answered, G17Listed, ExtractsTypeOK, WholeAndUnmixed
<1>2. ExtractsInv /\ [ExtractsNext]_extractVars => ExtractsInv'
  <2> SUFFICES ASSUME ExtractsInv, [ExtractsNext]_extractVars PROVE ExtractsInv'
    OBVIOUS
  <2>1. CASE \E r \in AnswerRow : Receive(r)
    BY <2>1, ReceiveKeeps
  <2>2. CASE Extract
    BY <2>2, ExtractKeeps
  <2>3. CASE UNCHANGED extractVars
    <3>1. Meant' = Meant /\ \A p : Floor(p)' = Floor(p)
      BY <2>3 DEF extractVars, Meant, AnswerRows, Floor
    <3>2. WholeAndUnmixed'
      BY <2>3, <3>1 DEF extractVars, ExtractsInv, WholeAndUnmixed
    <3> QED
      BY <2>3, <3>2 DEF extractVars, ExtractsInv, Answered, G17Listed, ExtractsTypeOK
  <2> QED
    BY <2>1, <2>2, <2>3 DEF ExtractsNext
<1> QED
  BY <1>1, <1>2, PTL DEF ExtractsSpec

\* Types of what is taken of an answer with many series: the rows, and the periods
\* of the observations, which the coarser ones are among.
THEOREM ExtractTypes == ExtractsSpec => []ExtractsTypeOK
<1>1. ExtractsInv => ExtractsTypeOK
  BY DEF ExtractsInv
<1> QED
  BY <1>1, ExtractsInvariant, PTL

\* What the adapters of BLS, BEA, Census, the Federal Reserve, the Treasury and the
\* NY Fed accept of an answer has each period of the series the mapping names, once,
\* with the value of its rows and never those of a series that shares its code or its
\* description, and a derived value is the change since the period before.
THEOREM ExtractsUnmixed == ExtractsSpec => []WholeAndUnmixed
<1>1. ExtractsInv => WholeAndUnmixed
  BY DEF ExtractsInv
<1> QED
  BY <1>1, ExtractsInvariant, PTL

-----------------------------------------------------------------------------
(* Windows *)

\* A number up to a length is in one of the runs that the length is cut into.
LEMMA InSomeRun ==
    ASSUME NEW length \in Nat, NEW run \in Nat \ {0}, NEW n \in 1..length
    PROVE  \E i \in 1..Runs(length, run) : n \in (i - 1) * run + 1..i * run
<1> DEFINE i == (n + run - 1) \div run
           r == (n + run - 1) % run
           d == (length + run - 1) \div run
           rest == (length + run - 1) % run
<1>1. i \in Int /\ r \in 0..(run - 1) /\ n + run - 1 = run * i + r
  OBVIOUS
<1>2. d \in Int /\ rest \in 0..(run - 1) /\ length + run - 1 = run * d + rest
  OBVIOUS
<1>3. Runs(length, run) = d
  BY DEF Runs
<1> HIDE DEF i, r, d, rest
<1>4. i * run >= n /\ (i - 1) * run + 1 <= n /\ i * run \in Int /\ (i - 1) * run + 1 \in Int
  <2>1. (i - 1) * run = i * run - run /\ i * run = run * i
    BY <1>1
  <2> QED
    BY <1>1, <2>1
<1>5. i >= 1
  <2>1. CASE i <= 0
    <3>1. run * i <= run * 0
      BY <1>1, <2>1
    <3> QED
      BY <1>1, <3>1
  <2> QED
    BY <1>1, <2>1
<1>6. i <= d
  <2>1. CASE i >= d + 1
    <3>1. run * i >= run * (d + 1)
      BY <1>1, <1>2, <2>1
    <3>2. run * (d + 1) = run * d + run
      BY <1>2
    <3> QED
      BY <1>1, <1>2, <3>1, <3>2
  <2> QED
    BY <1>1, <1>2, <2>1
<1>7. i \in 1..Runs(length, run)
  BY <1>1, <1>2, <1>3, <1>5, <1>6
<1> QED
  BY <1>1, <1>4, <1>7

\* The windows of a fetch have every year of it and no other.
LEMMA YearWindowsHave ==
    ASSUME NEW first \in Nat, NEW last \in Nat, NEW span \in Nat \ {0}
    PROVE  /\ \A w \in YearWindows(first, last, span) : w.first \in Nat /\ w.last \in Nat /\ first <= w.first /\ w.last <= last
           /\ \A year \in first..last : \E w \in YearWindows(first, last, span) : w.first <= year /\ year <= w.last
<1>1. ASSUME NEW w \in YearWindows(first, last, span)
      PROVE  w.first \in Nat /\ w.last \in Nat /\ first <= w.first /\ w.last <= last
  <2>1. PICK i \in 1..Runs(last - first + 1, span) :
            w = [first |-> first + (i - 1) * span, last |-> Smaller(first + i * span - 1, last)]
    BY DEF YearWindows
  <2>2. i \in Nat \ {0}
    BY <2>1
  <2>3. (i - 1) * span \in Nat /\ i * span \in Nat \ {0}
    BY <2>2
  <2> QED
    BY <2>1, <2>3 DEF Smaller
<1>2. ASSUME NEW year \in first..last
      PROVE  \E w \in YearWindows(first, last, span) : w.first <= year /\ year <= w.last
  <2>1. last - first + 1 \in Nat /\ year - first + 1 \in 1..(last - first + 1)
    OBVIOUS
  <2>2. PICK i \in 1..Runs(last - first + 1, span) : year - first + 1 \in (i - 1) * span + 1..i * span
    BY <2>1, InSomeRun
  <2>3. (i - 1) * span + 1 <= year - first + 1 /\ year - first + 1 <= i * span
    BY <2>2
  <2>4. (i - 1) * span \in Int /\ i * span \in Int
    BY <2>2
  <2>5. first + (i - 1) * span <= year /\ year <= Smaller(first + i * span - 1, last)
    BY <2>3, <2>4 DEF Smaller
  <2> DEFINE w == [first |-> first + (i - 1) * span, last |-> Smaller(first + i * span - 1, last)]
  <2>6. w \in YearWindows(first, last, span) /\ w.first <= year /\ year <= w.last
    BY <2>2, <2>5 DEF YearWindows
  <2> QED
    BY <2>6
<1> QED
  BY <1>1, <1>2

\* The batches of a set of series have every one of them and no other.
LEMMA BatchesHave ==
    ASSUME NEW set, set \subseteq Series
    PROVE  /\ \A batch \in Batches(set) : batch \subseteq set
           /\ \A s \in set : \E batch \in Batches(set) : s \in batch
<1>1. \A batch \in Batches(set) : batch \subseteq set
  BY DEF Batches, BatchOf
<1>2. ASSUME NEW s \in set PROVE \E batch \in Batches(set) : s \in batch
  <2>1. set \in SUBSET Series /\ IsFiniteSet(Series) /\ Batch \in Nat \ {0} /\ s \in Nat
    BY WindowsAssumption
  <2>2. IsFiniteSet(set) /\ Cardinality(set) \in Nat
    BY <2>1, FS_Subset, FS_CardinalityType
  <2> DEFINE upto == {t \in set : t <= s}
  <2>3. upto \in SUBSET set /\ s \in upto
    BY <2>1
  <2>4. IsFiniteSet(upto) /\ Cardinality(upto) <= Cardinality(set)
    BY <2>2, <2>3, FS_Subset
  <2>5. Cardinality(upto) \in Nat /\ Cardinality(upto) # 0
    BY <2>3, <2>4, FS_CardinalityType, FS_EmptySet
  <2>6. NumberIn(set, s) \in 1..Cardinality(set)
    <3>1. NumberIn(set, s) = Cardinality(upto)
      BY DEF NumberIn
    <3> QED
      BY <2>2, <2>4, <2>5, <3>1
  <2>7. PICK k \in 1..Runs(Cardinality(set), Batch) : NumberIn(set, s) \in (k - 1) * Batch + 1..k * Batch
    BY <2>1, <2>2, <2>6, InSomeRun
  <2>8. s \in BatchOf(set, k) /\ BatchOf(set, k) \in Batches(set)
    BY <2>7 DEF BatchOf, Batches
  <2> QED
    BY <2>8
<1> QED
  BY <1>1, <1>2

Pin == {y \in [first : Years, last : Years] : y.first <= y.last}
Fetch ==
    /\ fetcher \in {"BLS", "NYFED", "TREASURY", "VINTAGES"} /\ backfill \in BOOLEAN
    /\ today \in {2 * LastYear, 2 * LastYear + 1}
    /\ pin \in [Series -> Pin]
RequestRow == [series : SUBSET Series, first : Nat, last : Nat]
Brings(request, s, p) ==
    /\ s \in request.series /\ p \in HeldOf(s) /\ p \in request.first..request.last
    /\ fetcher = "BLS" => YearOf(p) \in pin[s].first..pin[s].last

LEMMA FetchTypes ==
    ASSUME Fetch
    PROVE  /\ today \in Nat /\ ThisYear = LastYear /\ ThisYear \in Nat /\ FirstPinned \in Nat
           /\ BlsStart \in Nat /\ TreasuryStart \in Nat /\ VintageStart \in Nat
           /\ \A s \in Series : NyFedStart(s) \in Nat /\ pin[s].first \in Nat /\ pin[s].last \in Nat
<1>1. LastYear \in Nat /\ Recent \in Nat /\ Recent < LastYear /\ Series # {}
  BY WindowsAssumption
<1>2. today \in Nat /\ ThisYear = LastYear
  BY <1>1 DEF Fetch, ThisYear, YearOf
<1>3. \A s \in Series : pin[s].first \in Nat /\ pin[s].last \in Nat
  BY <1>1 DEF Fetch, Pin, Years
<1>4. FirstPinned \in Nat
  <2> DEFINE T == {pin[s].first : s \in Series}
  <2>1. T \subseteq Nat /\ T # {}
    BY <1>1, <1>3
  <2>2. PICK n \in T : \A k \in T : n <= k
    BY <2>1, SmallestOf
  <2>3. Min(T) \in T
    BY <2>2 DEF Min
  <2> QED
    BY <2>1, <2>3 DEF FirstPinned
<1>5. \A s \in Series : NyFedStart(s) \in Nat
  <2> TAKE s \in Series
  <2>1. pin[s].first \in Nat /\ today - 2 * Recent \in Int
    BY <1>1, <1>2, <1>3
  <2> QED
    BY <2>1 DEF NyFedStart, Larger
<1> QED
  BY <1>1, <1>2, <1>3, <1>4, <1>5 DEF BlsStart, TreasuryStart, VintageStart

\* The requests of BLS, a batch of the series that the window's years touch each.
LEMMA BlsCovers ==
    ASSUME Fetch, fetcher = "BLS", NEW s \in Series, NEW p \in Halves
    PROVE  /\ Plan \subseteq RequestRow
           /\ p \in HeldOf(s) \cap Wanted(s) <=> \E request \in Plan : Brings(request, s, p)
<1>1. Plan = BlsRequests
  BY DEF Plan
<1>2. /\ BlsStart \in Nat /\ ThisYear \in Nat /\ today \in Nat /\ p \in Nat /\ YearOf(p) \in Nat
      /\ pin[s].first \in Nat /\ pin[s].last \in Nat
      /\ p <= today => YearOf(p) <= ThisYear
  <2>1. today \in Nat /\ p \in Nat
    BY FetchTypes, WindowsAssumption DEF Halves
  <2>2. YearOf(p) \in Nat /\ (p <= today => YearOf(p) <= ThisYear)
    BY <2>1 DEF YearOf, ThisYear
  <2> QED
    BY <2>1, <2>2, FetchTypes
<1>3. p \in Wanted(s) <=>
        p <= today /\ BlsStart <= YearOf(p) /\ pin[s].first <= YearOf(p) /\ YearOf(p) <= pin[s].last
  <2>1. p \in Wanted(s) <=> p <= today /\ YearOf(p) \in Larger(BlsStart, pin[s].first)..pin[s].last
    BY DEF Wanted
  <2>2. YearOf(p) \in Larger(BlsStart, pin[s].first)..pin[s].last
          <=> BlsStart <= YearOf(p) /\ pin[s].first <= YearOf(p) /\ YearOf(p) <= pin[s].last
    BY <1>2 DEF Larger
  <2> QED
    BY <2>1, <2>2
<1>4. /\ \A w \in YearWindows(BlsStart, ThisYear, Span) :
            w.first \in Nat /\ w.last \in Nat /\ BlsStart <= w.first /\ w.last <= ThisYear
      /\ \A year \in BlsStart..ThisYear : \E w \in YearWindows(BlsStart, ThisYear, Span) : w.first <= year /\ year <= w.last
  <2>1. Span \in Nat \ {0}
    BY WindowsAssumption
  <2> QED
    BY <1>2, <2>1, YearWindowsHave
<1>5. \A w : Eligible(w) \subseteq Series
  BY DEF Eligible
<1>6. ASSUME NEW request \in Plan
      PROVE  \E w \in YearWindows(BlsStart, ThisYear, Span) : \E batch \in Batches(Eligible(w)) :
                request = [series |-> batch, first |-> 2 * w.first, last |-> 2 * w.last + 1]
  BY <1>1 DEF BlsRequests
<1>7. ASSUME NEW w \in YearWindows(BlsStart, ThisYear, Span), NEW batch \in Batches(Eligible(w))
      PROVE  [series |-> batch, first |-> 2 * w.first, last |-> 2 * w.last + 1] \in Plan
  BY <1>1 DEF BlsRequests
<1>8. Plan \subseteq RequestRow
  <2> SUFFICES ASSUME NEW request \in Plan PROVE request \in RequestRow
    OBVIOUS
  <2>1. PICK w \in YearWindows(BlsStart, ThisYear, Span) : \E batch \in Batches(Eligible(w)) :
                request = [series |-> batch, first |-> 2 * w.first, last |-> 2 * w.last + 1]
    BY <1>6
  <2>2. PICK batch \in Batches(Eligible(w)) : request = [series |-> batch, first |-> 2 * w.first, last |-> 2 * w.last + 1]
    BY <2>1
  <2>3. batch \subseteq Series /\ w.first \in Nat /\ w.last \in Nat
    BY <1>4, <1>5, BatchesHave
  <2> QED
    BY <2>2, <2>3 DEF RequestRow
<1>9. ASSUME NEW request \in Plan, Brings(request, s, p) PROVE p \in HeldOf(s) \cap Wanted(s)
  <2>1. PICK w \in YearWindows(BlsStart, ThisYear, Span) : \E batch \in Batches(Eligible(w)) :
                request = [series |-> batch, first |-> 2 * w.first, last |-> 2 * w.last + 1]
    BY <1>6
  <2>2. p \in HeldOf(s) /\ p <= today /\ 2 * w.first <= p /\ YearOf(p) \in pin[s].first..pin[s].last
    BY <1>4, <1>9, <2>1 DEF Brings, HeldOf
  <2>3. w.first <= YearOf(p)
    BY <1>2, <1>4, <2>2 DEF YearOf
  <2> QED
    BY <1>2, <1>3, <1>4, <2>2, <2>3
<1>10. ASSUME p \in HeldOf(s) \cap Wanted(s) PROVE \E request \in Plan : Brings(request, s, p)
  <2>1. /\ p <= today /\ p \in HeldOf(s) /\ YearOf(p) \in BlsStart..ThisYear
        /\ pin[s].first <= YearOf(p) /\ YearOf(p) <= pin[s].last
    BY <1>2, <1>3, <1>10
  <2>2. PICK w \in YearWindows(BlsStart, ThisYear, Span) : w.first <= YearOf(p) /\ YearOf(p) <= w.last
    BY <1>4, <2>1
  <2>3. s \in Eligible(w)
    BY <1>2, <1>4, <2>1, <2>2 DEF Eligible
  <2>4. PICK batch \in Batches(Eligible(w)) : s \in batch
    BY <1>5, <2>3, BatchesHave
  <2> DEFINE request == [series |-> batch, first |-> 2 * w.first, last |-> 2 * w.last + 1]
  <2>5. request \in Plan
    BY <1>7
  <2>6. 2 * w.first <= p /\ p <= 2 * w.last + 1
    BY <1>2, <1>4, <2>2 DEF YearOf
  <2>7. Brings(request, s, p)
    BY <1>2, <1>4, <2>1, <2>4, <2>6 DEF Brings
  <2> QED
    BY <2>5, <2>7
<1> QED
  BY <1>8, <1>9, <1>10

LEMMA NyFedCovers ==
    ASSUME Fetch, fetcher = "NYFED", NEW s \in Series, NEW p \in Halves
    PROVE  /\ Plan \subseteq RequestRow
           /\ p \in HeldOf(s) \cap Wanted(s) <=> \E request \in Plan : Brings(request, s, p)
<1>1. Plan = NyFedRequests
  BY DEF Plan
<1>2. today \in Nat /\ p \in Nat /\ \A t \in Series : NyFedStart(t) \in Nat
  BY FetchTypes, WindowsAssumption DEF Halves
<1>3. p \in Wanted(s) <=> p <= today /\ p >= NyFedStart(s)
  BY DEF Wanted
<1>4. p \in HeldOf(s) => p <= today
  BY DEF HeldOf
<1>5. CASE backfill
  <2>1. \A request : request \in Plan <=>
            \E t \in Series : \E y \in YearOf(NyFedStart(t))..YearOf(today) :
                request = [series |-> {t}, first |-> Larger(NyFedStart(t), 2 * y), last |-> Smaller(today, 2 * y + 1)]
    BY <1>1, <1>5 DEF NyFedRequests, AnnualWindows
  <2>2. ASSUME NEW t \in Series, NEW y \in YearOf(NyFedStart(t))..YearOf(today)
        PROVE  /\ y \in Nat
               /\ Larger(NyFedStart(t), 2 * y) \in Nat /\ Smaller(today, 2 * y + 1) \in Nat
               /\ p \in Larger(NyFedStart(t), 2 * y)..Smaller(today, 2 * y + 1)
                    <=> NyFedStart(t) <= p /\ p <= today /\ YearOf(p) = y
    <3>1. NyFedStart(t) \in Nat /\ YearOf(NyFedStart(t)) \in Nat /\ YearOf(today) \in Nat
      BY <1>2 DEF YearOf
    <3>2. y \in Nat
      BY <3>1
    <3>3. YearOf(p) = y <=> 2 * y <= p /\ p <= 2 * y + 1
      BY <1>2, <3>2 DEF YearOf
    <3> QED
      BY <1>2, <3>1, <3>2, <3>3 DEF Larger, Smaller
  <2>3. Plan \subseteq RequestRow
    BY <2>1, <2>2 DEF RequestRow
  <2>4. ASSUME NEW request \in Plan, Brings(request, s, p) PROVE p \in HeldOf(s) \cap Wanted(s)
    <3>1. PICK t \in Series : \E y \in YearOf(NyFedStart(t))..YearOf(today) :
                request = [series |-> {t}, first |-> Larger(NyFedStart(t), 2 * y), last |-> Smaller(today, 2 * y + 1)]
      BY <2>1
    <3>2. PICK y \in YearOf(NyFedStart(t))..YearOf(today) :
                request = [series |-> {t}, first |-> Larger(NyFedStart(t), 2 * y), last |-> Smaller(today, 2 * y + 1)]
      BY <3>1
    <3>3. s = t /\ p \in HeldOf(s) /\ p \in Larger(NyFedStart(t), 2 * y)..Smaller(today, 2 * y + 1)
      BY <2>4, <3>2 DEF Brings
    <3>4. NyFedStart(s) <= p /\ p <= today
      BY <2>2, <3>3
    <3> QED
      BY <1>2, <1>3, <3>3, <3>4
  <2>5. ASSUME p \in HeldOf(s) \cap Wanted(s) PROVE \E request \in Plan : Brings(request, s, p)
    <3> DEFINE y == YearOf(p)
               request == [series |-> {s}, first |-> Larger(NyFedStart(s), 2 * y), last |-> Smaller(today, 2 * y + 1)]
    <3>1. NyFedStart(s) <= p /\ p <= today /\ NyFedStart(s) \in Nat
      BY <1>2, <1>3, <2>5
    <3>2. y \in YearOf(NyFedStart(s))..YearOf(today)
      BY <1>2, <3>1 DEF YearOf
    <3>3. request \in Plan
      BY <2>1, <3>2
    <3>4. Brings(request, s, p)
      BY <2>2, <2>5, <3>1, <3>2 DEF Brings
    <3> QED
      BY <3>3, <3>4
  <2> QED
    BY <2>3, <2>4, <2>5
<1>6. CASE ~ backfill
  <2>1. \A request : request \in Plan <=>
            \E t \in Series : request = [series |-> {t}, first |-> NyFedStart(t), last |-> today]
    BY <1>1, <1>6 DEF NyFedRequests
  <2>2. Plan \subseteq RequestRow
    BY <1>2, <2>1 DEF RequestRow
  <2>3. ASSUME NEW request \in Plan, Brings(request, s, p) PROVE p \in HeldOf(s) \cap Wanted(s)
    <3>1. PICK t \in Series : request = [series |-> {t}, first |-> NyFedStart(t), last |-> today]
      BY <2>1
    <3> QED
      BY <1>2, <1>3, <2>3, <3>1 DEF Brings
  <2>4. ASSUME p \in HeldOf(s) \cap Wanted(s) PROVE \E request \in Plan : Brings(request, s, p)
    <3> DEFINE request == [series |-> {s}, first |-> NyFedStart(s), last |-> today]
    <3>1. request \in Plan
      BY <2>1
    <3>2. Brings(request, s, p)
      BY <1>2, <1>3, <2>4 DEF Brings
    <3> QED
      BY <3>1, <3>2
  <2> QED
    BY <2>2, <2>3, <2>4
<1> QED
  BY <1>5, <1>6 DEF Fetch

LEMMA TreasuryCovers ==
    ASSUME Fetch, fetcher = "TREASURY", NEW s \in Series, NEW p \in Halves
    PROVE  /\ Plan \subseteq RequestRow
           /\ p \in HeldOf(s) \cap Wanted(s) <=> \E request \in Plan : Brings(request, s, p)
<1>1. \A request : request \in Plan <=>
        \E y \in TreasuryStart..ThisYear : request = [series |-> Series, first |-> 2 * y, last |-> 2 * y + 1]
  BY DEF Plan, TreasuryRequests
<1>2. today \in Nat /\ p \in Nat /\ TreasuryStart \in Nat /\ ThisYear \in Nat /\ YearOf(p) \in Nat
  <2>1. today \in Nat /\ p \in Nat /\ TreasuryStart \in Nat /\ ThisYear \in Nat
    BY FetchTypes, WindowsAssumption DEF Halves
  <2> QED
    BY <2>1 DEF YearOf
<1>3. p \in Wanted(s) <=> p <= today /\ YearOf(p) >= TreasuryStart
  BY DEF Wanted
<1>4. p \in HeldOf(s) => p <= today /\ YearOf(p) <= ThisYear
  BY <1>2 DEF HeldOf, ThisYear, YearOf
<1>5. \A y \in Nat : p \in (2 * y)..(2 * y + 1) <=> YearOf(p) = y
  BY <1>2 DEF YearOf
<1>6. Plan \subseteq RequestRow
  BY <1>1, <1>2 DEF RequestRow
<1>7. ASSUME NEW request \in Plan, Brings(request, s, p) PROVE p \in HeldOf(s) \cap Wanted(s)
  <2>1. PICK y \in TreasuryStart..ThisYear : request = [series |-> Series, first |-> 2 * y, last |-> 2 * y + 1]
    BY <1>1
  <2>2. YearOf(p) = y /\ p \in HeldOf(s)
    BY <1>2, <1>5, <1>7, <2>1 DEF Brings
  <2> QED
    BY <1>2, <1>3, <1>4, <2>2
<1>8. ASSUME p \in HeldOf(s) \cap Wanted(s) PROVE \E request \in Plan : Brings(request, s, p)
  <2> DEFINE y == YearOf(p)
             request == [series |-> Series, first |-> 2 * y, last |-> 2 * y + 1]
  <2>1. y \in TreasuryStart..ThisYear
    BY <1>2, <1>3, <1>4, <1>8
  <2>2. request \in Plan
    BY <1>1, <2>1
  <2>3. Brings(request, s, p)
    BY <1>2, <1>5, <1>8 DEF Brings
  <2> QED
    BY <2>2, <2>3
<1> QED
  BY <1>6, <1>7, <1>8

LEMMA VintagesCovers ==
    ASSUME Fetch, fetcher = "VINTAGES", NEW s \in Series, NEW p \in Halves
    PROVE  /\ Plan \subseteq RequestRow
           /\ p \in HeldOf(s) \cap Wanted(s) <=> \E request \in Plan : Brings(request, s, p)
<1>1. \A request : request \in Plan <=>
        \E batch \in Batches(Series) : request = [series |-> batch, first |-> VintageStart, last |-> today]
  BY DEF Plan, VintageRequests
<1>2. today \in Nat /\ p \in Nat /\ VintageStart \in Nat
  BY FetchTypes, WindowsAssumption DEF Halves
<1>3. p \in Wanted(s) <=> p <= today /\ p >= VintageStart
  BY DEF Wanted
<1>4. p \in HeldOf(s) => p <= today
  BY DEF HeldOf
<1>5. (\A batch \in Batches(Series) : batch \subseteq Series) /\ \E batch \in Batches(Series) : s \in batch
  BY BatchesHave
<1>6. Plan \subseteq RequestRow
  BY <1>1, <1>2, <1>5 DEF RequestRow
<1>7. ASSUME NEW request \in Plan, Brings(request, s, p) PROVE p \in HeldOf(s) \cap Wanted(s)
  <2>1. PICK batch \in Batches(Series) : request = [series |-> batch, first |-> VintageStart, last |-> today]
    BY <1>1
  <2> QED
    BY <1>2, <1>3, <1>7, <2>1 DEF Brings
<1>8. ASSUME p \in HeldOf(s) \cap Wanted(s) PROVE \E request \in Plan : Brings(request, s, p)
  <2>1. PICK batch \in Batches(Series) : s \in batch
    BY <1>5
  <2> DEFINE request == [series |-> batch, first |-> VintageStart, last |-> today]
  <2>2. request \in Plan
    BY <1>1
  <2>3. Brings(request, s, p)
    BY <1>2, <1>3, <1>8, <2>1 DEF Brings
  <2> QED
    BY <2>2, <2>3
<1> QED
  BY <1>6, <1>7, <1>8

LEMMA PlanCovers ==
    ASSUME Fetch
    PROVE  /\ Plan \subseteq RequestRow
           /\ \A s \in Series, p \in Halves :
                p \in HeldOf(s) \cap Wanted(s) <=> \E request \in Plan : Brings(request, s, p)
<1>1. \A s \in Series, p \in Halves :
        /\ Plan \subseteq RequestRow
        /\ p \in HeldOf(s) \cap Wanted(s) <=> \E request \in Plan : Brings(request, s, p)
  BY BlsCovers, NyFedCovers, TreasuryCovers, VintagesCovers DEF Fetch
<1>2. Series # {} /\ Halves # {}
  <2>1. 2 \in Halves
    BY WindowsAssumption DEF Halves
  <2> QED
    BY <2>1, WindowsAssumption
<1> QED
  BY <1>1, <1>2

\* What is at hand and what is still asked for are together what is wanted.
WindowsInv ==
    /\ Fetch
    /\ left \subseteq RequestRow /\ got \subseteq Series \X Halves
    /\ fetched \in {"fetching", "complete", "raised"}
    /\ fetched # "raised" =>
        \A s \in Series, p \in Halves :
            p \in HeldOf(s) \cap Wanted(s) <=> <<s, p>> \in got \/ \E request \in left : Brings(request, s, p)
    /\ fetched = "complete" => left = {}

LEMMA KeptIsBrought ==
    ASSUME Fetch, NEW request \in RequestRow
    PROVE  /\ Kept(Honest(request)) \subseteq Series \X Halves
           /\ \A s \in Series, p \in Halves : <<s, p>> \in Kept(Honest(request)) <=> Brings(request, s, p)
<1>1. request.series \subseteq Series
  BY DEF RequestRow
<1>2. Honest(request) \subseteq Series \X Halves
  BY <1>1 DEF Honest
<1>3. \A s \in Series, p \in Halves :
        <<s, p>> \in Honest(request) <=> s \in request.series /\ p \in HeldOf(s) /\ p \in request.first..request.last
  BY DEF Honest
<1>4. \A s \in Series, p \in Halves : <<s, p>> \in Kept(Honest(request)) <=>
        <<s, p>> \in Honest(request) /\ (fetcher = "BLS" => YearOf(p) \in pin[s].first..pin[s].last)
  BY DEF Kept
<1> QED
  BY <1>2, <1>3, <1>4 DEF Kept, Brings

LEMMA SameFetch ==
    ASSUME UNCHANGED <<fetcher, backfill, today, pin, missing>>
    PROVE  /\ Fetch' = Fetch
           /\ \A s \in Series : HeldOf(s)' = HeldOf(s) /\ Wanted(s)' = Wanted(s)
           /\ \A request, s, p : Brings(request, s, p)' = Brings(request, s, p)
<1>1. Fetch' = Fetch
  BY DEF Fetch
<1>2. \A s : HeldOf(s)' = HeldOf(s)
  BY DEF HeldOf
<1>3. FirstPinned' = FirstPinned /\ ThisYear' = ThisYear
  BY DEF FirstPinned, ThisYear
<1>4. BlsStart' = BlsStart /\ TreasuryStart' = TreasuryStart /\ VintageStart' = VintageStart
  BY <1>3 DEF BlsStart, TreasuryStart, VintageStart
<1>5. \A s : NyFedStart(s)' = NyFedStart(s)
  BY DEF NyFedStart
<1>6. \A s : Wanted(s)' = Wanted(s)
  BY <1>4, <1>5 DEF Wanted
<1>7. \A request, s, p : Brings(request, s, p)' = Brings(request, s, p)
  BY <1>2 DEF Brings
<1> QED
  BY <1>1, <1>2, <1>6, <1>7

LEMMA TakeKeeps ==
    ASSUME WindowsInv, NEW request \in left, Take(request)
    PROVE  WindowsInv'
<1>1. /\ UNCHANGED <<fetcher, backfill, today, pin, missing, fetched>> /\ fetched = "fetching"
      /\ got' = got \cup Kept(Honest(request)) /\ left' = left \ {request}
  BY DEF Take
<1>2. request \in RequestRow /\ Fetch
  BY DEF WindowsInv
<1>3. /\ Kept(Honest(request)) \subseteq Series \X Halves
      /\ \A s \in Series, p \in Halves : <<s, p>> \in Kept(Honest(request)) <=> Brings(request, s, p)
  BY <1>2, KeptIsBrought
<1>4. /\ Fetch' /\ \A s \in Series : HeldOf(s)' = HeldOf(s) /\ Wanted(s)' = Wanted(s)
      /\ \A r, s, p : Brings(r, s, p)' = Brings(r, s, p)
  BY <1>1, <1>2, SameFetch
<1>5. ASSUME NEW s \in Series, NEW p \in Halves
      PROVE  p \in HeldOf(s) \cap Wanted(s) <=> <<s, p>> \in got' \/ \E r \in left' : Brings(r, s, p)
  <2>1. p \in HeldOf(s) \cap Wanted(s) <=> <<s, p>> \in got \/ \E r \in left : Brings(r, s, p)
    BY <1>1 DEF WindowsInv
  <2> QED
    BY <1>1, <1>3, <2>1
<1> QED
  BY <1>1, <1>3, <1>4, <1>5 DEF WindowsInv

LEMMA WindowsInvariant == WindowsSpec => []WindowsInv
<1>1. WindowsInit => WindowsInv
  <2> SUFFICES ASSUME WindowsInit PROVE WindowsInv
    OBVIOUS
  <2>1. Fetch
    BY DEF WindowsInit, Fetch, Pin
  <2> QED
    BY <2>1, PlanCovers DEF WindowsInit, WindowsInv
<1>2. WindowsInv /\ [WindowsNext]_windowVars => WindowsInv'
  <2> SUFFICES ASSUME WindowsInv, [WindowsNext]_windowVars PROVE WindowsInv'
    OBVIOUS
  <2>1. CASE \E request \in left : Take(request)
    BY <2>1, TakeKeeps
  <2>2. CASE GiveUp
    BY <2>2, SameFetch DEF GiveUp, WindowsInv
  <2>3. CASE FetchEnds
    BY <2>3, SameFetch DEF FetchEnds, WindowsInv
  <2>4. CASE UNCHANGED windowVars
    BY <2>4, SameFetch DEF windowVars, WindowsInv
  <2> QED
    BY <2>1, <2>2, <2>3, <2>4 DEF WindowsNext, Miss, BadAnswer
<1> QED
  BY <1>1, <1>2, PTL DEF WindowsSpec

\* Types of a fetch in windows and batches: its requests and the rows it has.
THEOREM WindowTypes == WindowsSpec => []WindowsTypeOK
<1>1. WindowsInv => WindowsTypeOK
  BY DEF WindowsInv, WindowsTypeOK, RequestRow
<1> QED
  BY <1>1, WindowsInvariant, PTL

\* A fetch of BLS, NY Fed, the Treasury or FRED's vintages that ends has each row
\* that is wanted and no other, for any years, windows and batches.
THEOREM WindowsAddUp == WindowsSpec => []WindowsCover
<1>1. WindowsInv => WindowsCover
  <2> SUFFICES ASSUME WindowsInv, fetched = "complete"
               PROVE  got = {pair \in Series \X Halves : pair[2] \in HeldOf(pair[1]) \cap Wanted(pair[1])}
    BY DEF WindowsCover
  <2>1. got \subseteq Series \X Halves
    BY DEF WindowsInv
  <2>2. ASSUME NEW s \in Series, NEW p \in Halves
        PROVE  p \in HeldOf(s) \cap Wanted(s) <=> <<s, p>> \in got
    <3>1. p \in HeldOf(s) \cap Wanted(s) <=> <<s, p>> \in got \/ \E request \in left : Brings(request, s, p)
      BY DEF WindowsInv
    <3>2. left = {}
      BY DEF WindowsInv
    <3> QED
      BY <3>1, <3>2
  <2> QED
    BY <2>1, <2>2
<1> QED
  BY <1>1, WindowsInvariant, PTL
=============================================================================
