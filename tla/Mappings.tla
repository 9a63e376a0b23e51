-------------------------------- MODULE Mappings --------------------------------
(***************************************************************************)
(* Which source a series is taken from: the mappings of one series, the     *)
(* probes that test them, and the requests that approve, edit, retry and    *)
(* seed (services/source_mappings.py, tasks/mappings.py, the mapping        *)
(* endpoints of routers/admin.py and the registry import of cli.py, which     *)
(* writes TradingView's mappings in a way of its own).                       *)
(*                                                                          *)
(* An identity stands for every field that source_mapping_fingerprint       *)
(* hashes, and for the hash.  approve_mapping_from_probe locks what it      *)
(* reads and is one step; the other writers read, and at their commit write *)
(* the columns they have changed, whatever was committed in between.        *)
(***************************************************************************)
EXTENDS Naturals, FiniteSets, Nulls

CONSTANTS
    Maps,           \* the mappings of the series
    Identities,
    Registered,     \* mapping -> its identity in the registry
    Ready,          \* mappings the registry marks READY
    OfTradingView,  \* the mappings whose dataset is TradingView's
    Probes,         \* jobs: mapping and number
    Writers,        \* how many edits, retries and imports may be under way
    MaxAttempts,    \* probe -> max_attempts
    Edited,         \* bound of the model: mappings that are edited and seeded
    Statuses,       \* ... what an edit sets their status to
    Retried         \* ... and the probes that are retried by hand

Blocked == {"needs_review", "license_required", "disabled"}

ASSUME ProbesAssumption ==
    Probes \subseteq Maps \X Nat /\ None \notin Probes /\ MaxAttempts \in [Probes -> Nat] /\ Retried \subseteq Probes
ASSUME IdentitiesAssumption == Registered \in [Maps -> Identities] /\ None \notin Identities
\* The import looks a mapping up by series and dataset.
ASSUME TradingViewAssumption ==
    OfTradingView \subseteq Maps /\ \A m, n \in OfTradingView : m = n
\* An edit that asks for "verified" is refused.
ASSUME EditsAssumption == Edited \subseteq Maps /\ Statuses \subseteq Blocked /\ None \notin Blocked

VARIABLES
    mapping,    \* source_series rows
    asked,      \* mappings with a probe job since they were last updated
    probe,      \* the jobs, with the evidence in their result
    probing,    \* the identity the run of a probe has read
    writer,     \* requests under way and what they have read
    raced       \* mappings approved, or imported as verified, while another such
                \* request was under way or after the row had changed (history)

mappingVars == <<mapping, asked, probe, probing, writer, raced>>

NoProbe == [status |-> "absent", attempts |-> 0, evidence |-> None, approved |-> FALSE]
NoWriter == [kind |-> "idle"]

\* What the import makes of a mapping of TradingView, whatever the row was: what
\* the registry marks READY is verified and primary without a probe, the rest is
\* UNAVAILABLE_US.
TradingViewRow(m) ==
    [identity |-> Registered[m], status |-> IF m \in Ready THEN "verified" ELSE "disabled",
     primary |-> m \in Ready, job |-> None, fingerprint |-> None]

\* As the first import leaves them.
MappingsInit ==
    /\ mapping = [m \in Maps |->
                    IF m \in OfTradingView THEN TradingViewRow(m)
                    ELSE [identity |-> Registered[m], status |-> "needs_review",
                          primary |-> FALSE, job |-> None, fingerprint |-> None]]
    /\ asked = {}
    /\ probe = [p \in Probes |-> NoProbe]
    /\ probing = [p \in Probes |-> None]
    /\ writer = [r \in Writers |-> NoWriter]
    /\ raced = {}

-----------------------------------------------------------------------------
(* The probe job *)

\* The idempotency key holds updated_at: one job per version of the row.
CreateProbe(p) ==
    /\ p[1] \notin asked
    /\ probe[p].status = "absent"
    /\ \A q \in Probes : q[1] = p[1] /\ q[2] < p[2] => probe[q].status # "absent"
    /\ probe' = [probe EXCEPT ![p].status = "queued"]
    /\ asked' = asked \cup {p[1]}
    /\ UNCHANGED <<mapping, probing, writer, raced>>

\* Claims the job and reads the mapping.
BeginProbe(p) ==
    /\ probe[p].status \in {"queued", "running"} /\ probing[p] = None
    /\ probe[p].attempts < MaxAttempts[p]
    /\ probe' = [probe EXCEPT ![p].status = "running", ![p].attempts = @ + 1]
    /\ probing' = [probing EXCEPT ![p] = mapping[p[1]].identity]
    /\ UNCHANGED <<mapping, asked, writer, raced>>

EvidenceOfRowNow(p, pass) == [fingerprint |-> mapping[p[1]].identity, tested |-> probing[p], pass |-> pass]
\* The row is not read again after the provider has answered.
Evidence(p, pass) == [fingerprint |-> probing[p], tested |-> probing[p], pass |-> pass]

\* The adapter answers or raises; TradingView's has no probe and always raises.
EndProbe(p) ==
    /\ probing[p] # None
    /\ \/ /\ p[1] \notin OfTradingView
          /\ \E pass \in BOOLEAN :
                probe' = [probe EXCEPT ![p].status = "succeeded", ![p].evidence = Evidence(p, pass),
                                       ![p].approved = FALSE]
       \/ probe' = [probe EXCEPT ![p].status = IF probe[p].attempts < MaxAttempts[p] THEN "queued" ELSE "failed"]
    /\ probing' = [probing EXCEPT ![p] = None]
    /\ UNCHANGED <<mapping, asked, writer, raced>>

Die(p) ==
    /\ probing[p] # None
    /\ probing' = [probing EXCEPT ![p] = None]
    /\ UNCHANGED <<mapping, asked, probe, writer, raced>>

-----------------------------------------------------------------------------
(* approve_mapping_from_probe *)

Accepted(p) ==
    /\ probe[p].status = "succeeded"
    /\ probe[p].evidence.pass
    /\ probe[p].evidence.fingerprint = mapping[p[1]].identity

Overlapped(p) == \E r \in Writers : writer[r].kind # "idle" /\ writer[r].of \in {p, p[1]}

\* Demotes every mapping of the series, then promotes one.
Promoted(p) ==
    [m \in Maps |->
        IF m = p[1]
        THEN [mapping[m] EXCEPT !.status = "verified", !.primary = TRUE, !.job = p,
                                !.fingerprint = probe[p].evidence.fingerprint]
        ELSE [mapping[m] EXCEPT !.primary = FALSE]]

\* Evidence that was used is not used again: the same request gets the same
\* answer while the mapping stands, and an error after that.
Approve(p) ==
    /\ Accepted(p) /\ ~probe[p].approved
    /\ mapping' = Promoted(p)
    /\ probe' = [probe EXCEPT ![p].approved = TRUE]
    /\ asked' = {}
    /\ raced' = IF Overlapped(p) THEN raced \cup {p[1]} ELSE raced \ {p[1]}
    /\ UNCHANGED <<probing, writer>>

-----------------------------------------------------------------------------
(* Requests that read first and write later *)

Read(r, kind, of, row) ==
    /\ writer[r] = NoWriter
    /\ writer' = [writer EXCEPT ![r] = [kind |-> kind, of |-> of, row |-> row]]
    /\ UNCHANGED <<mapping, asked, probe, probing, raced>>

BeginPatch(r, m) == Read(r, "patch", m, mapping[m])
BeginSeed(r, m) == Read(r, "seed", m, mapping[m])

\* retry_job refuses evidence that was used.
BeginRetry(r, p) ==
    /\ probe[p].status # "absent" /\ ~probe[p].approved
    /\ Read(r, "retry", p, probe[p])

AbandonWrite(r) ==
    /\ writer[r] # NoWriter
    /\ writer' = [writer EXCEPT ![r] = NoWriter]
    /\ UNCHANGED <<mapping, asked, probe, probing, raced>>

\* The columns of the new row that differ from the row that was read.
Column(read, new, now) == IF new = read THEN now ELSE new
Merged(read, new, now) ==
    [identity |-> Column(read.identity, new.identity, now.identity),
     status |-> Column(read.status, new.status, now.status),
     primary |-> Column(read.primary, new.primary, now.primary),
     job |-> Column(read.job, new.job, now.job),
     fingerprint |-> Column(read.fingerprint, new.fingerprint, now.fingerprint)]
Write(r, new) ==
    LET m == writer[r].of  row == writer[r].row IN
    /\ mapping' = [mapping EXCEPT ![m] = Merged(row, new, @)]
    /\ asked' = IF new = row THEN asked ELSE asked \ {m}
    /\ writer' = [writer EXCEPT ![r] = NoWriter]
    /\ UNCHANGED <<probe, probing, raced>>

Revoked(row) == [row EXCEPT !.primary = FALSE, !.job = None, !.fingerprint = None]

\* update_source_mapping with its payload: an identity, a status or is_primary
\* = false, each given or not.
PatchedRow(row, identity, status, demote) ==
    LET changed == identity \notin {None, row.identity}
        revoked == changed \/ status # None
        base == IF revoked THEN Revoked(row) ELSE [row EXCEPT !.primary = @ /\ ~demote]
    IN [base EXCEPT !.identity = IF changed THEN identity ELSE @,
                    !.status = IF status # None THEN status ELSE IF changed THEN "needs_review" ELSE @]

CommitPatch(r) ==
    /\ writer[r].kind = "patch"
    /\ \E identity \in Identities \cup {None}, status \in Statuses \cup {None}, demote \in BOOLEAN :
          Write(r, PatchedRow(writer[r].row, identity, status, demote))

\* The import puts the registry's identity back and keeps an approval only if
\* its evidence is for that identity.
SeededRow(m, row) ==
    LET kept == /\ m \in Ready /\ row.status = "verified" /\ row.primary
                /\ row.job # None /\ probe[row.job].status = "succeeded"
                /\ probe[row.job].approved /\ probe[row.job].evidence.fingerprint = Registered[m]
                /\ row.fingerprint = Registered[m]
    IN IF kept THEN [row EXCEPT !.identity = Registered[m]]
       ELSE [Revoked(row) EXCEPT !.identity = Registered[m],
                                 !.status = IF m \in Ready THEN "needs_review" ELSE "license_required"]

CommitSeed(r) ==
    /\ writer[r].kind = "seed" /\ writer[r].of \notin OfTradingView
    /\ Write(r, SeededRow(writer[r].of, writer[r].row))

HoldsAlso(r, m) == \E q \in Writers \ {r} : writer[q].kind \in {"patch", "seed"} /\ writer[q].of = m

\* one_primary_source_per_series: a primary may not be written beside another.
CommitTradingViewSeed(r) ==
    /\ writer[r].kind = "seed" /\ writer[r].of \in OfTradingView
    /\ LET m == writer[r].of  row == writer[r].row  new == TradingViewRow(m) IN
        /\ new.primary # row.primary /\ new.primary => \A n \in Maps \ {m} : ~mapping[n].primary
        /\ mapping' = [mapping EXCEPT ![m] = Merged(row, new, @)]
        \* verified_at is of the import.
        /\ asked' = IF new = row /\ m \notin Ready THEN asked ELSE asked \ {m}
        /\ raced' = IF HoldsAlso(r, m) \/ row # mapping[m] THEN raced \cup {m} ELSE raced \ {m}
    /\ writer' = [writer EXCEPT ![r] = NoWriter]
    /\ UNCHANGED <<probe, probing>>

\* Takes the job from the run that has it, whose result will be refused.
CommitRetry(r) ==
    /\ writer[r].kind = "retry"
    /\ LET p == writer[r].of IN
        /\ probe' = [probe EXCEPT ![p].status = IF writer[r].row.status = "queued" THEN @ ELSE "queued"]
        /\ probing' = [probing EXCEPT ![p] = IF writer[r].row.status = "queued" THEN @ ELSE None]
    /\ writer' = [writer EXCEPT ![r] = NoWriter]
    /\ UNCHANGED <<mapping, asked, raced>>

-----------------------------------------------------------------------------
MappingsNext ==
    \/ \E p \in Probes : CreateProbe(p) \/ BeginProbe(p) \/ EndProbe(p) \/ Die(p) \/ Approve(p)
    \/ \E r \in Writers :
        \/ \E m \in Edited : BeginPatch(r, m) \/ BeginSeed(r, m)
        \/ \E p \in Retried : BeginRetry(r, p)
        \/ CommitPatch(r) \/ CommitSeed(r) \/ CommitTradingViewSeed(r) \/ CommitRetry(r) \/ AbandonWrite(r)

MappingsSpec == MappingsInit /\ [][MappingsNext]_mappingVars

-----------------------------------------------------------------------------
(* Properties *)

MappingRow == [identity : Identities, status : Blocked \cup {"verified"}, primary : BOOLEAN,
        job : Probes \cup {None}, fingerprint : Identities \cup {None}]
EvidenceRow == [fingerprint : Identities, tested : Identities, pass : BOOLEAN]

MappingsTypeOK ==
    /\ mapping \in [Maps -> MappingRow]
    /\ asked \subseteq Maps /\ raced \subseteq Maps
    /\ \A p \in Probes :
        /\ probe[p].status \in {"absent", "queued", "running", "succeeded", "failed"}
        /\ probe[p].attempts \in 0..MaxAttempts[p]
        /\ probe[p].status = "succeeded" => probe[p].evidence \in EvidenceRow
        /\ probing[p] \in Identities \cup {None}
    /\ \A r \in Writers : writer[r].kind \in {"idle", "patch", "seed", "retry"}

Ingested(m) == mapping[m].status = "verified" /\ mapping[m].primary

\* The identity that is ingested was probed as it is, passed, and the evidence is
\* still there, approved, in the job the mapping names.  TradingView's mappings
\* have no probe: what is ingested of them is the row of the registry, whole, which
\* no edit has touched and no approval has made.  Both need that no other request
\* was under way at the approval or the import.
IngestedIsVouchedFor ==
    \A m \in Maps \ raced : Ingested(m) =>
        IF m \in OfTradingView THEN mapping[m] = TradingViewRow(m)
        ELSE LET p == mapping[m].job IN
             /\ p # None /\ p[1] = m /\ probe[p].status = "succeeded" /\ probe[p].approved
             /\ probe[p].evidence.pass /\ probe[p].evidence.tested = mapping[m].identity
             /\ mapping[m].fingerprint = mapping[m].identity

\* A change of the identity revokes the approval, so that what is ingested under an
\* approval has the fingerprint that was approved (expected by the conclusions of
\* the mapping's work order, not so: an edit that read the row before the approval
\* changes the identity and revokes nothing).
ChangedIdentityIsRevoked ==
    \A m \in Maps : Ingested(m) /\ mapping[m].job # None => mapping[m].fingerprint = mapping[m].identity
=============================================================================
