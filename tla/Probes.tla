-------------------------------- MODULE Probes --------------------------------
(***************************************************************************)
(* The probe of a source mapping, as each provider adapter of               *)
(* macrolens_worker/providers makes it, and the evidence it reports         *)
(* (MappingProbeResult of providers/base.py), which Mappings takes as given. *)
(*                                                                          *)
(* A probe goes through stages and stops at the first that fails.  A reply  *)
(* of the provider stands for what the adapter finds in it: all the fields  *)
(* that pin an identity are one comparison.                                 *)
(***************************************************************************)
EXTENDS Naturals, FiniteSets

VARIABLES
    adapter,
    pinned,     \* whether the mapping says what the adapter needs to know
    key,        \* whether the provider's API key is set
    at,         \* number of the request under way; 0 before the first
    failed,     \* what went wrong, in fact (history): a stage or "nothing"
    found       \* the result: its evidence and its class; or "raised" or "none" for the class

probeVars == <<adapter, pinned, key, at, failed, found>>

Stages == {"configuration", "authorization", "transport", "http", "business", "identity"}
Before == [configuration |-> 0, authorization |-> 0, transport |-> 0, http |-> 1, business |-> 2,
           identity |-> 3, nothing |-> 4]

\* How far a probe that stopped at a stage has come; all keep `key` as it is.
EvidenceAt(stage, authorized) ==
    [transport |-> Before[stage] > 0, http |-> Before[stage] > 1, business |-> Before[stage] > 2,
     identity |-> Before[stage] > 3, authorized |-> authorized]

-----------------------------------------------------------------------------
(* MappingProbeResult *)

ClassifyKeyless(e, issues) ==
    IF e.transport /\ e.http /\ e.business /\ e.identity /\ issues \subseteq {"authorization"} THEN "PASS" ELSE "BLOCKED"
\* _classify_mapping_probe.  Every issue blocks.
Classify(e, issues) ==
    LET verified == e.transport /\ e.http /\ e.business /\ e.identity /\ issues \subseteq {"authorization"} IN
    CASE verified /\ e.authorized /\ issues = {} -> "PASS"
      [] verified /\ ~e.authorized -> "AUTH_REQUIRED"
      [] OTHER -> "BLOCKED"

\* The issues of a result that was made without any.
Inferred(e) ==
    (IF ~e.transport THEN {"transport"} ELSE IF ~e.http THEN {"http"}
     ELSE IF ~e.business THEN {"business"} ELSE IF ~e.identity THEN {"identity"} ELSE {})
    \cup (IF e.authorized THEN {} ELSE {"authorization"})

\* The checks of __post_init__ that raise.  A status is that of the last answer,
\* or None when the last request had none.
Contradicts(e, issues, status, claimed) ==
    \/ e.http # (e.transport /\ status = "ok")
    \/ ~e.transport /\ (e.http \/ e.business \/ e.identity)
    \/ ~e.http /\ (e.business \/ e.identity)
    \/ ~e.business /\ e.identity
    \/ claimed # Classify(e, IF issues = {} THEN Inferred(e) ELSE issues)

Pending == [evidence |-> EvidenceAt("transport", FALSE), class |-> "none"]
Raised == [Pending EXCEPT !.class = "raised"]
Reported(e, issues, status, claimed) ==
    found' = IF Contradicts(e, issues, status, claimed) THEN Raised
               ELSE [evidence |-> e, class |-> claimed]

-----------------------------------------------------------------------------
(* The adapters.  unpinned: what it does of a mapping that lacks something;   *)
(* key: whether the provider needs one ("none"), the probe is made without it *)
(* ("optional") or not ("needed"); requests; opaque: what an answer that is   *)
(* no payload counts as; junk: what one does that cannot be read at all.      *)

Bls == [unpinned |-> "raise", key |-> "optional", requests |-> 1, opaque |-> "business", junk |-> "business"]
Fred == [unpinned |-> "report", key |-> "needed", requests |-> 1, opaque |-> "business", junk |-> "business"]
Bea == [unpinned |-> "report", key |-> "optional", requests |-> 1, opaque |-> "business", junk |-> "business"]
Census == [unpinned |-> "report", key |-> "optional", requests |-> 1, opaque |-> "business", junk |-> "business"]
\* The latest row, then the first one.
Eia == [unpinned |-> "report", key |-> "optional", requests |-> 2, opaque |-> "business", junk |-> "business"]
Treasury == [unpinned |-> "assume", key |-> "none", requests |-> 1, opaque |-> "identity", junk |-> "identity"]
NyFed == [unpinned |-> "assume", key |-> "none", requests |-> 1, opaque |-> "business", junk |-> "business"]
\* A release file: a ZIP or text that cannot be read raises what nobody catches.
Board == [unpinned |-> "identity", key |-> "none", requests |-> 1, opaque |-> "identity", junk |-> "raise"]

Adapters == [BLS |-> Bls, FRED |-> Fred, BEA |-> Bea, CENSUS |-> Census, EIA |-> Eia,
             TREASURY |-> Treasury, NYFED |-> NyFed, BOARD |-> Board]

A == Adapters[adapter]
Authorized == key \/ A.key = "none"

ProbesInit ==
    /\ adapter \in DOMAIN Adapters
    /\ pinned \in BOOLEAN /\ key \in BOOLEAN
    /\ at = 0 /\ failed = "nothing" /\ found = Pending

\* BLS puts its own name to the class of a result, the others take that of the
\* evidence.
BlsClass(e) ==
    IF e.business /\ e.identity THEN IF e.authorized THEN "PASS" ELSE "AUTH_REQUIRED" ELSE "BLOCKED"
Issues(stage) ==
    IF adapter = "BLS" THEN {}
    ELSE ({stage} \ {"nothing"})
         \cup (IF stage \in {"identity", "nothing"} /\ ~Authorized THEN {"authorization"} ELSE {})
Ends(stage, e, status) ==
    Reported(e, Issues(stage), status, IF adapter = "BLS" THEN BlsClass(e) ELSE Classify(e, Issues(stage)))

\* Before the first request.
Unpinned ==
    /\ at = 0 /\ found = Pending /\ ~pinned /\ A.unpinned # "identity"
    /\ failed' = "configuration"
    /\ \/ A.unpinned = "raise" /\ found' = Raised
       \/ A.unpinned = "report" /\ Ends("configuration", EvidenceAt("configuration", Authorized), "none")
       \/ A.unpinned = "assume" /\ Ends("configuration", [EvidenceAt("configuration", TRUE) EXCEPT !.transport = TRUE], "none")
    /\ UNCHANGED <<adapter, pinned, key, at>>

KeyMissing ==
    /\ at = 0 /\ found = Pending /\ (pinned \/ A.unpinned = "identity") /\ A.key = "needed" /\ ~key
    /\ failed' = "authorization"
    /\ Ends("authorization", EvidenceAt("authorization", FALSE), "none")
    /\ UNCHANGED <<adapter, pinned, key, at>>

Send ==
    /\ at = 0 /\ found = Pending /\ (pinned \/ A.unpinned = "identity") /\ ~(A.key = "needed" /\ ~key)
    /\ at' = 1
    /\ UNCHANGED <<adapter, pinned, key, failed, found>>

\* No answer.  What was learnt from an earlier request is kept.
Unreachable ==
    /\ at > 0 /\ found = Pending
    /\ failed' = "transport"
    /\ Ends("transport", EvidenceAt(IF at = 1 THEN "transport" ELSE "identity", Authorized), "none")
    /\ UNCHANGED <<adapter, pinned, key, at>>

RefusedStatus == Ends("http", EvidenceAt("http", Authorized), "error")
Refused ==
    /\ at > 0 /\ found = Pending
    /\ failed' = "http"
    /\ RefusedStatus
    /\ UNCHANGED <<adapter, pinned, key, at>>

\* An answer that holds no payload, or that cannot be read.
Opaque ==
    /\ at > 0 /\ found = Pending
    /\ failed' = "business"
    /\ \E stage \in {A.opaque, A.junk} :
          IF stage = "raise" THEN found' = Raised ELSE Ends(stage, EvidenceAt(stage, Authorized), "ok")
    /\ UNCHANGED <<adapter, pinned, key, at>>

\* A payload of something else than what is pinned.
OtherIdentity ==
    /\ at > 0 /\ found = Pending
    /\ failed' = "identity"
    /\ Ends("identity", EvidenceAt("identity", Authorized), "ok")
    /\ UNCHANGED <<adapter, pinned, key, at>>

Matches ==
    /\ at > 0 /\ found = Pending /\ pinned
    /\ IF at < A.requests THEN at' = at + 1 /\ UNCHANGED found
       ELSE Ends("nothing", EvidenceAt("nothing", Authorized), "ok") /\ UNCHANGED at
    /\ UNCHANGED <<adapter, pinned, key, failed>>

ProbesNext == Unpinned \/ KeyMissing \/ Send \/ Unreachable \/ Refused \/ Opaque \/ OtherIdentity \/ Matches

ProbesSpec == ProbesInit /\ [][ProbesNext]_probeVars

-----------------------------------------------------------------------------
(* Properties *)

Ended == found.class \notin {"none", "raised"}

ProbesTypeOK ==
    /\ adapter \in DOMAIN Adapters /\ at \in 0..2
    /\ failed \in Stages \cup {"nothing"}
    /\ found.class \in {"none", "raised", "PASS", "AUTH_REQUIRED", "BLOCKED"}

\* Whatever the adapter and wherever the probe stops, a mapping can be approved
\* exactly when it is pinned, everything it asked was answered with what is
\* pinned, and the provider's key is there; when only the key is missing, the
\* result says so.
ClassIsEarned ==
    Ended => found.class = IF failed # "nothing" THEN "BLOCKED"
                             ELSE IF Authorized THEN "PASS" ELSE "AUTH_REQUIRED"
=============================================================================
