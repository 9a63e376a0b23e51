------------------------------- MODULE Readings -------------------------------
(***************************************************************************)
(* Reading a series as it was known at a cutoff (macrolens_api/services/    *)
(* series.py, data_browser.py, ai_context.py and compare.py), while syncs   *)
(* add to its history.                                                      *)
(*                                                                          *)
(* An observation has the vintage of its fetch, which is before the sync    *)
(* commits, or the one FRED reports for it.  Its value is never updated, so  *)
(* a period and a vintage stand for it.                                     *)
(***************************************************************************)
EXTENDS Naturals, FiniteSets, Nulls

CONSTANTS
    Periods,
    Syncs,
    Readers,
    Window,         \* latest periods a row of the browser or a context is made of
    LastTime        \* bound

ASSUME PeriodsOfReadings == Periods \subseteq Nat /\ IsFiniteSet(Periods) /\ Window \in Nat /\ LastTime \in Nat
ASSUME ReadersAssumption ==
    Readers \subseteq {"observations", "first_release", "revisions", "browser", "csv", "analytics", "context"}

VARIABLES
    time,
    archive,        \* observations committed
    sync,           \* the observations each sync has not committed; None before it starts and at its end
    started,        \* syncs that have been started
    replayed,       \* whether a sync has added vintages older than itself
    answer          \* one that was given, with what was there to be read (history); None before

readingVars == <<time, archive, sync, started, replayed, answer>>

Row == [period : Periods, vintage : 0..LastTime]

ReadingsInit ==
    /\ time = 0
    /\ archive = {} /\ sync = [t \in Syncs |-> None] /\ started = {} /\ replayed = FALSE
    /\ answer = None

-----------------------------------------------------------------------------
(* The syncs *)

\* A source's row of a period and vintage is unique.
New(rows) == rows \cap (archive \cup UNION {sync[t] : t \in {u \in Syncs : sync[u] # None}}) = {}

Fetch(t, rows) ==
    /\ t \notin started /\ rows # {} /\ New(rows)
    /\ \A r \in rows : r.vintage = time
    /\ sync' = [sync EXCEPT ![t] = rows]
    /\ started' = started \cup {t}
    /\ UNCHANGED <<time, archive, replayed, answer>>

\* vintage_backfill: every vintage FRED knows of a period.
FetchVintages(t, rows) ==
    /\ t \notin started /\ rows # {} /\ New(rows)
    /\ \A r \in rows : r.vintage < time
    /\ sync' = [sync EXCEPT ![t] = rows]
    /\ started' = started \cup {t} /\ replayed' = TRUE
    /\ UNCHANGED <<time, archive, answer>>

Commit(t) ==
    /\ sync[t] # None
    /\ archive' = archive \cup sync[t]
    /\ sync' = [sync EXCEPT ![t] = None]
    /\ UNCHANGED <<time, started, replayed, answer>>

Lose(t) ==
    /\ sync[t] # None
    /\ sync' = [sync EXCEPT ![t] = None]
    /\ UNCHANGED <<time, archive, started, replayed, answer>>

TimePasses ==
    /\ time < LastTime
    /\ time' = time + 1
    /\ UNCHANGED <<archive, sync, started, replayed, answer>>

-----------------------------------------------------------------------------
(* The readers *)

Until(cutoff) == {r \in archive : r.vintage <= cutoff}

\* vintage_rank 1, DISTINCT ON with vintage_at descending.
EarliestOf(rows) == {r \in rows : \A q \in rows : q.period = r.period => r.vintage <= q.vintage}
LatestOf(rows) == {r \in rows : \A q \in rows : q.period = r.period => q.vintage <= r.vintage}

\* period_rank <= max_points.
LastPeriods(rows) ==
    {r \in rows : Cardinality({q.period : q \in {w \in rows : w.period > r.period}}) < Window}

\* _query_vintage_points, _points_by_source.  The first release is that of all
\* time; the other readers see no further than the cutoff.
Points(reader, cutoff) ==
    CASE reader = "first_release" -> EarliestOf(archive)
      [] reader \in {"browser", "context"} -> LastPeriods(LatestOf(Until(cutoff)))
      [] OTHER -> LatestOf(Until(cutoff))

Needs(reader) ==
    CASE reader = "csv" -> {"download"} [] reader = "context" -> {"display", "ai"} [] OTHER -> {"display"}

\* The series has its verified primary source, and its licence allows what the
\* reader needs.  A row of the browser is shown without values where another
\* reader refuses.
Denied(reader, bound, allowed) == ~bound \/ ~(Needs(reader) \subseteq allowed)

\* A stated cutoff before anything was known is refused, and a context is never
\* empty; only revisions and the browser answer with nothing.
Unavailable(reader, cutoff) ==
    /\ Points(reader, cutoff) = {}
    /\ \/ reader = "context"
       \/ /\ reader \in {"observations", "csv", "analytics"} /\ cutoff < time
          /\ archive # {} /\ \A r \in archive : r.vintage > cutoff

Answered(reader, cutoff, denied) ==
    [reader |-> reader, cutoff |-> cutoff, time |-> time, known |-> Until(cutoff),
     shown |-> IF denied \/ Unavailable(reader, cutoff) THEN None ELSE Points(reader, cutoff)]

ReadAt(reader, cutoff) ==
    /\ cutoff <= time /\ answer = None
    /\ \E bound \in BOOLEAN, allowed \in SUBSET {"display", "download", "ai"} :
          answer' = Answered(reader, cutoff, Denied(reader, bound, allowed))
    /\ UNCHANGED <<time, archive, sync, started, replayed>>

ReadingsNext ==
    \/ \E t \in Syncs : (\E rows \in SUBSET Row : Fetch(t, rows) \/ FetchVintages(t, rows)) \/ Commit(t) \/ Lose(t)
    \/ TimePasses
    \/ \E reader \in Readers, cutoff \in 0..LastTime : ReadAt(reader, cutoff)

ReadingsSpec == ReadingsInit /\ [][ReadingsNext]_readingVars

-----------------------------------------------------------------------------
(* Properties *)

ReadingsTypeOK ==
    /\ time \in 0..LastTime /\ replayed \in BOOLEAN
    /\ archive \subseteq Row /\ started \subseteq Syncs
    /\ \A t \in Syncs : sync[t] = None \/ sync[t] \subseteq Row
    /\ answer = None \/ answer.shown = None \/ answer.shown \subseteq Row

\* The answers that could be given now.
Answers == UNION {{Answered(reader, cutoff, FALSE) : cutoff \in 0..time} : reader \in Readers}
AtCutoff(a) == a # None /\ a.reader # "first_release" /\ a.shown # None

\* Whatever they read it with, and however long after, two readers of one cutoff
\* see the same of each period both answers reach unless something of an earlier
\* vintage was committed between them; and one who has seen a period at a cutoff
\* sees it, or a newer vintage of it, at every later cutoff.
CutoffIsKept ==
    AtCutoff(answer) =>
        \A b \in {a \in Answers : AtCutoff(a) /\ answer.cutoff <= a.cutoff} : \A r \in answer.shown :
            \/ \E q \in b.shown :
                  /\ q.period = r.period /\ q.vintage \in r.vintage..b.cutoff
                  /\ b.known = answer.known => q = r
            \/ b.reader \in {"browser", "context"} /\ Cardinality({q \in b.shown : q.period > r.period}) >= Window

\* What was shown, or attached to a question, for a cutoff can be read again at
\* that cutoff (expected by the task that introduced cutoffs, not so: a sync in
\* progress commits vintages that are older than its commit).
CutoffIsReproducible ==
    AtCutoff(answer) /\ ~replayed =>
        \A b \in Answers : b.reader = answer.reader /\ b.cutoff = answer.cutoff => b.shown = answer.shown
=============================================================================
