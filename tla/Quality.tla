------------------------------- MODULE Quality -------------------------------
(***************************************************************************)
(* validate_ingestion_completeness (macrolens_worker/tasks/                 *)
(* ingestion_quality.py): what a sync asks of the observations of a mapping *)
(* before any of them is published.  Publication takes its verdict as given.*)
(*                                                                          *)
(* Periods are numbered by the finest unit.  A frequency is the number of    *)
(* units from a period to the next and, from monthly to annual, a grid that *)
(* the periods lie on; a week may begin on any day.                         *)
(* Allowances that no mapping of the registry makes are left out.           *)
(***************************************************************************)
EXTENDS Integers, FiniteSets, FiniteSetsExt, Nulls

CONSTANTS
    Units,          \* periods an answer may have
    Revised,        \* those that may come with two vintages
    Steps,          \* units from a period to the next
    Staleness       \* units the newest value may be old

ASSUME UnitsAssumption ==
    /\ Units \subseteq Nat \ {0} /\ IsFiniteSet(Units) /\ Units # {}
    /\ Revised \subseteq Units /\ Steps \subseteq Nat \ {0} /\ Staleness \in Nat
    /\ None \notin Nat

VARIABLES
    required,       \* what the mapping requires
    mode,
    snapshot,       \* the observations
    issues          \* the verdict; None before

qualityVars == <<required, mode, snapshot, issues>>

Observation == [period : Units, vintage : {1, 2}, value : {"value", None}]

\* A snapshot has one value of a period and vintage (see Extracts).
Snapshots ==
    {rows \in SUBSET {r \in Observation : r.vintage = 2 => r.period \in Revised} :
        \A r, q \in rows : r.period = q.period /\ r.vintage = q.vintage => r = q}

\* The frequency (its step, and whether its periods begin with a month, a quarter,
\* a half-year or a year), whether the values are differences, whether there may be gaps, the
\* verified first period, the non-null periods at least, and those whose null is
\* excused by a flag they have.
Requirement ==
    [step : Steps, gridded : BOOLEAN, derived : BOOLEAN, contiguous : BOOLEAN, first : {None, 1},
     minimum : {1, 2}, excused : {{}, {Min(Units) + 1}}]

\* The day of the sync.
Today == Max(Units) + 1

PeriodsOf(rows) == {r.period : r \in rows}

QualityInit ==
    /\ required \in Requirement /\ mode \in {"backfill", "incremental"}
    /\ snapshot \in Snapshots
    \* A difference has no predecessor at the first period.
    /\ required.derived => \A r \in snapshot : r.period = Min(PeriodsOf(snapshot)) => r.value = None
    /\ issues = None

-----------------------------------------------------------------------------
EarliestRows(rows) == {r \in rows : \A q \in rows : q.period = r.period => r.vintage <= q.vintage}
LatestRows(rows) == {r \in rows : \A q \in rows : q.period = r.period => q.vintage <= r.vintage}

NullPeriods(rows) == {r.period : r \in {q \in LatestRows(rows) : q.value = None}}
NonNull(rows) == {r.period : r \in {q \in LatestRows(rows) : q.value # None}}
Seen(rows) == NonNull(rows) \cup NullPeriods(rows)

\* The nulls left when as many as a difference makes are dropped, from the first on.
Candidates(m, rows) ==
    IF m.derived /\ NullPeriods(rows) # {} THEN NullPeriods(rows) \ {Min(NullPeriods(rows))} ELSE NullPeriods(rows)

\* From one period to another, step by step.
Whole(from, to, step) == {from + k * step : k \in 0..((to - from) \div step)}
\* _missing_regular_periods
Missing(rows, step) == Whole(Min(Seen(rows)), Max(Seen(rows)), step) \ Seen(rows)

\* _is_period_aligned: any day is the beginning of a week.
OnGrid(p, step) == (p - 1) % step = 0
Aligned(p, m) == m.gridded => OnGrid(p, m.step)

Newest(rows) == IF NonNull(rows) # {} THEN Max(NonNull(rows)) ELSE Max(NullPeriods(rows))

Faults(m, asked, rows) ==
    IF rows = {} THEN {"mapped_series_missing"}
    ELSE (IF NonNull(rows) = {} THEN {"mapped_series_all_null"} ELSE {})
         \cup (IF Candidates(m, rows) \subseteq m.excused THEN {} ELSE {"missing_observation_value"})
         \cup (IF asked = "backfill" /\ m.first \notin {None, Min(Seen(rows))} THEN {"history_start_mismatch"} ELSE {})
         \cup (IF \A p \in Seen(rows) : Aligned(p, m) THEN {} ELSE {"period_alignment"})
         \cup (IF Cardinality(NonNull(rows)) < m.minimum THEN {"minimum_history"} ELSE {})
         \cup (IF m.contiguous /\ Cardinality(Seen(rows)) >= 2 /\ Missing(rows, m.step) # {} THEN {"history_gap"} ELSE {})
         \cup (IF Today - Newest(rows) > Staleness THEN {"stale_latest_period"} ELSE {})

Validate ==
    /\ issues = None
    /\ issues' = Faults(required, mode, snapshot)
    /\ UNCHANGED <<required, mode, snapshot>>

QualityNext == Validate

QualitySpec == QualityInit /\ [][QualityNext]_qualityVars

-----------------------------------------------------------------------------
(* Properties *)

QualityTypeOK ==
    /\ required \in Requirement /\ snapshot \subseteq Observation
    /\ issues = None \/ issues \subseteq
          {"mapped_series_missing", "mapped_series_all_null", "missing_observation_value", "history_start_mismatch",
           "period_alignment", "minimum_history", "history_gap", "stale_latest_period"}

\* The value of a period after its revisions.
ValueNow(rows, p) ==
    LET of == {r \in rows : r.period = p} IN
    (CHOOSE r \in of : r.vintage = Max({q.vintage : q \in of})).value

\* A series a reader can rely on: as it stands after its revisions it begins where
\* the mapping says, has a recent value, and lacks no value but at the start of a
\* difference and where it is excused.  From monthly to annual it is on the grid,
\* and when no gap is allowed its periods are those of the grid from its first to
\* its last.  Of a week, all that is known is that each seventh day from the first
\* period is there: other days may be between them.
Reliable(m, asked, rows) ==
    \E from, to \in Units :
        LET valued == {p \in PeriodsOf(rows) : ValueNow(rows, p) # None} IN
        /\ PeriodsOf(rows) # {} /\ Min(PeriodsOf(rows)) = from /\ Max(PeriodsOf(rows)) = to
        /\ m.gridded => \A p \in PeriodsOf(rows) : OnGrid(p, m.step)
        /\ m.contiguous => IF m.gridded THEN PeriodsOf(rows) = Whole(from, to, m.step)
                           ELSE Whole(from, to, m.step) \subseteq PeriodsOf(rows)
        /\ asked = "backfill" /\ m.first # None => from = m.first
        /\ valued # {} /\ Cardinality(valued) >= m.minimum
        /\ Today - Max(valued) <= Staleness
        /\ \A p \in PeriodsOf(rows) \ valued : p \in m.excused \/ (m.derived /\ p = from)

\* What passes is a series a reader can rely on, and every such series passes.
PassesWhenWhole == issues # None => (issues = {} <=> Reliable(required, mode, snapshot))
=============================================================================
