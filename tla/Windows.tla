-------------------------------- MODULE Windows --------------------------------
(***************************************************************************)
(* The adapters that cut what they fetch into requests of a window of years *)
(* or of some of the series: bls.py, nyfed.py, treasury.py and the vintages *)
(* of fred.py (macrolens_worker/providers).                                 *)
(*                                                                          *)
(* A year has two periods, 2y and 2y + 1, and a provider has rows of some   *)
(* series at each of them but one.  In the fetch of FRED's vintages a       *)
(* "series" is a vintage of the one series that is fetched.  No request     *)
(* depends on the answer to another: the order they are made in is left out.*)
(***************************************************************************)
EXTENDS Integers, FiniteSets, FiniteSetsExt

CONSTANTS
    Series,         \* numbered as the adapter lists them
    LastYear,       \* years are 1..LastYear + 1 and today is in the last or the one before
    Recent,         \* years an incremental fetch goes back
    Span,           \* years of a request to BLS
    Batch           \* series of a request to BLS, vintages of one to FRED

ASSUME WindowsAssumption ==
    /\ Series \subseteq Nat /\ Series # {} /\ IsFiniteSet(Series)
    /\ Span \in Nat \ {0} /\ Batch \in Nat \ {0}
    /\ LastYear \in Nat /\ Recent \in Nat /\ Recent < LastYear

VARIABLES
    fetcher,
    backfill,
    today,      \* a period
    pin,        \* series -> the first and the last year its mapping states
    missing,    \* pairs of a series and a period the provider has no row of, one at most
    left,       \* requests to make
    got,        \* pairs taken from the answers
    fetched     \* the outcome

windowVars == <<fetcher, backfill, today, pin, missing, left, got, fetched>>

YearOf(p) == p \div 2
Years == 1..LastYear
Halves == 2..(2 * LastYear + 1)
ThisYear == YearOf(today)
Larger(m, n) == IF m > n THEN m ELSE n
Smaller(m, n) == IF m < n THEN m ELSE n

FirstPinned == Min({pin[s].first : s \in Series})

-----------------------------------------------------------------------------
(* The requests of each fetch: the series asked for, and the first and the    *)
(* last period.                                                               *)

Runs(length, run) == (length + run - 1) \div run

\* _year_windows
YearWindowsApart(first, last, span) ==
    {[first |-> first + (i - 1) * (span + 1), last |-> Smaller(first + i * span - 1, last)] :
        i \in 1..Runs(last - first + 1, span)}
YearWindows(first, last, span) ==
    {[first |-> first + (i - 1) * span, last |-> Smaller(first + i * span - 1, last)] :
        i \in 1..Runs(last - first + 1, span)}

\* A set as the adapter lists it, in runs of Batch.
NumberIn(set, s) == Cardinality({t \in set : t <= s})
BatchOf(set, k) == {s \in set : NumberIn(set, s) \in (k - 1) * Batch + 1..k * Batch}
Batches(set) == {BatchOf(set, k) : k \in 1..Runs(Cardinality(set), Batch)}

BlsStart == IF backfill THEN FirstPinned ELSE ThisYear - Recent
Eligible(w) == {s \in Series : pin[s].first <= w.last /\ pin[s].last >= w.first}
BlsRequests ==
    UNION {{[series |-> batch, first |-> 2 * w.first, last |-> 2 * w.last + 1] : batch \in Batches(Eligible(w))} :
              w \in YearWindows(BlsStart, ThisYear, Span)}

\* _annual_windows: from a day to the end of its year, and so on until today.
AnnualWindows(s, first, last) ==
    {[series |-> {s}, first |-> Larger(first, 2 * y), last |-> Smaller(last, 2 * y + 1)] :
        y \in YearOf(first)..YearOf(last)}
\* The start a mapping states is a day: here the second period of its year.
NyFedStart(s) ==
    LET stated == 2 * pin[s].first + 1 IN
    IF backfill THEN stated ELSE Larger(stated, today - 2 * Recent)
NyFedRequests ==
    UNION {IF backfill THEN AnnualWindows(s, NyFedStart(s), today)
           ELSE {[series |-> {s}, first |-> NyFedStart(s), last |-> today]} : s \in Series}

TreasuryStart == IF backfill THEN FirstPinned ELSE ThisYear - Recent
TreasuryRequests ==
    {[series |-> Series, first |-> 2 * y, last |-> 2 * y + 1] : y \in TreasuryStart..ThisYear}

VintageStart == 2 * FirstPinned
VintageRequests ==
    {[series |-> batch, first |-> VintageStart, last |-> today] : batch \in Batches(Series)}

Plan ==
    CASE fetcher = "BLS" -> BlsRequests
      [] fetcher = "NYFED" -> NyFedRequests
      [] fetcher = "TREASURY" -> TreasuryRequests
      [] fetcher = "VINTAGES" -> VintageRequests

WindowsInit ==
    /\ fetcher \in {"BLS", "NYFED", "TREASURY", "VINTAGES"}
    /\ backfill \in BOOLEAN
    /\ today \in {2 * LastYear, 2 * LastYear + 1}
    /\ pin \in [Series -> {y \in [first : Years, last : Years] : y.first <= y.last}]
    \* A mapping that starts after today raises, and only BLS knows an end.
    /\ fetcher # "BLS" => \A s \in Series : pin[s].last = LastYear
    /\ fetcher = "NYFED" => \A s \in Series : NyFedStart(s) <= today
    /\ missing \in {{}} \cup {{pair} : pair \in Series \X Halves}
    /\ left = Plan /\ got = {} /\ fetched = "fetching"

-----------------------------------------------------------------------------
(* The answers *)

HeldOf(s) == {p \in Halves : p <= today /\ <<s, p>> \notin missing}
Honest(request) ==
    {pair \in request.series \X Halves : pair[2] \in HeldOf(pair[1]) /\ pair[2] \in request.first..request.last}

\* _collect_observations leaves out what the mapping does not cover.
Kept(rows) ==
    IF fetcher = "BLS" THEN {pair \in rows : YearOf(pair[2]) \in pin[pair[1]].first..pin[pair[1]].last} ELSE rows

\* Each adapter's least: NY Fed wants a row of every window, the Treasury one
\* of every series whose stated start is not after the year.
Meagre(request, rows) ==
    \/ fetcher = "NYFED" /\ rows = {}
    \/ fetcher = "TREASURY" /\ \E s \in request.series :
          YearOf(request.first) >= pin[s].first /\ ~\E p \in Halves : <<s, p>> \in rows

Take(request) ==
    /\ fetched = "fetching" /\ ~Meagre(request, Honest(request))
    /\ got' = got \cup Kept(Honest(request))
    /\ left' = left \ {request}
    /\ UNCHANGED <<fetcher, backfill, today, pin, missing, fetched>>

GiveUp ==
    /\ fetched' = "raised" /\ got' = {} /\ left' = {}
    /\ UNCHANGED <<fetcher, backfill, today, pin, missing>>
\* Too few rows.
Miss(request) == fetched = "fetching" /\ Meagre(request, Honest(request)) /\ GiveUp
\* A row of another window, a series left out or one too many, rows that
\* disagree, or no answer.
BadAnswer(request) == fetched = "fetching" /\ GiveUp

FetchEnds ==
    /\ fetched = "fetching" /\ left = {}
    /\ fetched' = "complete"
    /\ UNCHANGED <<fetcher, backfill, today, pin, missing, left, got>>

WindowsNext ==
    \/ \E request \in left : Take(request) \/ Miss(request) \/ BadAnswer(request)
    \/ FetchEnds

WindowsSpec == WindowsInit /\ [][WindowsNext]_windowVars

-----------------------------------------------------------------------------
(* Properties *)

WindowsTypeOK ==
    /\ left \subseteq [series : SUBSET Series, first : Nat, last : Nat]
    /\ got \subseteq Series \X Halves
    /\ fetched \in {"fetching", "complete", "raised"}

\* What the fetch is to bring of a series.
Wanted(s) ==
    {p \in Halves : p <= today /\
        CASE fetcher = "BLS" -> YearOf(p) \in Larger(BlsStart, pin[s].first)..pin[s].last
          [] fetcher = "NYFED" -> p >= NyFedStart(s)
          [] fetcher = "TREASURY" -> YearOf(p) >= TreasuryStart
          [] fetcher = "VINTAGES" -> p >= VintageStart}

\* The windows and batches of a fetch that ends, put together, bring each row
\* that is wanted and no other, wherever the years of the mappings begin and
\* end and however they divide by the size of a window.
WindowsCover ==
    fetched = "complete" =>
        got = {pair \in Series \X Halves : pair[2] \in HeldOf(pair[1]) \cap Wanted(pair[1])}
=============================================================================
