----------------------------- MODULE MCServices -----------------------------
(***************************************************************************)
(* Instances for TLC of the services that share no row with one another: a   *)
(* behaviour is one of the part that `part` names.  The variables of the      *)
(* other parts stay as they begin, or are None.                               *)
(***************************************************************************)
EXTENDS Sessions, Mappings, Probes, Alerts, Readings, Browser, Quality, Paging, Windows, Extracts, TLC

CONSTANTS Parts, m1, m2, x, y, w1

VARIABLE part

mvars == mappingVars
svars == sessionVars
avars == alertVars
pvars == probeVars
gvars == pagingVars
wvars == windowVars
xvars == extractVars
qvars == qualityVars
rvars == readingVars
bvars == browserVars
allVars == <<part, mvars, svars, avars, pvars, gvars, wvars, xvars, qvars, rvars, bvars>>

-----------------------------------------------------------------------------
(* The parts *)

\* Two mappings of one series, the second of them TradingView's.  In the part
\* "mappings" one request at a time edits or imports the first, or retries its first
\* probe; in the part "imports" two edit and import the second, and the first has
\* one probe.
TwoMaps == {m1, m2}
RegisteredAsX == [k \in TwoMaps |-> x]
ThreeProbes == {<<m1, 1>>, <<m1, 2>>, <<m2, 1>>}
FirstProbe == {<<m1, 1>>}
ProbeAttempts == [p \in ThreeProbes |-> IF p \in FirstProbe THEN 2 ELSE 1]

RequestsOfFirst == \A r \in Writers : writer'[r] # NoWriter => r = w1 /\ writer'[r].of # m2
RequestsOfSecond ==
    /\ \A r \in Writers : writer'[r] # NoWriter => writer'[r].of = m2
    /\ probe'[<<m1, 2>>] = NoProbe

CooldownOfOne == [k \in Kinds |-> 1]

\* Two series: with sources of any kind and both filters, for the facets; and
\* with points of any kind, the first denied or not, for the order.
Source(provider, verified) == [provider |-> provider, verified |-> verified]
SourceLists ==
    {<<>>, <<Source("p", TRUE)>>, <<Source("p", FALSE)>>, <<Source("q", TRUE)>>,
     <<Source("p", TRUE), Source("q", FALSE)>>, <<Source("p", FALSE), Source("q", FALSE)>>,
     <<Source("p", TRUE), Source("q", TRUE)>>}
FacetCases ==
    {[catalog |-> [s \in Listed |->
        [sources |-> sources[s], theme |-> themes[s], frequency |-> "monthly", licence |-> "display",
         published |-> s, points |-> <<>>]],
      query |-> [filters |-> [provider |-> provider, theme |-> theme], since |-> since, sort |-> "place",
                 order |-> order, limit |-> 1]] :
        sources \in [Listed -> SourceLists], themes \in [Listed -> {"t", "u"}],
        provider \in {None, "p", "q"}, theme \in {None, "t"}, since \in {None, 2}, order \in {"asc", "desc"}}
SomeValues == -1..2
SomePoints == UNION {[periods -> {None, 0, 2}] : periods \in SUBSET (1..4)}
OtherPoints == {(2 :> -1 @@ 3 :> 2 @@ 4 :> 1), (2 :> 2 @@ 3 :> 1)}
RankCases ==
    {[catalog |-> [s \in Listed |->
        [sources |-> <<Source("p", TRUE)>>, theme |-> "t", frequency |-> frequency,
         licence |-> IF s = 1 THEN licence ELSE "display", published |-> None, points |-> IF s = 1 THEN points ELSE other]],
      query |-> [filters |-> [provider |-> None, theme |-> None], since |-> None, sort |-> sort, order |-> order, limit |-> 2]] :
        frequency \in {"monthly", "weekly"}, licence \in {"display", "none"}, points \in SomePoints, other \in OtherPoints,
        sort \in {"current_period", "current", "change", "period_change", "yoy"}, order \in {"asc", "desc"}}
BrowserCases == FacetCases \cup RankCases

-----------------------------------------------------------------------------
NoPaging ==
    /\ pager = None /\ declared = None /\ ascending = None /\ history = None /\ opened = None
    /\ changes = None /\ turns = None /\ total = None /\ pages = None /\ count = None /\ paged = None
NoWindows ==
    /\ fetcher = None /\ backfill = None /\ today = None /\ pin = None
    /\ missing = None /\ left = None /\ got = None /\ fetched = None
NoExtracts ==
    /\ extractor = None /\ coarse = None /\ partial = None /\ starts = None
    /\ received = None /\ extract = None /\ extracted = None
NoQuality == required = None /\ mode = None /\ snapshot = None /\ issues = None
NoBrowser == catalog = None /\ query = None /\ shown = None

ServicesInit ==
    /\ part \in Parts
    /\ SessionsInit /\ MappingsInit
    /\ AlertsInit /\ ReadingsInit /\ ProbesInit
    /\ part # "alerts" => kind = [r \in Rules |-> "digest"]
    /\ part # "probes" => adapter = "BLS" /\ pinned /\ key
    /\ IF part = "paging" THEN PagingInit ELSE NoPaging
    /\ IF part = "windows" THEN WindowsInit ELSE NoWindows
    /\ IF part = "extracts" THEN ExtractsInit ELSE NoExtracts
    /\ IF part = "quality" THEN QualityInit ELSE NoQuality
    /\ IF part = "browser" THEN BrowserInit ELSE NoBrowser

ServicesNext ==
    /\ part' = part
    /\ \/ /\ part \in {"mappings", "imports"} /\ MappingsNext
          /\ IF part = "mappings" THEN RequestsOfFirst ELSE RequestsOfSecond
          /\ UNCHANGED <<svars, avars, pvars, gvars, wvars, xvars, qvars, rvars, bvars>>
       \/ part = "sessions" /\ SessionsNext /\ UNCHANGED <<mvars, avars, pvars, gvars, wvars, xvars, qvars, rvars, bvars>>
       \/ part = "alerts" /\ AlertsNext /\ UNCHANGED <<mvars, svars, pvars, gvars, wvars, xvars, qvars, rvars, bvars>>
       \/ part = "probes" /\ ProbesNext /\ UNCHANGED <<mvars, svars, avars, gvars, wvars, xvars, qvars, rvars, bvars>>
       \/ part = "paging" /\ PagingNext /\ UNCHANGED <<mvars, svars, avars, pvars, wvars, xvars, qvars, rvars, bvars>>
       \/ part = "windows" /\ WindowsNext /\ UNCHANGED <<mvars, svars, avars, pvars, gvars, xvars, qvars, rvars, bvars>>
       \/ part = "extracts" /\ ExtractsNext /\ UNCHANGED <<mvars, svars, avars, pvars, gvars, wvars, qvars, rvars, bvars>>
       \/ part = "quality" /\ QualityNext /\ UNCHANGED <<mvars, svars, avars, pvars, gvars, wvars, xvars, rvars, bvars>>
       \/ part = "readings" /\ ReadingsNext /\ UNCHANGED <<mvars, svars, avars, pvars, gvars, wvars, xvars, qvars, bvars>>
       \/ part = "browser" /\ BrowserNext /\ UNCHANGED <<mvars, svars, avars, pvars, gvars, wvars, xvars, qvars, rvars>>

ServicesSpec == ServicesInit /\ [][ServicesNext]_allVars

-----------------------------------------------------------------------------
\* The type invariant of the part.
ServicesTypeOK ==
    CASE part \in {"mappings", "imports"} -> MappingsTypeOK
      [] part = "sessions" -> SessionsTypeOK
      [] part = "alerts" -> AlertsTypeOK
      [] part = "probes" -> ProbesTypeOK
      [] part = "paging" -> PagingTypeOK
      [] part = "windows" -> WindowsTypeOK
      [] part = "extracts" -> ExtractsTypeOK
      [] part = "quality" -> QualityTypeOK
      [] part = "readings" -> ReadingsTypeOK
      [] part = "browser" -> BrowserTypeOK
=============================================================================
