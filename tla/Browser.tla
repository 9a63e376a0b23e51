-------------------------------- MODULE Browser --------------------------------
(***************************************************************************)
(* The data browser (macrolens_api/services/data_browser.py): the series    *)
(* that match a request, the counts of its facets, their order, and the     *)
(* metrics a row shows (with transforms.py).                                *)
(*                                                                          *)
(* The order of the metrics is computed from other rows than the metrics    *)
(* that are shown: SortRows of each series, read in one query for all of    *)
(* them, against every row of those on the page.                            *)
(*                                                                          *)
(* A period is a number.  A month's predecessor is one period before it and *)
(* its year's two; a weekly series takes what comes up to a period earlier. *)
(***************************************************************************)
EXTENDS Integers, Sequences, FiniteSets, FiniteSetsExt, Functions, Nulls

CONSTANTS
    Listed,     \* the series, numbers: their order by name or in the taxonomy
    PointValues,
    Cases       \* catalogs and requests to consider

VARIABLES
    catalog,    \* series -> its sources (provider and whether it is the verified primary one),
                \* theme, frequency, licence, day of its last publication and points:
                \* period -> value or None
    query,      \* the filters, the first day of publication, the sort key, its order, and the page
    shown       \* the answer: its items and its facets; None before

browserVars == <<catalog, query, shown>>

Facets == {"provider", "theme"}
Metrics == {"current_period", "current", "change", "period_change", "yoy"}

\* A row of the catalog, and the filters and the order of a request.
CatalogRow(c) ==
    /\ c = [sources |-> c.sources, theme |-> c.theme, frequency |-> c.frequency, licence |-> c.licence,
            published |-> c.published, points |-> c.points]
    /\ DOMAIN c.points \subseteq Nat /\ IsFiniteSet(DOMAIN c.points)
    /\ c.points \in [DOMAIN c.points -> PointValues \cup {None}]
BrowserRequest(q) ==
    /\ q = [filters |-> q.filters, since |-> q.since, sort |-> q.sort, order |-> q.order, limit |-> q.limit]
    /\ q.filters = [facet \in Facets |-> q.filters[facet]]
    /\ q.sort \in Metrics \cup {"place"} /\ q.limit \in Nat

ASSUME ListedAssumption == Listed \subseteq Nat /\ IsFiniteSet(Listed)
ASSUME PointsAssumption == PointValues \subseteq Int /\ None \notin Int
ASSUME CasesAssumption ==
    \A case \in Cases :
        /\ case.catalog = [s \in Listed |-> case.catalog[s]] /\ \A s \in Listed : CatalogRow(case.catalog[s])
        /\ BrowserRequest(case.query)

BrowserInit ==
    /\ \E case \in Cases : catalog = case.catalog /\ query = case.query
    /\ shown = None

-----------------------------------------------------------------------------
(* Which series match *)

Verified(c) == {i \in DOMAIN c.sources : c.sources[i].verified}
\* BrowserCandidate.binding and catalog_binding.
Bound(c) == Cardinality(Verified(c)) = 1
BoundProvider(c) == IF Bound(c) THEN c.sources[CHOOSE i \in Verified(c) : TRUE].provider ELSE None
Provider(c) == IF Len(c.sources) = 1 THEN c.sources[1].provider ELSE BoundProvider(c)

FacetValue(c, facet) == IF facet = "theme" THEN c.theme ELSE Provider(c)

Fits(c, filters) ==
    \A facet \in Facets : filters[facet] = None \/ FacetValue(c, facet) = filters[facet]
Matched(of, filters) == {s \in Listed : Fits(of[s], filters)}

\* The filter by publication, of the verified source.
Published(c, q) == q.since = None \/ (Bound(c) /\ c.published # None /\ c.published >= q.since)
Hits(of, q) == {s \in Matched(of, q.filters) : Published(of[s], q)}

\* How many of a set have each value of a facet.
CountIn(of, set, facet) ==
    LET open == {s \in set : FacetValue(of[s], facet) # None} IN
    [value \in {FacetValue(of[s], facet) : s \in open} |-> Cardinality({s \in open : FacetValue(of[s], facet) = value})]
CountsFiltered(of, q, facet) == CountIn(of, Matched(of, q.filters), facet)
\* build_facets: a facet is counted as if it were not filtered by, nor by publication.
Counts(of, q, facet) == CountIn(of, Matched(of, [q.filters EXCEPT ![facet] = None]), facet)

-----------------------------------------------------------------------------
(* Metrics of the rows of a series: build_browser_item *)

Valued(rows) == {p \in DOMAIN rows : rows[p] # None}
Largest(set) == IF set = {} THEN None ELSE Max(set)

\* _calendar_lag_index and the neighbour of transform_points.
Lagged(rows, p, frequency, lag) ==
    LET target == p - lag IN
    Largest({q \in DOMAIN rows : q <= target /\ q >= target - (IF frequency = "weekly" THEN 1 ELSE 0)})
Neighbour(rows, p) == Largest({q \in DOMAIN rows : q < p})

Percent(value, base) == IF base > 0 THEN (100 * value) \div base ELSE (-100 * value) \div (-base)
\* The change of the last row in percent; a row without a value has none, nor
\* has one whose base has none, or zero.
Growth(rows, base) ==
    LET last == Max(DOMAIN rows) IN
    IF base = None \/ rows[last] = None THEN None
    ELSE IF rows[base] \in {None, 0} THEN None
    ELSE Percent(rows[last], rows[base]) - 100

Metric(rows, frequency, metric) ==
    LET current == Largest(Valued(rows))
        previous == Largest(Valued(rows) \ {current})
        last == Max(DOMAIN rows) IN
    IF DOMAIN rows = {} THEN None
    ELSE CASE metric = "current_period" -> current
           [] metric = "current" -> IF current = None THEN None ELSE rows[current]
           [] metric = "change" -> IF previous = None THEN None ELSE rows[current] - rows[previous]
           [] metric = "period_change" ->
                Growth(rows, IF frequency = "weekly" THEN Neighbour(rows, last) ELSE Lagged(rows, last, frequency, 1))
           [] metric = "yoy" -> Growth(rows, Lagged(rows, last, frequency, 2))

\* What an item shows of its series.
Allowed(c) == c.licence = "display"
MetricOf(c, rows, metric) == IF Bound(c) /\ Allowed(c) THEN Metric(rows, c.frequency, metric) ELSE None
Item(of, s) == [series |-> s, metrics |-> [metric \in Metrics |-> MetricOf(of[s], of[s].points, metric)]]

-----------------------------------------------------------------------------
(* The order *)

\* _sort_points_by_source: of the rows with a value the last two, and those the
\* last one is compared with.
SortRows(c) ==
    LET valued == Valued(c.points)
        last == Max(valued)
        compared == IF c.frequency = "weekly" THEN {last - 2, last - 3} ELSE {last - 1, last - 2} IN
    Restrict(c.points,
        {p \in valued : Cardinality({q \in valued : q > p}) < 2 \/ p \in compared})

SortKeyAnyLicence(c, q) == Metric(SortRows(c), c.frequency, q.sort)
SortKey(c, q) == MetricOf(c, SortRows(c), q.sort)

\* _sort_candidates_by_metric: series that have the metric first, equals by place.
Sooner(q, a, b) == (q.order = "asc" /\ a < b) \/ (q.order # "asc" /\ a > b)
Precedes(q, s, t, a, b) ==
    \/ q.sort = "place" /\ Sooner(q, s, t)
    \/ /\ q.sort # "place"
       /\ \/ a # None /\ b = None
          \/ a # None /\ b # None /\ Sooner(q, a, b)
          \/ a = b /\ s < t
Leads(of, q, s, t) == Precedes(q, s, t, SortKey(of[s], q), SortKey(of[t], q))
\* Each series has as many before it as its place says.
Place(of, q, s) == Cardinality({t \in Hits(of, q) : Leads(of, q, t, s)}) + 1
Page(of, q) ==
    [i \in 1..Min({q.limit, Cardinality(Hits(of, q))}) |-> CHOOSE s \in Hits(of, q) : Place(of, q, s) = i]
Items(of, q) == LET page == Page(of, q) IN [i \in DOMAIN page |-> Item(of, page[i])]

\* series_browser
Browse ==
    /\ shown = None
    /\ shown' = [items |-> Items(catalog, query),
                 total |-> Cardinality(Hits(catalog, query)),
                 facets |-> [facet \in Facets |-> Counts(catalog, query, facet)]]
    /\ UNCHANGED <<catalog, query>>

BrowserNext == Browse

BrowserSpec == BrowserInit /\ [][BrowserNext]_browserVars

-----------------------------------------------------------------------------
(* Properties *)

BrowserTypeOK ==
    /\ DOMAIN catalog = Listed
    /\ shown # None =>
          /\ \A i \in DOMAIN shown.items : shown.items[i].series \in Listed
          /\ \A facet \in Facets : \A value \in DOMAIN shown.facets[facet] : shown.facets[facet][value] \in Nat \ {0}

\* A count of a facet is the number of series the same request finds with that
\* value chosen, and what has no count finds none; unless it filters by day of
\* publication, which the facets leave out.
FacetsPredict ==
    shown # None /\ query.since = None =>
        \A facet \in Facets : \A value \in {FacetValue(catalog[s], facet) : s \in Listed} \ {None} :
            Cardinality(Hits(catalog, [query EXCEPT !.filters[facet] = value]))
                = (IF value \in DOMAIN shown.facets[facet] THEN shown.facets[facet][value] ELSE 0)

\* The order of an answer tells what the answer shows and nothing else: series
\* whose metric is shown are in the order of it, although it was made of other
\* rows than the metric; and with other values of a series whose licence denies
\* their display the answer is the same.
RankedAsShown ==
    shown # None =>
        /\ \A i, j \in DOMAIN shown.items :
              LET a == shown.items[i].metrics[query.sort]
                  b == shown.items[j].metrics[query.sort] IN
              query.sort \in Metrics /\ i < j /\ a # None /\ b # None =>
                  IF query.order = "asc" THEN a <= b ELSE a >= b
        /\ \A s \in {t \in Listed : ~Allowed(catalog[t])} : \A value \in PointValues \cup {None} :
              LET other == [catalog EXCEPT ![s].points = [p \in DOMAIN @ |-> value]] IN
              /\ Page(other, query) = [i \in DOMAIN shown.items |-> shown.items[i].series]
              /\ \A i \in DOMAIN shown.items : shown.items[i].series = s =>
                    \A metric \in Metrics : shown.items[i].metrics[metric] = None
=============================================================================
