-------------------------------- MODULE Paging --------------------------------
(***************************************************************************)
(* The adapters that read a history page by page (macrolens_worker/         *)
(* providers/eia.py, fred.py and dol.py), against a provider whose history  *)
(* changes while it is read.                                                *)
(*                                                                          *)
(* The provider lists its rows in order and answers a request with those    *)
(* from an offset on, PageSize at most; now and then with fewer.  A row is  *)
(* its period: what the adapters compare to tell that a page is wrong.  A   *)
(* page has each row once and in order, so it is the set of its rows.       *)
(***************************************************************************)
EXTENDS Naturals, FiniteSets, FiniteSetsExt

CONSTANTS
    Dates,          \* periods of which the provider may have a row
    PageSize,
    MaxPages,
    MaxChanges      \* bound: changes of the history during a fetch

ASSUME PagesAssumption ==
    /\ Dates \subseteq Nat /\ IsFiniteSet(Dates)
    /\ PageSize \in Nat \ {0} /\ MaxPages \in Nat \ {0} /\ MaxChanges \in Nat

VARIABLES
    pager,
    declared,       \* whether answers hold the total
    ascending,
    history,        \* the periods the provider has now
    opened,         \* those it had at the first request
    changes,        \* rows it has gained and lost since
    turns,          \* requests made
    total,          \* the total of the first answer, 0 when it had none
    pages,          \* the pages received
    count,          \* the rows received, the repeated ones as often as they came
    paged           \* the outcome

pagingVars == <<pager, declared, ascending, history, opened, changes, turns, total, pages, count, paged>>

-----------------------------------------------------------------------------
(* The adapters.  paged: whether requests have an offset; short: whether a    *)
(* page that is not full is the last; whole: what the rows received must be   *)
(* of the total; repeats: what may not come twice, a row as soon as it does   *)
(* or when all is read, or a whole page too; pinned: whether the history has  *)
(* to begin where the series' metadata says.                                  *)

EiaPages == [paged |-> TRUE, short |-> TRUE, whole |-> "at_least", repeats |-> {"row", "page"}, pinned |-> FALSE]
FredRows == [paged |-> TRUE, short |-> TRUE, whole |-> "exactly", repeats |-> {"row"}, pinned |-> FALSE]
FredBackfill == [FredRows EXCEPT !.pinned = TRUE]
FredVintages == [paged |-> TRUE, short |-> FALSE, whole |-> "at_least", repeats |-> {"row_at_end"}, pinned |-> FALSE]
Dol == [paged |-> TRUE, short |-> TRUE, whole |-> "at_least", repeats |-> {"page", "row_at_end"}, pinned |-> FALSE]
DolWhole == [Dol EXCEPT !.paged = FALSE]

Pagers == [EIA |-> EiaPages, FRED |-> FredRows, FRED_BACKFILL |-> FredBackfill,
           VINTAGES |-> FredVintages, DOL |-> Dol, DOL_WHOLE |-> DolWhole]
Pager == Pagers[pager]

Received == UNION pages

PagingInit ==
    /\ pager \in DOMAIN Pagers
    /\ declared \in BOOLEAN /\ ascending \in BOOLEAN
    /\ Pager.pinned => ascending
    /\ history \in SUBSET Dates \ {{}}
    /\ opened = history /\ changes = [gained |-> 0, lost |-> 0]
    /\ turns = 0 /\ total = 0 /\ pages = {} /\ count = 0 /\ paged = "reading"

-----------------------------------------------------------------------------
(* The provider *)

Change(what, set) ==
    /\ paged = "reading" /\ turns > 0 /\ changes.gained + changes.lost < MaxChanges
    /\ history' = set
    /\ changes' = [changes EXCEPT ![what] = @ + 1]
    /\ UNCHANGED <<pager, declared, ascending, opened, turns, total, pages, count, paged>>
Gains(d) == d \notin history /\ Change("gained", history \cup {d})
Loses(d) == d \in history /\ Change("lost", history \ {d})

\* The number of a row in the list.
Position(d) == Cardinality({e \in history : IF ascending THEN e <= d ELSE e >= d})
\* The answer to a request for the rows after those received.
PageOf(n) ==
    LET from == IF Pager.paged THEN count ELSE 0 IN
    {d \in history : Position(d) \in from + 1..from + n}
TotalNow == IF declared THEN Cardinality(history) ELSE 0

-----------------------------------------------------------------------------
(* The fetch *)

\* What makes the adapter refuse a page.
TotalChanged == turns > 0 /\ TotalNow # total
RepeatsPage(page) == "page" \in Pager.repeats /\ page # {} /\ page \in pages
RepeatsRow(page) == "row" \in Pager.repeats /\ page \cap Received # {}
PageRefused(page) == TotalChanged \/ RepeatsPage(page) \/ RepeatsRow(page)

CountWith(page) == count + Cardinality(page)

\* Without a total FRED's list of vintages takes what it has received for it.
LastPage(page) ==
    \/ page = {} \/ ~Pager.paged
    \/ declared /\ CountWith(page) >= TotalNow
    \/ ~declared /\ ~Pager.short
    \/ Pager.short /\ Cardinality(page) < PageSize

AtHandUnchecked(page) == TRUE
AtHand(page) ==
    LET expected == IF turns = 0 THEN TotalNow ELSE total IN
    ~declared \/ (IF Pager.whole = "exactly" THEN CountWith(page) = expected ELSE CountWith(page) >= expected)
StartKept(page) == Pager.pinned => Received \cup page # {} /\ Min(Received \cup page) = Min(opened)
NoRowTwice(page) == Cardinality(Received \cup page) = CountWith(page)
WholeHistory(page) ==
    /\ AtHand(page)
    /\ "row_at_end" \in Pager.repeats => NoRowTwice(page)
    /\ pager = "VINTAGES" => Received \cup page # {}
    /\ StartKept(page)

\* One request and its answer.
Turn(page) ==
    /\ turns' = turns + 1
    /\ pages' = pages \cup {page} /\ count' = CountWith(page)
    /\ total' = IF turns = 0 THEN TotalNow ELSE total
    /\ UNCHANGED <<pager, declared, ascending, history, opened, changes>>

Refuse(page) ==
    /\ paged = "reading" /\ PageRefused(page)
    /\ paged' = "raised"
    /\ Turn(page)
Continue(page) ==
    /\ paged = "reading" /\ ~PageRefused(page) /\ ~LastPage(page)
    /\ paged' = IF turns + 1 = MaxPages THEN "raised" ELSE "reading"
    /\ Turn(page)
Finish(page) ==
    /\ paged = "reading" /\ ~PageRefused(page) /\ LastPage(page)
    /\ paged' = IF WholeHistory(page) THEN "complete" ELSE "raised"
    /\ Turn(page)

\* The transport fails, or the answer holds no list of rows.
NoAnswer ==
    /\ paged = "reading"
    /\ paged' = "raised"
    /\ UNCHANGED <<pager, declared, ascending, history, opened, changes, turns, total, pages, count>>

PagingNext ==
    \/ \E d \in Dates : Gains(d) \/ Loses(d)
    \/ \E n \in 1..PageSize : Refuse(PageOf(n)) \/ Continue(PageOf(n)) \/ Finish(PageOf(n))
    \/ NoAnswer

PagingSpec == PagingInit /\ [][PagingNext]_pagingVars

-----------------------------------------------------------------------------
(* Properties *)

PagingTypeOK ==
    /\ pager \in DOMAIN Pagers /\ declared \in BOOLEAN /\ ascending \in BOOLEAN
    /\ history \subseteq Dates /\ opened \subseteq Dates
    /\ changes \in [gained : Nat, lost : Nat] /\ changes.gained + changes.lost <= MaxChanges
    /\ turns \in 0..MaxPages /\ total \in Nat /\ count \in Nat
    /\ pages \subseteq SUBSET Dates
    /\ paged \in {"reading", "complete", "raised"}

\* A history that is taken for complete has no period twice, and is the one
\* the provider had at the first request, although it changed in between and
\* answers were short.  It need not be when the provider declares no total, or
\* has both gained and lost a row, which leaves the total as it was.
CompleteIsWhole ==
    paged = "complete" =>
        /\ Cardinality(Received) = count
        /\ declared /\ (changes.gained = 0 \/ changes.lost = 0) => Received = opened
=============================================================================
