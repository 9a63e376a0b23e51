------------------------------- MODULE Extracts -------------------------------
(***************************************************************************)
(* What the adapters that get many series in one answer take of it for one  *)
(* mapping (macrolens_worker/providers/bea.py, census.py, fed_board.py,      *)
(* treasury.py, nyfed.py and bls.py, with the helpers of base.py).           *)
(*                                                                          *)
(* A row has the identity the provider gives it (`code`), a description     *)
(* (`label`), a period and a value.  Two periods are one coarser period: a   *)
(* quarter of its months, a year of the G.17 file.                          *)
(***************************************************************************)
EXTENDS Integers, Sequences, FiniteSets, FiniteSetsExt, Nulls

CONSTANTS
    Codes, Labels,
    Mine, Label,    \* the code and the label the mapping pins
    LastFine,       \* periods are 1..LastFine
    Amounts,        \* values
    MaxRows         \* bound: rows of an answer

ASSUME ExtractsAssumption ==
    /\ Mine \in Codes /\ Label \in Labels
    /\ LastFine \in Nat /\ Amounts \subseteq Int /\ MaxRows \in Nat /\ None \notin Int

VARIABLES
    extractor,
    coarse,         \* whether the mapping is of a lower frequency than the rows
    partial,        \* whether the latest year may be short
    starts,         \* the first period the mapping states, None when it does not
    received,       \* the rows of the answer
    extract,        \* the observations: period and value
    extracted       \* the outcome

extractVars == <<extractor, coarse, partial, starts, received, extract, extracted>>

FinePeriods == 1..LastFine
AnswerRow == [code : Codes, label : Labels, period : FinePeriods \cup {None}, value : Amounts \cup {None}]
Extractors == {"BLS", "BLS_DIFFERENCE", "BEA_CODE", "BEA_LABEL", "CENSUS", "G17", "SDMX", "TREASURY", "NYFED", "NYFED_SUM"}
OfBea == extractor \in {"BEA_CODE", "BEA_LABEL"}
OfBls == extractor \in {"BLS", "BLS_DIFFERENCE"}
OfNyFed == extractor \in {"NYFED", "NYFED_SUM"}

Year(p) == (p + 1) \div 2
\* The first fine period of the coarse one.
Floor(p) == IF coarse THEN 2 * Year(p) - 1 ELSE p

ExtractsInit ==
    /\ extractor \in Extractors
    /\ coarse \in BOOLEAN /\ (coarse => extractor = "SDMX")
    /\ partial \in BOOLEAN /\ (partial => extractor = "G17")
    /\ starts \in {None, 1} /\ (starts # None => extractor \in {"G17", "SDMX"})
    /\ received = <<>> /\ extract = {} /\ extracted = "reading"

-----------------------------------------------------------------------------
(* The rows of the mapping *)

AnswerRows == {received[i] : i \in DOMAIN received}
Labelled(code) == {r.label : r \in {q \in AnswerRows : q.code = code}}
LastLabel(code) == received[Max({i \in DOMAIN received : received[i].code = code})].label

\* _resolve_identities of BEA: by code, or else by description.
Resolved ==
    {code \in {r.code : r \in AnswerRows} :
        IF extractor = "BEA_CODE" THEN code = Mine ELSE Label \in Labelled(code)}

\* _row_matches, _dimensions_match, the series of the file, the field of a date:
\* Treasury has no observation where the field is null.
RowMatches(r) ==
    IF OfBea THEN r.code \in Resolved
    ELSE r.code = Mine /\ (extractor = "TREASURY" => r.value # None)
\* Their numbers in the answer.
Matching == {i \in DOMAIN received : RowMatches(received[i])}
Months(year) == {i \in Matching : Year(received[i].period) = year}
YearsMatched == {Year(received[i].period) : i \in Matching}

-----------------------------------------------------------------------------
(* What makes each adapter refuse the answer *)

BeaLenient == Cardinality(Resolved) # 1
BeaRefuses == Cardinality(Resolved) # 1 \/ \E code \in Codes : Cardinality(Labelled(code)) > 1

\* _series_payloads and _validate_identity: the answer is of what was asked for,
\* which may have no data.
BlsRefuses == \E r \in AnswerRows : r.code # Mine \/ r.label # Label

CensusRefuses == Matching = {} \/ \E i, j \in Matching : i # j /\ received[i].period = received[j].period

G17Refuses ==
    \/ Matching = {} \/ LastLabel(Mine) # Label
    \/ \E year \in YearsMatched :
          Cardinality(Months(year)) # 2 /\ ~(partial /\ year = Max(YearsMatched) /\ Cardinality(Months(year)) = 1)

SdmxRefuses == Labelled(Mine) # {Label}

NyFedRefuses ==
    \/ Matching = {} \/ \E i \in Matching : received[i].value = None
    \/ /\ extractor = "NYFED"
       /\ \E i, j \in Matching : received[i].period = received[j].period /\ received[i].value # received[j].value

\* A Treasury answer holds dates: one that cannot be read is nobody's.  (An entry
\* without a date is passed over there, so it is no row.)
Unreadable == \E i \in IF extractor = "TREASURY" THEN DOMAIN received ELSE Matching : received[i].period = None

AnswerRefused ==
    \/ Unreadable
    \/ OfBea /\ BeaRefuses
    \/ OfBls /\ BlsRefuses
    \/ extractor = "CENSUS" /\ CensusRefuses
    \/ extractor = "G17" /\ G17Refuses
    \/ extractor = "SDMX" /\ SdmxRefuses
    \/ extractor = "TREASURY" /\ Matching = {}
    \/ OfNyFed /\ NyFedRefuses

-----------------------------------------------------------------------------
(* The observations *)

\* _aggregate: the sum of the rows of a period.
SumOf(p) == FoldSet(LAMBDA i, sum : received[i].value + sum, 0, {i \in Matching : received[i].period = p})

\* _parse_g17: the values of a year are its months in order.
MonthOf(i) == Cardinality({j \in Months(Year(received[i].period)) : j <= i})
G17Period(i) == 2 * Year(received[i].period) - 2 + MonthOf(i)

Taken ==
    CASE extractor = "G17" -> {[period |-> G17Period(i), value |-> received[i].value] : i \in Matching}
      [] extractor = "NYFED_SUM" -> {[period |-> received[i].period, value |-> SumOf(received[i].period)] : i \in Matching}
      [] OTHER -> {[period |-> Floor(received[i].period), value |-> received[i].value] : i \in Matching}

\* deduplicate_observations refuses two values of a period; so do the adapters
\* that collect by period, before they derive anything from them.
Conflict(observed) == \E o, q \in observed : o.period = q.period /\ o.value # q.value

\* apply_mapping_transform, period_difference of one period: the row before in
\* order has to be the period before.
EarlierThan(observed, o) == {q \in observed : q.period < o.period}
Previous(observed, o) ==
    CHOOSE q \in EarlierThan(observed, o) : \A w \in EarlierThan(observed, o) : w.period <= q.period
Increase(observed, o) ==
    IF \/ EarlierThan(observed, o) = {} \/ Previous(observed, o).period # o.period - 1
       \/ o.value = None \/ Previous(observed, o).value = None THEN None
    ELSE o.value - Previous(observed, o).value
Difference(observed) == {[period |-> o.period, value |-> Increase(observed, o)] : o \in observed}

Transformed(observed) == IF extractor = "BLS_DIFFERENCE" THEN Difference(observed) ELSE observed

StartsElsewhere(observed) == starts # None /\ Min({o.period : o \in observed}) # starts

-----------------------------------------------------------------------------
(* The answer *)

\* The providers that are asked for one series answer with it, and some describe
\* none; the G.17 file lists the months of a year from the first on.
Plausible(r) ==
    /\ OfNyFed => r.code = Mine
    /\ OfNyFed \/ extractor \in {"CENSUS", "TREASURY"} => r.label = Label
    /\ extractor = "G17" =>
          /\ r.period # None
          /\ r.period % 2 = 0 => \E q \in AnswerRows : q.code = r.code /\ q.period = r.period - 1
          /\ ~\E q \in AnswerRows : q.code = r.code /\ q.period = r.period

Receive(r) ==
    /\ extracted = "reading" /\ Len(received) < MaxRows /\ Plausible(r)
    /\ received' = Append(received, r)
    /\ UNCHANGED <<extractor, coarse, partial, starts, extract, extracted>>

Extract ==
    /\ extracted = "reading"
    /\ extracted' = IF AnswerRefused \/ Conflict(Taken) \/ StartsElsewhere(Taken) THEN "raised" ELSE "accepted"
    /\ extract' = IF extracted' = "accepted" THEN Transformed(Taken) ELSE {}
    /\ UNCHANGED <<extractor, coarse, partial, starts, received>>

ExtractsNext == (\E r \in AnswerRow : Receive(r)) \/ Extract

ExtractsSpec == ExtractsInit /\ [][ExtractsNext]_extractVars

-----------------------------------------------------------------------------
(* Properties *)

ExtractsTypeOK ==
    /\ extractor \in Extractors
    /\ received \in Seq(AnswerRow) /\ Len(received) <= MaxRows
    /\ \A o \in extract : o.period \in FinePeriods
    /\ extracted \in {"reading", "accepted", "raised"}

\* The rows that are of the series the mapping names.
Meant ==
    {r \in AnswerRows :
        /\ IF extractor = "BEA_LABEL" THEN r.label = Label ELSE r.code = Mine
        /\ extractor = "TREASURY" => r.value # None}

\* An accepted extract has each period of the series, and no other, once, with
\* the value of its rows: never those of a series that shares its code or its
\* description; and a derived value is the change since the period before, if
\* both have one.
WholeAndUnmixed ==
    extracted = "accepted" =>
        /\ {o.period : o \in extract} = {Floor(r.period) : r \in Meant}
        /\ \A o, q \in extract : o.period = q.period => o = q
        /\ extractor \notin {"BLS_DIFFERENCE", "NYFED_SUM"} =>
              \A r \in Meant : [period |-> Floor(r.period), value |-> r.value] \in extract
        /\ extractor = "BLS_DIFFERENCE" =>
              /\ \A o \in extract : o.value = None \/
                    \E r, q \in Meant : r.period = o.period /\ q.period = o.period - 1 /\ o.value = r.value - q.value
              /\ \A r, q \in Meant : q.period = r.period - 1 /\ r.value # None /\ q.value # None =>
                    [period |-> r.period, value |-> r.value - q.value] \in extract
=============================================================================
