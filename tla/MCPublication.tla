---------------------------- MODULE MCPublication ----------------------------
\* Instances of Publication for TLC: few syncs, two periods, and fetches chosen
\* so that vintages are new, older, repeated, rewritten and replayed.
EXTENDS Publication

CONSTANTS s1, s2, s3, s4, j1, j2, here, more, a, b, raw1, raw2, raw3, raw4

ThreeSyncs == {s1, s2, s3}
FourSyncs == {s1, s2, s3, s4}
AllJobs == {j1, j2}
\* s3 and s4 execute the job of s2 once more: s4 finds the mappings s3 found, s2
\* has found others.
JobOfSync == [s \in Syncs |-> IF s = s1 THEN j1 ELSE j2]
AllScopes == {here, more}
ScopeOfSync == [s \in Syncs |-> IF s = s2 THEN more ELSE here]

Regime(serialised, rollbacks, waits) == [serialised |-> serialised, rollbacks |-> rollbacks, waits |-> waits]
\* Syncs overlap freely and nothing is rolled back; or they run one after the
\* other, as holders of the advisory lock do, and an operator rolls any active
\* batch back between them.
OverlappingOrOperated == {Regime(FALSE, {}, FALSE), Regime(TRUE, Syncs, TRUE)}
\* The operator does not wait.
Impatient == {Regime(TRUE, Syncs, FALSE)}

TwoPeriods == 1..2
OnePeriod == {1}
TwoValues == {a, b}
FourRaws == {raw1, raw2, raw3, raw4}
ThreeVintages == 1..3

Obs(p, v, x, raw) == [period |-> p, vintage |-> v, value |-> x, raw |-> raw]

First == {Obs(1, 2, a, raw1), Obs(2, 2, a, raw1)}
Revision == {Obs(1, 3, b, raw2), Obs(2, 3, a, raw2)}
SameBytesLater == {Obs(1, 3, a, raw1), Obs(2, 3, a, raw1)}
Backfill == {Obs(1, 1, b, raw3)}
Rewrite == {Obs(1, 2, b, raw4)}

Fetches == {First, Revision, SameBytesLater, Backfill, Rewrite, {}}
\* One period, published and then revised.
Revisions == {{Obs(1, 2, a, raw1)}, {Obs(1, 3, b, raw2)}}
\* One period, published, confirmed and then revised.
Confirmations == {{Obs(1, 1, a, raw1)}, {Obs(1, 2, a, raw2)}, {Obs(1, 3, b, raw3)}}
=============================================================================
