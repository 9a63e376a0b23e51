----------------------------- MODULE MCDocuments -----------------------------
\* Instances of Documents for TLC.
EXTENDS Documents, TLC

CONSTANTS a, b, s, t

TwoBodies == {a, b}
TwoTexts == {s, t}
Extracted == a :> s @@ b :> t
OneFetch == {1}
Allowed == [display |-> TRUE, ai |-> TRUE]
Denied == [display |-> FALSE, ai |-> FALSE]
Choices == {[policies |-> <<>>, followed |-> {}],
            [policies |-> <<Denied, Allowed>>, followed |-> {<<"embed", s>>}],
            [policies |-> <<Denied, Allowed>>, followed |-> {<<"reader", t>>}]}
Attempts == [j \in Jobs |-> IF j[1] \notin {"fetch", "parse"} \/ j = <<"parse", b>> THEN 1 ELSE 2]
RetriedFetches == {"fetch"} \X Fetches
=============================================================================
