---------------------------- MODULE MCHistoryBatch ----------------------------
\* Instances of HistoryBatch for TLC.
EXTENDS HistoryBatch

CONSTANTS k1, k2

TwoKeys == {k1, k2}
TwoSources == {1, 2}
FirstSource == {1}
OneAtATime == [k \in Keys |-> 1]
OneSlot == {1}
=============================================================================
