---------------------------- MODULE MCAnalysisJobs ----------------------------
\* Instances of AnalysisJobs for TLC: one analysis of two attempts.
EXTENDS AnalysisJobs

CONSTANTS w1, w2, ask

OneWorker == {w1}
TwoWorkers == {w1, w2}
OneJob == {ask}
NoJobs == {}
MaxAttemptsTwo == [j \in Jobs |-> 2]
PriorityTen == [j \in Jobs |-> 10]
TwoSources == {1, 2}
=============================================================================
