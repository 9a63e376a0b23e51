------------------------------ MODULE MCJobQueue ------------------------------
\* Instances of JobQueue for TLC: model values and small functions for its
\* constants.
EXTENDS JobQueue, TLC

CONSTANTS w1, w2, sync, probe

OneWorker == {w1}
TwoWorkers == {w1, w2}
\* No definition tells the workers apart.
WorkerSymmetry == Permutations(TwoWorkers)
TwoJobs == {sync, probe}
OneJob == {sync}
TheSync == {sync}
TheProbe == {probe}
NoJobs == {}

\* A job with a retry and a history-backfill child, which has one attempt.
MaxAttemptsTwoOne == [j \in Jobs |-> IF j = sync THEN 2 ELSE 1]
MaxAttemptsTwo == [j \in Jobs |-> 2]
\* The operator's jobs (20) go before the scheduler's (5).
PrioritySyncFirst == [j \in Jobs |-> IF j = sync THEN 20 ELSE 5]
PriorityEqual == [j \in Jobs |-> 5]
=============================================================================
