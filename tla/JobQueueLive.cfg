SPECIFICATION FairSpec
CONSTANTS
    w1 = w1
    w2 = w2
    sync = sync
    probe = probe
    NoWorker = NoWorker
    NoRow = NoRow
    Workers <- TwoWorkers
    Jobs <- TwoJobs
    AttemptLimit = 2
    MaxAttempts <- MaxAttemptsTwoOne
    Priority <- PrioritySyncFirst
    Concurrency = 1
    RetryJobs <- NoJobs
    HeldJobs <- TheProbe
INVARIANTS
    RunningIsLeased
PROPERTIES
    EventuallySettledOrSpent
