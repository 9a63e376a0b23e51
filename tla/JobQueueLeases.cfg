SPECIFICATION Spec
CONSTANTS
    w1 = w1
    w2 = w2
    sync = sync
    probe = probe
    NoWorker = NoWorker
    NoRow = NoRow
    Workers <- TwoWorkers
    Jobs <- TwoJobs
    AttemptLimit = 2
    MaxAttempts <- MaxAttemptsTwoOne
    Priority <- PriorityEqual
    Concurrency = 2
    RetryJobs <- TheProbe
    HeldJobs <- TheSync
SYMMETRY WorkerSymmetry
INVARIANTS
    TypeOK
    AttemptsCountRuns
    OneRunAtWork
    QueuedHasAttemptLeft
PROPERTIES
    ImplementsLedger
