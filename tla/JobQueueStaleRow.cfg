SPECIFICATION FairSpec
CONSTANTS
    w1 = w1
    w2 = w2
    sync = sync
    probe = probe
    NoWorker = NoWorker
    NoRow = NoRow
    Workers <- OneWorker
    Jobs <- OneJob
    AttemptLimit = 2
    MaxAttempts <- MaxAttemptsTwo
    Priority <- PriorityEqual
    Concurrency = 1
    RetryJobs <- NoJobs
    HeldJobs <- OneJob
PROPERTIES
    StaleRowIsRecovered
