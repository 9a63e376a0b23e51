SPECIFICATION FairAnalysisSpec
CONSTANTS
    w1 = w1
    w2 = w2
    ask = ask
    NoWorker = NoWorker
    NoRow = NoRow
    Workers <- TwoWorkers
    Jobs <- OneJob
    AttemptLimit = 2
    MaxAttempts <- MaxAttemptsTwo
    Priority <- PriorityTen
    Concurrency = 1
    RetryJobs <- NoJobs
    HeldJobs <- OneJob
    Sources <- TwoSources
INVARIANTS
    SettledTogether
    CitationsAreTheAnswers
PROPERTIES
    CancelledStays
    EventuallyEnded
