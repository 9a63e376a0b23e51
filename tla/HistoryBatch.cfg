SPECIFICATION FairSpec
CONSTANTS
    k1 = k1
    k2 = k2
    None = None
    Keys <- TwoKeys
    Sources <- TwoSources
    Limit <- OneAtATime
    Single <- FirstSource
    Slots <- OneSlot
    Window = 2
    ManualAttempts = 1
    MaxBorn = 3
INVARIANTS
    TypeOK
    OneBatchAtWork
    SameAnswer
    BackfilledOnce
PROPERTIES
    EventuallyOver
