SPECIFICATION Spec
CONSTANTS
    s1 = s1
    s2 = s2
    s3 = s3
    s4 = s4
    j1 = j1
    j2 = j2
    here = here
    more = more
    a = a
    b = b
    raw1 = raw1
    raw2 = raw2
    raw3 = raw3
    raw4 = raw4
    NoRow = NoRow
    NoBatch = NoBatch
    NoMerge = NoMerge
    NoUndo = NoUndo
    Syncs <- ThreeSyncs
    Jobs <- AllJobs
    JobOf <- JobOfSync
    Scopes <- AllScopes
    ScopeOf <- ScopeOfSync
    Periods <- OnePeriod
    Vintages <- ThreeVintages
    Values <- TwoValues
    Raws <- FourRaws
    Stagings <- Confirmations
    Regimes <- Impatient
INVARIANTS
    LatestIsProjection
CHECK_DEADLOCK FALSE
