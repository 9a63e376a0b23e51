SPECIFICATION ServicesSpec
CONSTANTS
    Parts = {"mappings"}
    None = None
    MaxSessions = 3
    MaxEdits = 1
    Requests = {q1, q2}
    Maps <- TwoMaps
    Identities = {x, y}
    Registered <- RegisteredAsX
    Ready = {m1, m2}
    OfTradingView = {m2}
    Probes <- ThreeProbes
    Writers = {w1, w2}
    MaxAttempts <- ProbeAttempts
    Edited = {m1, m2}
    Statuses = {"disabled"}
    Retried <- FirstProbe
    Rules = {rule1}
    Evaluators = {e1, e2}
    Documents = {doc1}
    Kinds = {"digest"}
    Mailed = {"digest"}
    Cooldown <- CooldownOfOne
    Day = 2
    DigestAt = 1
    ReleaseAt = 1
    Lead = 1
    MailAttempts = 2
    MaxTime = 3
    w1 = w1
    m1 = m1
    m2 = m2
    x = x
    y = y
    Periods = {1, 2}
    Syncs = {sync1, sync2}
    Readers = {"observations", "first_release", "revisions", "browser", "csv", "analytics", "context"}
    Window = 1
    LastTime = 2
    Listed = {1, 2}
    PointValues <- SomeValues
    Cases <- BrowserCases
    Units = {1, 2, 3, 4}
    Revised = {2}
    Steps = {1, 2}
    Staleness = 1
    Dates = {1, 2, 3, 4}
    PageSize = 2
    MaxPages = 4
    MaxChanges = 2
    Series = {1, 2}
    LastYear = 3
    Recent = 1
    Span = 2
    Batch = 1
    Codes = {"a", "b"}
    Labels = {"k", "l"}
    Mine = "a"
    Label = "l"
    LastFine = 3
    Amounts = {1, 2}
    MaxRows = 3
INVARIANTS
    ChangedIdentityIsRevoked
CHECK_DEADLOCK FALSE
