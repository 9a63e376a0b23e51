SPECIFICATION FairSpec
CONSTANTS
    a = a
    b = b
    s = s
    t = t
    None = None
    Bodies <- TwoBodies
    Texts <- TwoTexts
    TextOf <- Extracted
    Fetches <- OneFetch
    Settings <- Choices
    Redistributable = FALSE
    MaxAttempts <- Attempts
    Retried <- RetriedFetches
INVARIANTS
    TypeOK
    VersionsAreAHistory
PROPERTIES
    QueuedParseSettles
