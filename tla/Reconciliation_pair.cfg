CONSTANTS
    k1 = k1
    k2 = k2
    a = a
    b = b
    Problems <- OutcomeProblems
    Backoff = 0
    Calls = {k1, k2}
    Windows <- Whole
    Emails = {a}
    RegisteredAt <- AtOnce
    Contracts <- OneMode
    MaxTime = 2
    MaxFlight = 1
    MaxCopies = 1
    MaxRevokes = 1
    MaxProbes = 1
    MaxExports = 0
    MaxWaives = 1
    MaxCrashes = 1
SPECIFICATION FairSpec
INVARIANTS
    AnnouncedOnce
PROPERTIES
    EveryRunEnds
CHECK_DEADLOCK FALSE
