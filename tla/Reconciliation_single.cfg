CONSTANTS
    k1 = k1
    k2 = k2
    a = a
    b = b
    Problems <- OutcomeProblems
    Backoff = 0
    Calls = {k1}
    Windows <- Both
    Emails = {a, b}
    RegisteredAt <- Twice
    Contracts <- BothModes
    MaxTime = 3
    MaxFlight = 1
    MaxCopies = 1
    MaxRevokes = 0
    MaxProbes = 0
    MaxExports = 1
    MaxWaives = 0
    MaxCrashes = 1
SPECIFICATION Spec
INVARIANTS
    GreenIsDelivered
    MissingIsReported
CHECK_DEADLOCK FALSE
