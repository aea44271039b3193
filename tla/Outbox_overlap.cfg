CONSTANTS
    a1 = a1
    a2 = a2
    t1 = t1
    i1 = i1
    i2 = i2
    c1 = c1
    c2 = c2
    w1 = w1
    w2 = w2
    Workers = {w1, w2}
    Alerts = {a1}
    Tests = {t1}
    Incidents = {i1}
    WorkflowIncidents = {i1}
    Channels = {c1}
    IncidentOf <- MCIncidentOf
    NoChannel = NoChannel
    MaxAttempts = 3
    RetryBase = 1
    ClaimTtl = 1
    DeliveryTimeout = 1
    BatchLimit = 2
    MaxAge = 0
    MaxCrashes = 1
SPECIFICATION FairSpec
INVARIANTS
    ClaimExclusive
    GivesUpOnlyAfterMaxAttempts
    NotifiedWasReceived
PROPERTIES
    SettledStaysSettled
    EveryRowSettles
