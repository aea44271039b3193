CONSTANTS
    p1 = p1
    p2 = p2
    w1 = w1
    w2 = w2
    c1 = c1
    Nobody = Nobody
    NoConnector = NoConnector
    Processes = {p1, p2}
    Problems = {w1}
    Connectors = {c1}
    ConnectorOf <- OneConnector
    Home <- MCHome
    Network <- MCNetwork
    NoLocation = NoLocation
    Unreadable = Unreadable
    MaxRedirects = 1
    Backoff = 0
    Interval = 1
    MaxBackoff = 1
    MaxFailures = 2
    ClaimTtl = 1
    ReadTimeout = 1
    PageSize = 3
    MaxTick = 1
    MaxExecutions = 2
    MaxTurns = 1
    MaxCrashes = 1
SPECIFICATION Spec
INVARIANTS
    NothingLost
    PollsExclude
SYMMETRY ProcessSymmetry
