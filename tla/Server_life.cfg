SPECIFICATION MCSpec
CONSTANTS
    n1 = n1
    b1 = b1
    Processes = {p1, p2}
    Nobody = Nobody
    Names = {n1, n2}
    Tags = 2
    Rebuilding <- MCRebuilding
    EnvTokens = {TRUE, FALSE}
    OpenModes = {TRUE, FALSE}
    SetupTtl = 0
    MaxTokens = 3
    MaxFaults = 1
    MaxCrashes = 1
    Browsers = {b1, b2}
    SessionTtl = 1
    Window = 1
    MaxAttempts = 2
    MaxLogins = 2
    MaxPosts = 1
    Batches = {o1, o2}
    Polls = {s1}
    Requests = {r1, r2}
    Units = 3
    GraceMs = 3
    MaxSignals = 1
    MaxFailures = 1
INVARIANTS
    SchemaIsWhole
    CleanUnlessOverlapped
    SetupClosesBehind
    GuessesBounded
    ExitIsClean
    GraceIsGranted
PROPERTIES
    OnlyTheLastLogin
    LockoutEnds
    ComesUp
    SignalEnds
CHECK_DEADLOCK FALSE
