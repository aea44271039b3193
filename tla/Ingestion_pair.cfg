CONSTANTS
    p1 = p1
    p2 = p2
    a = a
    b = b
    c = c
    NoReport = NoReport
    Problems = {"silent_absence", "hard_failure", "empty_result", "freshness_stale",
                "effect_count_mismatch"}
    Backoff = 0
    Processes = {p1, p2}
    Keys = {a, b, c}
    Reports <- MCReports
    Agreements <- MCAgreements
    Cap = 1
    Sustained = 1
    Window = 1
    MaxEvents = 3
    MaxAdmin = 3
SPECIFICATION MCSpec
INVARIANTS
    AnnouncedOnceEach
    IncidentsMatchEvidence
PROPERTIES
    CopiesAreAccepted
SYMMETRY InstanceSymmetry
CHECK_DEADLOCK FALSE
