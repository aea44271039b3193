CONSTANTS
    p1 = p1
    p2 = p2
    Problems <- DriftProblems
    Backoff = 0
    Processes = {p1, p2}
    Midnights <- LongDay
    Firsts <- TwoDays
    DayLength = 3
    WeekLength = 2
    WindowTypes = {"daily", "weekly", "monthly"}
    Grace = 0
    Minimum = 1
    Maximum = 3
    ActivatedAt = 3
    ClaimTtl = 2
    Items <- AnyItems
    Begin = 10
    End = 13
    TickEvery = 2
    MaxStall = 1
    MaxLate = 1
    MaxReports = 2
    MaxPauses = 1
    MaxCrashes = 1
SPECIFICATION Spec
INVARIANTS
    VerdictIsFair
    IncidentsMatchVerdicts
PROPERTIES
    FinalForGood
SYMMETRY ProcessSymmetry
CHECK_DEADLOCK FALSE
