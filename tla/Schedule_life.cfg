SPECIFICATION Spec
CONSTANTS
    None = None
    CronTicks <- MCCronTicks
    FallbackValue <- MCFallbackValue
    FallbackQuiet = 2
    Triggers <- MCTriggers
    Choices <- MCChoices
    Lateness = 1
    Grace = 1
    Old <- MCOld
    Start = 1
    Horizon = 9
    MaxLate = 2
    MaxAhead = 1
    MaxEdits = 3
    MaxReports = 2
CHECK_DEADLOCK FALSE
INVARIANTS
    GateIsSound
PROPERTIES
    VerdictIsRight
    SilenceStands
