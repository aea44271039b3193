CONSTANTS
    p1 = p1
    p2 = p2
    k1 = k1
    k2 = k2
    Processes = {p1, p2}
    Nobody = Nobody
    Problems = {k1}
    Polled = {}
    SlotLength = 0
    Deadline = 0
    FirstDeadline = 0
    MaxLate = 0
    Backoff = 0
    ClaimTtl = 1
    MaxStall = 1
    MaxEnds = 1
    MaxCrashes = 0
SPECIFICATION TickingSpec
INVARIANTS
    ClaimExclusive
    OpenedAnnouncedOnce
PROPERTIES
    RecoveryClosesIncident
