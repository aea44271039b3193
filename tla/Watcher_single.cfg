CONSTANTS
    p1 = p1
    p2 = p2
    k1 = k1
    k2 = k2
    Processes = {p1}
    Nobody = Nobody
    Problems = {k2}
    Polled = {k2}
    SlotLength = 1
    Deadline = 1
    FirstDeadline = 0
    MaxLate = 2
    Backoff = 1
    ClaimTtl = 1
    MaxStall = 0
    MaxEnds = 1
    MaxCrashes = 1
SPECIFICATION FairSpec
INVARIANTS
    AnnouncedExactly
PROPERTIES
    SilenceIsAnnounced
