SPECIFICATION MCSpec
CONSTANTS
    Signers = {s1, s2}
    MaxWall = 1
    Reservation = 2
    Ceiling = 6
    MaxRuns = 2
    MarkResults = {"ok", "failed", "unsynced"}
    e1 = e1
    e2 = e2
    e3 = e3
    Envelopes = {e1, e2, e3}
    SignedAt <- MCSignedAt
    Skew = 1
    ReplayTTL = 2
    MaxKeys = 2
    MaxClock = 4
    MaxNow = 3
    MaxValue = 5
    ClockResults = {"ok", "failed", "unsynced"}
INVARIANTS
    CoverageIsDurable
    DegradedUnlessCovered
    AlwaysAdoptable
    NoWriteOutlivesItsHold
    AppliedOnce
    FloorHasACause
PROPERTIES
    SigningTimesNeverRepeat
    EachValueIsLater
    NoValueWaitsForever
    
