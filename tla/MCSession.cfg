SPECIFICATION MCSpec
CONSTANTS
    d1 = d1
    d2 = d2
    a1 = a1
    a2 = a2
    c1 = c1
    r1 = r1
    Devices = {d1, d2}
    Artifacts = {a1, a2}
    Items = {c1, r1}
    DeviceOf <- MCDeviceOf
    CustodyOf <- MCCustodyOf
    Reasons = {"unknown_sequence", "malformed"}
    MaxReturns = 2
    MaxUp = 1
    MaxCrashes = 1
    Callers = {q1, q2}
    Tokens = {p1}
    MaxExportPages = 2
    Topics = {t1, t2}
    MaxConnections = 2
    MaxAttempts = 2
    Configured = {s1}
    Others = {s2, s3}
    Rate = 1
    Burst = 2
    ByteRate = 1
    BurstBytes = 3
    Maximum = 2
    GlobalRate = 1
    GlobalBurst = 3
    MaxSenders = 2
    MaxTime = 2
    MaxArrivals = 4
    MaxQueued = 1
    Interval = 2
    MaxTick = 3
    MaxRefusals = 3
    MaxLines = 2
INVARIANTS
    AcknowledgedIsKept
    HandedOverIsTaken
    ReturnedIsWhole
    ServedUnlessRefused
    
    NoneGoesUnlogged
PROPERTIES
    RetiredByItsDecision
    HoldEndsForCause
CHECK_DEADLOCK FALSE
