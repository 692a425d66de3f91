SPECIFICATION MCSpec
CONSTANTS
    d1 = d1
    a1 = a1
    a2 = a2
    c1 = c1
    h1 = h1
    Devices = {d1}
    Artifacts = {a1, a2}
    Items = {c1}
    DeviceOf <- MCDeviceOf
    CustodyOf <- MCCustodyOf
    Reasons = {"unknown_sequence"}
    MaxReturns = 1
    MaxUp = 2
    MaxCrashes = 1
    Sites = {x1, x2, foreign}
    Routable = {x1, x2}
    MaxUnconfigured = 1
    RecordResults = {"ok", "failed", "unsynced"}
    Nodes = {d1}
    NodeTTL = 1
    MaxSeen = 2
    Heads = {h1, h2}
    HeadHistorySize = 3
    Beats <- MCBeats
    HealthItems <- MCHealthItems
INVARIANTS
    RefusedIsReported
    HoldIsReadBack
    NeverUnderstated
PROPERTIES
    HeadIsDecided
CHECK_DEADLOCK FALSE
