SPECIFICATION Spec
CONSTANTS
    None = "none"
    Artifacts = {"e1", "e2"}
    Devices = {"d1"}
    DeviceOf <- MCDeviceOf
    KindOf <- MCKindOf
    MaxItems = 2
    Reserved = FALSE
    MaxAttempts = 1
    MaxSeq = 3
    MaxPossible = 2
    Results = {"ok", "failed", "unsynced"}
INVARIANTS  ReopenableUnlessSlipped
PROPERTY AdmissionOrder
CHECK_DEADLOCK FALSE
