SPECIFICATION LanesSpec
CONSTANTS
    None = "none"
    Artifacts = {"e1", "f1"}
    Devices = {"d1"}
    DeviceOf <- MCDeviceOf
    KindOf <- MCKindOf
    MaxItems = 2
    Reserved = FALSE
    MaxAttempts = 1
    MaxSeq = 2
    MaxPossible = 2
    Results = {"ok", "unsynced"}
    Registered = {"d1"}
    Answers = {"lost"}
    MaxCrashes = 1
INVARIANT BackoffSurvivesRestart
CHECK_DEADLOCK FALSE
