SPECIFICATION LanesSpec
CONSTANTS
    None = "none"
    Artifacts = {"e1"}
    Devices = {"d1"}
    DeviceOf <- MCDeviceOf
    KindOf <- MCKindOf
    MaxItems = 2
    Reserved = FALSE
    MaxAttempts = 2
    MaxSeq = 1
    MaxPossible = 2
    Results = {"ok"}
    Registered = {"d1"}
    Answers = {"lost"}
    MaxCrashes = 1
PROPERTY BackoffKeepsGrowing
