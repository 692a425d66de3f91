SPECIFICATION FairSpec
CONSTANTS
    None = "none"
    Artifacts = {"r1", "e1", "f1"}
    Devices = {"d1"}
    DeviceOf <- MCDeviceOf
    KindOf <- MCKindOf
    MaxItems = 2
    Reserved = TRUE
    MaxAttempts = 1
    MaxSeq = 2
    MaxPossible = 2
    Results = {"ok"}
    Registered = {}
    Answers = {"lost", "epoch"}
    MaxCrashes = 0
INVARIANTS RegistrationReserve 
PROPERTIES EventuallyDelivered
