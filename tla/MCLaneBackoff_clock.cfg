SPECIFICATION MCSpec
CONSTANTS
    Milli = 2
    Base = 1
    MaxBackoff = 2
    Retry = 1
    Floors = {0, 4}
    MaxAttempts = 2
    MaxTime = 10
    MaxWall = 10
    MaxSteps = 1
    MaxRestarts = 2
    Day = 3
    Week = 2
    Late = 1
    Offsets <- MCOffsets
    Changes <- MCChanges
    ClockSteps <- MCClockSteps
    Calls = 1
    Horizon = 18
INVARIANTS NotSentEarly BackStepCostsOneBound WeeksAreReported
CHECK_DEADLOCK FALSE
