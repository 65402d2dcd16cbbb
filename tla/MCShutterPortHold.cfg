SPECIFICATION Spec
CONSTANTS
    CLOCK_IN_QUEUE = 3
    TimeModulus = 6
    CheckDelay = 2
    HalfDelay = 3
    MaxSkips = 0
    DurationModulus = 16
    SyncWait = 2
    PressTime = 2
    CaptureTime = 4
    PulseTime = 1
    Configs <- HoldOnly
    Durations <- LongDuration
INVARIANT
    HoldsShutterDown
