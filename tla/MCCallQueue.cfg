SPECIFICATION Spec
CONSTANTS
    CLOCK_IN_QUEUE = 2
    TimeModulus = 8
    CheckDelay = 4
    HalfDelay = 5
    MaxSkips = 2
    MaxLate = 9
    MainRequests <- MCMainRequests
    IsrRequests <- MCIsrRequests
    CaptureTimes <- MCCaptureTimes
INVARIANTS
    TypeOK
    ArmedSlotHasFunction
    NoFireIntoHalfWrittenSlot
    SkipAccounting
    FiresWhenDue
