SPECIFICATION Spec
CONSTANTS
    PausePasses = 2
    ErrorRetries = 1
    PhotoModulus = 4
    MaxFailures = 2
    Programs <- MCPrograms
INVARIANTS
    TypeOK
    CountsItsPhotos
    HdrSetComplete
    MethodRestored
PROPERTIES
    StopEndsUnpausedRun
    RunCompletes
    ResumeEndsPause
    ImplementsIntervalometer
