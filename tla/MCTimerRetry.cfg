SPECIFICATION Spec
CONSTANTS
    PausePasses = 2
    ErrorRetries = 1
    PhotoModulus = 4
    MaxFailures = 1
    Programs <- PlainOnly
INVARIANT
    PhotoWasExposed
