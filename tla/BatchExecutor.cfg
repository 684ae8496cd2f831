SPECIFICATION Spec
CONSTANTS
    NumRows = 4
    MaxWorkers = 2
    MaxAttempts = 2
INVARIANTS
    TypeOK
    ExactlyOnce
    AbortedMeansUntouched
    QuietAfterExit
    LateCallsBounded
PROPERTIES
    ImplementsPageRun
    PageTerminates
