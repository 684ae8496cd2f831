SPECIFICATION Spec
CONSTANTS
    MaxWorkers = 2
    NumPages = 3
    PageRows = 3
    CollectsWhileLogging = FALSE
INVARIANTS
    TypeOK
    StragglersBounded
CHECK_DEADLOCK FALSE
PROPERTIES
    SignalStops
    PagesGoOn
