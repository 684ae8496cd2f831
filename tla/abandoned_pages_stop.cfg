SPECIFICATION Spec
CONSTANTS
    MaxWorkers = 2
    NumPages = 2
    PageRows = 3
    CollectsWhileLogging = TRUE
CHECK_DEADLOCK FALSE
PROPERTIES
    SignalStops
