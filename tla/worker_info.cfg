SPECIFICATION Spec
CONSTANTS
    Workers = {w1, w2}
    Republish = 2
    Retry = 1
    Overlap = TRUE
    MaxFaults = 2
INVARIANTS
    TypeOK
    AtMostOneLateRow
PROPERTIES
    CapabilitiesLand
    HandOverSettles
