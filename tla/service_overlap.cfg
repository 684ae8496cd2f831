SPECIFICATION Spec
CONSTANTS
    Workers = {w1, w2}
    Batches = {1, 2}
    RowIds = {1, 2}
    Inputs <- MCInputs
    Outcomes = {"complete"}
    PageSize = 1
    PendingLimit = 1
    ChunkSize = 1
    ResultAttempts = 2
    StatusAttempts = 2
    LateInserts = TRUE
    MaxFaults = 2
SYMMETRY MCSymmetry
INVARIANTS
    TypeOK
    CompleteIsAnswered
    CountsBracketed
PROPERTIES
    ImplementsLedger
