SPECIFICATION Spec
CONSTANTS
    Workers = {w1}
    Batches = {1, 2}
    RowIds = {1, 2, 3, 4}
    Inputs <- MCInputsLong
    Outcomes = {"complete", "failed"}
    PageSize = 3
    PendingLimit = 2
    ChunkSize = 2
    ResultAttempts = 2
    StatusAttempts = 2
    LateInserts = TRUE
    MaxFaults = 2
INVARIANTS
    OneResultPerRow
    CountsExact
