SPECIFICATION Spec
CONSTANTS
    Workers = {w1}
    Batches = {1}
    RowIds = {1, 2}
    Inputs <- MCInputsOne
    Outcomes = {"complete", "failed", "denied", "aborted"}
    PageSize = 1
    PendingLimit = 2
    ChunkSize = 2
    ResultAttempts = 2
    StatusAttempts = 2
    LateInserts = FALSE
    MaxFaults = 0
PROPERTIES
    AbortIsBatchWide
