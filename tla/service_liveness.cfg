SPECIFICATION Spec
CONSTANTS
    Workers = {w1, w2}
    Batches = {1, 2}
    RowIds = {1, 2}
    Inputs <- MCInputsEmpty
    Outcomes = {"denied", "aborted"}
    PageSize = 1
    PendingLimit = 1
    ChunkSize = 1
    ResultAttempts = 2
    StatusAttempts = 2
    LateInserts = FALSE
    MaxFaults = 2
PROPERTIES
    BatchCompletes
    WorkerStops
