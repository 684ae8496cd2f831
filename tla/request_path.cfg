SPECIFICATION Spec
CONSTANTS
    Names = {"rate", "label"}
    Clouds = {"bedrock", "messages"}
    MaxTools = 2
    MaxBlocks = 3
INVARIANTS
    AskedAsMeant
    NoRejectedCombination
    ResultOrReason
    SameFailureSameDisposition
\* A row's way ends at its result.
CHECK_DEADLOCK FALSE
