SPECIFICATION Spec
CONSTANTS
    Packages = {p1, p2}
    Metadata <- MCMetadata
    MaxChanges = 2
CHECK_DEADLOCK FALSE
INVARIANTS
    TypeOK
    ShippedIsAttributed

    
