SPECIFICATION Spec
CONSTANTS
    Requests <- BufferRequests
    Fixed <- FixedData
    MaxDataSize = 2
    PartSize = 2
    BufLen = 12
INVARIANT StagedIntact
PROPERTY ImplementsIdeal
