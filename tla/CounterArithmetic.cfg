SPECIFICATION Spec
CONSTANTS
    Requests <- WideRequests
    Fixed <- NoFixed
    MaxDataSize = 0
    PartSize = 1
    BufLen = 7
INVARIANT NeverNegative
PROPERTY ImplementsIdeal
