SPECIFICATION Spec
CONSTANTS
    Requests <- HighLimitRequests
    Fixed <- NoFixed
    MaxDataSize = 0
    PartSize = 1
    BufLen = 7
PROPERTY OverflowMeansOverLimit
