SPECIFICATION FairSpec
CONSTANTS
    NoData = NoData
    OUT_RING_SIZE = 4
    EVENT_RING_SIZE = 3
    OUT_BUF_SIZE = 2
    TRANSFER_MAX = 1
    OneContext = TRUE
    MaxTransfers = 2
    MaxDisconnects = 1
    MaxPortEvents = 0
PROPERTY WriteReturns
CHECK_DEADLOCK FALSE
