SPECIFICATION FairSpec
CONSTANTS
    NoData = NoData
    OUT_RING_SIZE = 3
    EVENT_RING_SIZE = 3
    OUT_BUF_SIZE = 2
    TRANSFER_MAX = 1
    OneContext = FALSE
    MaxTransfers = 3
    MaxDisconnects = 0
    MaxPortEvents = 1
PROPERTIES Delivered WriteReturns
