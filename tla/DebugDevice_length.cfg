SPECIFICATION Spec
CONSTANTS
    NoData = NoData
    OUT_RING_SIZE = 4
    EVENT_RING_SIZE = 3
    OUT_BUF_SIZE = 3
    TRANSFER_MAX = 2
    OneContext = TRUE
    MaxTransfers = 1
    MaxDisconnects = 0
    MaxPortEvents = 0
INVARIANT TransfersWhole
CHECK_DEADLOCK FALSE
