SPECIFICATION Spec
CONSTANTS
    NoData = NoData
    OUT_RING_SIZE = 4
    EVENT_RING_SIZE = 3
    OUT_BUF_SIZE = 2
    TRANSFER_MAX = 1
    OneContext = FALSE
    MaxTransfers = 4
    MaxDisconnects = 1
    MaxPortEvents = 1
INVARIANTS TypeOK EventsGenuine  DoneBeforeNext
CHECK_DEADLOCK FALSE
