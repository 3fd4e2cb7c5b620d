SPECIFICATION LSpec
CONSTANTS
    e1 = e1
    e2 = e2
    t1 = t1
    t2 = t2
    none = none
    Bits = 4
    Size <- MCSize
    max_ord = 2
    Limit = 12
    PAGE_BITS = 1
    HEAP_ALIGNMENT = 1
INVARIANTS  NothingLost AsTheirModels HeapExact 
    BlocksConserved BlocksMerged AllocFindsWhatThereIs SimpleMapIsExact
PROPERTIES RefinesPointMap  CallsReturn
