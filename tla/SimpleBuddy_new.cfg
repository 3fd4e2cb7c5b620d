SPECIFICATION SimpleSpec
CONSTANTS
    Bits = 4
    Size <- MCSize
    max_ord = 2
    Limit = 12
    PAGE_BITS = 1
    HEAP_ALIGNMENT = 1
INVARIANTS StorageSuffices
CHECK_DEADLOCK FALSE
