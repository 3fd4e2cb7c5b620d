SPECIFICATION FairSpec
CONSTANTS
    e1 = e1
    e2 = e2
    Elem <- MCElem
    NoElem = NoElem
    MAX_SIZE = 3
INVARIANTS TypeOK NoSlotRace AssertsHold 
PROPERTIES IsFifo Delivered
