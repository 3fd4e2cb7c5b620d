SPECIFICATION FSpec
CONSTANTS
    vector_base = 32
    Lines <- MCLines
    h1 = h1
    h2 = h2
    none = none
    Entries = 2
    Roots <- MCRoots
    Tables <- MCTables
    InitTable <- MCInitTable
    Touched <- MCTouched
    Masks <- MCMasks
    Pointees <- MCPointees
    Frames <- MCFrames
    MaxCalls = 2
    Platforms <- EightPorts
INVARIANTS PortIsActual
