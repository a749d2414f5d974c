SPECIFICATION FairSpec
CONSTANTS
    Limb = 8
    VectorRows = 2
    Threads = 2
    BandItems = 10
    Leftover = 5
    Calls <- MCCalls
INVARIANTS
    NoOverflow
    ProductExact
PROPERTIES
    Terminates
