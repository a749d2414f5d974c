SPECIFICATION CudaSpec
CONSTANTS
    Workers = {w1, w2}
    d1 = d1
    d2 = d2
    d3 = d3
    Databases = {d1, d2, d3}
    Shape <- MCShape
    None = None
    MaxPrepares = 2
    MaxCalls = 2
    LimbBits = 4
    Threads = 4
    TileRows = 8
    MaxItem = 2
    Stale = 9
    Calls <- MCCalls
INVARIANTS
    MatvecExact
    NoWriteAfterReturn
PROPERTIES
    ResultIsOwnProduct
    CallsReturn
