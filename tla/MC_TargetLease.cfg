SPECIFICATION FairSpec
CONSTANTS
    Jobs = {j1, j2}
    Slots = 2
    MaxProcs = 2
CHECK_DEADLOCK FALSE
INVARIANTS
    ExclusiveTarget
PROPERTIES
    LeaseRecovers
    SentSignalArrives
