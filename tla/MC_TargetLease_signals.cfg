SPECIFICATION Spec
CONSTANTS
    Jobs = {j1}
    Slots = 1
    MaxProcs = 1
CHECK_DEADLOCK FALSE
INVARIANTS
    SignalsForwarded
