SPECIFICATION Spec
CONSTANTS
    Batches = {b1, b2}
    Count = 4
    Rows = {0, 1, 2}
    DbRows = 2
CHECK_DEADLOCK FALSE
SYMMETRY Symmetry
INVARIANTS
    OneBodyPerMatrix
    ExhaustedWhenAllTried
