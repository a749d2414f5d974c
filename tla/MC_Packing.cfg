SPECIFICATION Spec
CONSTANTS
    D = 4
    Q = 113
    P = 2
    bits_per = 1
    ell = 7
    Psi = 18
    Threads = 2
    PoolCap = 4
    LaneCap = 4
    Probes <- MCProbes
    MaskW <- MCMaskW
    MaskV <- MCMaskV
    Blocks <- MCBlocks
    Batches <- MCBatches
    Widths <- MCWidths
INVARIANTS
    SumsAreOwn
