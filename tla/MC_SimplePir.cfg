SPECIFICATION PirSpec
CONSTANTS
    D = 8
    Q = 4001
    P = 4
    bits_per = 3
    ell = 4
    Psi = 1115
    Threads = 1
    PoolCap = 2
    LaneCap = 8
    Probes <- MCProbes
    MaskW <- MCMaskW
    MaskV <- MCMaskV
    Blocks <- MCBlocks
    Batches <- MCBatches
    Widths <- MCWidths
    Profiles <- MCProfiles
    Shapes <- MCShapes
    Q_PRIME_1 = 512
    Databases = {"full", "mixed"}
    Item <- MCItem
    Setups <- MCSetups
    Seeds = {1, 2}
    Draw <- MCDraw
    Targets = {0, 9}
    Backends = {"inspiring", "reinspiring"}
    INGEST_ROW_TILE = 6
    INGEST_COL_TILE = 5
    HINT_TILE = 5
INVARIANTS
    MaskPhaseKept
    PackedDecodes
    CompileExact
    BackendsAgree
    RowDecoded
