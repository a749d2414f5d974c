SPECIFICATION NativeSpec
CHECK_DEADLOCK FALSE
CONSTANTS
    Builders = {b1, b2}
    Packs <- MCPacks
    Dims <- MCDims
    Widths <- MCWidths
    ByteEntries = 16
    WordEntries = 8
    D = 8
    Q = 4096
    LiftPrimes <- MCPrimes
    LiftTasks <- MCLiftTasks
    PackP = 4
    NarrowMax = 8191
    Support = 1
    HalfBits = 6
    PackJobs <- MCJobs
    DigitBits = 2
    LaneBits = 7
    LowWordBits = 14
    ChunkRows = 8
    BandCols = 2
    ByteGroup = 4
    KernelTasks <- MCKernelTasks
    PackBits <- MCPackBits
    NarrowBits = 5
    LimbBits = 3
    PackByte = 8
    ReadBytes = 2
    GroupCols = 8
    MaxCols = 8
    MatrixTasks <- MCMatrixTasks
    Channels <- MCChannels
    Words <- MCWords
    Draws = {0, 1, 7, 15, 63}
    WordBits = 6
    Bounds = {1, 2, 3, 4, 5, 6, 7, 8, 11, 16, 21, 31, 32, 33, 47, 63}
    Ditherings <- MCDitherings
INVARIANTS
    CertifiedTransport
    WidthsFitModulus
    SetupIdBindsProfile
    LiftExact
    AggregateExact
    PendingSameAsPack
    NativeDecodes
    MappedIsBuilt
    DotExact
    MatrixExact
    HonestWithinRounding
    OneEncoding
    ExactlyUniform
    DitherUnbiased
