SPECIFICATION NullifierSpec
CONSTANTS
    Clients = {c}
    a = a
    b = b
    Zero = Zero
    Garbage = Garbage
    Nullifiers = {a, b, Zero}
    Snapshots <- MCSnapshots
    Seeds = {x, y, z}
    CollidingSeeds = {z}
    ProbeRows = {0, 1, 2, 4}
    RowRecords = 2
    BlockRows = 2
    Processes = {p1, p2}
    long = long
    ragged = ragged
    Versions = {long, ragged}
    NoVersion = NoVersion
    Length <- MCLength
    RecordLen = 2
    RowLen = 4
    MaxInode = 3
VIEW Referenced
SYMMETRY Symmetry
CONSTRAINT UntilOverlap
INVARIANTS
    VerifiedIsHeld
    QuietQueryIsRight
    PublishedWhole
    ServedFromOneSnapshot
    MetaDescribesServed
