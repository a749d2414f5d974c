SPECIFICATION Spec
CONSTANTS
    Replicas = {r1}
    Profiles = {one, two}
    TwoMask = {two}
    Seeds = {seed}
    Snapshots = {v1, v2}
    Rows = {t1}
    OutOfRange = oob
    Queries = {q1, q2}
    Garbage = Garbage
INVARIANTS
    DecodedRowIsRequested
PROPERTIES
    RetrievalSpec
