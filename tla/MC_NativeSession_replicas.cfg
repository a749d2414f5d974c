SPECIFICATION FairSpec
CONSTANTS
    Replicas = {r1, r2}
    Profiles = {one, two}
    TwoMask = {two}
    Seeds = {seed}
    Snapshots = {v1, v2}
    Rows = {t1}
    OutOfRange = oob
    Queries = {q1}
    Garbage = Garbage
PROPERTIES
    ServedRequestsDecode
