\* Three replicas start, and are killed or failed by the database up to twice; up to three legacy rows.
CONSTANTS
    Replicas = {r1, r2, r3}
    Discoveries = {d1, d2}
    Links = {l1, l2, l3}
    Contents = {c1, c2}
    MaxCrashes = 2
    NoValue = NoValue
SPECIFICATION Spec
SYMMETRY Symmetry
CHECK_DEADLOCK FALSE
INVARIANTS
    TypeOK
    OneSucceeds
    NothingLost
