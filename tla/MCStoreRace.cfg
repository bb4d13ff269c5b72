\* Two discoveries whose collections overlap and may hold a certificate twice, two
\* DELETEs and two sweeps, one crash.
CONSTANTS
    Discoveries = {d1, d2}
    Fingerprints = {1, 2}
    MaxCopies = 2
    Requests = {r1, r2}
    Sweepers = {w1, w2}
    BatchSize = 1
    Interval = 1
    MaxCrashes = 1
SPECIFICATION Spec
SYMMETRY Symmetry
INVARIANTS
    TypeOK
    IInv
    ForeignKeys
    UniqueRows
    IdsResolved
    SweepBounded
    NoDeadlock
    AllOrNothing
PROPERTIES
    HistoryLifecycle
    ImplementsDiscoveryStore
