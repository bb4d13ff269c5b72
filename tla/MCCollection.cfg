\* Up to two rows per CA in pages of two, one pending; one row issued, approved or deleted meanwhile.
CONSTANTS
    CAs = {c1, c2}
    Templates = {t1, t2}
    PageSize = 2
    MaxRows = 3
    MaxPending = 1
    MaxChanges = 1
SPECIFICATION FairSpec
INVARIANTS
    TypeOK
    NoneLost
    NoneTwice
PROPERTIES
    CollectionEnds
CHECK_DEADLOCK FALSE
