\* Three requests on two names, with or without an authority to begin with.
CONSTANTS
    Requests = {r1, r2, r3}
    Existing = Existing
    Names = {n1, n2}
    Gaps <- MCGaps
    NoValue = NoValue
SPECIFICATION Spec
SYMMETRY Symmetry
CHECK_DEADLOCK FALSE
INVARIANTS
    TypeOK
    NamesAreTaken
    RowsAreVerified
    NoUpdateUndone
    DeletedStaysAway
