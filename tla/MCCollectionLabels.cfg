\* The CA name every certificate is labelled with.
CONSTANTS
    CAs = {c1, c2}
    Templates = {t1}
    PageSize = 2
    MaxRows = 2
    MaxPending = 0
    MaxChanges = 0
SPECIFICATION Spec
INVARIANTS
    LabelsTrue
CHECK_DEADLOCK FALSE
