\* Two workers, with and without the seeded row: statements in any order, two
\* deaths or failures, and threads that run promptly or not.
CONSTANTS
    Workers = {w1, w2}
    Enabled = TRUE
    Interval = 3
    PollCap = 2
    MaxTime = 12
    MaxLate = 7
    MaxCrashes = 2
    Never = Never
SPECIFICATION Spec
SYMMETRY Symmetry
INVARIANTS
    TypeOK
    LeaseSpacing
    SingleStateRow
    SweepsKeepComing
