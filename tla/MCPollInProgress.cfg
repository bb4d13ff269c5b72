\* The answer of a discovery in progress.
CONSTANTS
    Discoveries = {d1}
    Fingerprints = {1, 2}
    MaxCopies = 1
    Requests = {r1}
    Sweepers = {w1}
    BatchSize = 1
    Interval = 1
    MaxCrashes = 0
    Polls = {p1}
    MaxPage = 1
    ItemsPerPage = 2
SPECIFICATION PollSpec
INVARIANTS
    InProgressIsEmpty
