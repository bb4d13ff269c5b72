\* Two polls, for any pages, of a discovery that is deleted and swept meanwhile.
CONSTANTS
    Discoveries = {d1}
    Fingerprints = {1, 2}
    MaxCopies = 2
    Requests = {r1}
    Sweepers = {w1}
    BatchSize = 1
    Interval = 1
    MaxCrashes = 0
    Polls = {p1, p2}
    MaxPage = 2
    ItemsPerPage = 1
SPECIFICATION PollSpec
SYMMETRY PollSymmetry
INVARIANTS
    CompletedIsWhole
    PagesPartition
