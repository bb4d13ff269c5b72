\* A crash at any point or none, a lease of two ticks, a batch size of 0 (taken as 1).
CONSTANTS
    Discoveries = {d1, d2}
    Fingerprints = {1, 2}
    MaxCopies = 1
    Requests = {r1}
    Sweepers = {w1}
    BatchSize = 0
    Interval = 2
    MaxCrashes = 1
SPECIFICATION FairSpec
PROPERTIES
    DiscoveryEnds
    OrphansGoAway
