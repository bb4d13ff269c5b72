\* Two calls of any kind under two RA profiles, and their scripts; a certificate to begin with.
CONSTANTS
    Calls = {k1, k2}
    CAs = {c1, c2}
    Templates = {t1, t2}
    Profiles <- BothProfiles
    PollInterval = 1
    Timeout = 2
SPECIFICATION FairSpec
INVARIANTS
    TypeOK
    OwnCertificate
    NoneMissed
    RevokedIsRevoked
    IdentifyIsRight
    ShellsAreClosed
PROPERTIES
    CallsAreAnswered
CHECK_DEADLOCK FALSE
