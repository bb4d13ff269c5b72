\* One call, to a CA whose administrator has to approve requests.
CONSTANTS
    Calls = {k1}
    CAs = {c1}
    Templates = {t1}
    Profiles <- AllProfiles
    PollInterval = 1
    Timeout = 3
SPECIFICATION Spec
INVARIANTS
    WaitsForTimeout
CHECK_DEADLOCK FALSE
