SPECIFICATION ReviewSpec
CONSTANTS
    None = None
    Pocs = {"poc"}
    Identities = {"email"}
    Contents = {1, 2}
    Threads = {t1, t2}
    MaxDrafts = 1
    MaxSources = 2
    Results = {"r1"}
    Keys = {k1, k2}
    MaxAttempts = 2
    Decisions = {"KEEP", "DISCARD"}
    Criteria = {1}
INVARIANTS
    ReviewIsCoherent
PROPERTIES
    PublishedOnCurrent
    ReservationEnds
CHECK_DEADLOCK FALSE
