SPECIFICATION MCSpec
CONSTANTS
    Coordinators = {c1, c2, c3}
    Browsers = {c1}
    Keys = {k1}
    Inputs = {i1, i2}
    Verdicts = {"PASS", "FAIL"}
    MaxOperations = 2
    None = None
    NoClip = NoClip
    MaxTime = 2
    EgressThreads = {1, 2}
    Acks = {1}
    Bodies = {"approved", "other"}
    Approved = "approved"
    Ttl = 1
    MaxAttempts = 2
    SpeechThreads = {1, 2}
    ConsentKeys = {1}
    Clips = {"x", "y"}
    MaxSessions = 2
    ConsentTtl = 2
    PermitTtl = 1
    MaxSpoken = 1
INVARIANTS
    PaidOnce
    CompletedIsBacked
    OneAnswer
    OneFlight
PROPERTIES
    PermitsAreSpentOnce
    CallsEnd
CHECK_DEADLOCK FALSE
