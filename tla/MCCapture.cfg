SPECIFICATION MCSpec
CONSTANTS
    m1 = m1
    m2 = m2
    s1 = s1
    None = None
    Processes = {m1, m2}
    Sessions = {s1}
    PocOf <- MCPocOf
    Scripts <- MCScripts
    MaxSessions = 1
    MaxTime = 1
    Retention = 1
    MaxIngress = 4
    MaxCharacters = 1
    BindingTTL = 1
    NoLive = NoLive
    Captures = {1, 2}
    People = {1, 2, 3}
    Packets = {"packet"}
    Keys = {1, 2, 3, 4}
    SPackets = {"a", "b"}
    Contents = {"heard", "misheard"}
    NoValue = NoValue
    MaxCalls = 4
    MaxReconnects = 1
    MaxDuplicates = 1
    Requests = {"thread1", "thread2"}
    WebhookDeliveries = {1, 2, 3}
    PastAge = 1
    FutureSkew = 1
    MaxReplays = 2
    Horizon = 6
    Plans = {"plan", "another"}
    Raws = {"empty", "recorded", "rewritten"}
    Partial = {"empty"}
    Reviews = {"keep", "candidate"}
    Absent = Absent
    LastSeal = 2
INVARIANTS
    MeetingIsDurable
    CaptureIsConsented
    ProvenanceHolds
PROPERTIES
    TaintHolds
SYMMETRY MCSymmetry
CHECK_DEADLOCK FALSE
