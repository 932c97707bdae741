SPECIFICATION MCSpec
CONSTANTS
    None = None
    Pocs = {"poc"}
    Identities = {"email"}
    Contents = {1}
    Threads = {t1}
    MaxDrafts = 1
    MaxSources = 1
    Results = {"r1"}
    Keys = {}
    MaxAttempts = 2
    Decisions = {"KEEP"}
    Criteria = {}
    Realms = {"SYNTHETIC", "LIVE", "DEMO"}
    Sessions = {1, 2}
    MaxOps = 2
    Consent = 2
    RunTime = 1
    ClaimInterval = 1
    MaxClaims = 2
    MaxTime = 2
    Missing = Missing
    Capabilities <- MCCapabilities
    Commands <- MCCommands
    Processes = {1, 2}
    Plan <- MCPlan
    MaxEvents = 4
    Nothing = Nothing
    DraftIds = {1, 2}
    Rules = {"r"}
    Fixtures = {"f"}
    DecisionKeys = {"k"}
    ExecKeys = {1, 2}
    MaxVersion = 2
    MaxEpoch = 7
    MaxRuns = 1
    MaxAuths = 2
    SpendLimit = 2
    d1 = d1
    WThreads = {w1, w2}
    Drafts = {d1}
    Support = "support"
    Performance = "performance"
    MaxWrites = 1
INVARIANTS
    AuthoringIsOwned
    DemoIsTrue
    ClosureIsGuarded
    LedgerIsFaithful
PROPERTIES
    NothingChangesLate
SYMMETRY MCSymmetry
CHECK_DEADLOCK FALSE
