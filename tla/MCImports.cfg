SPECIFICATION MCSpec
CONSTANTS
    perfPoc = perfPoc
    POCs = {perfPoc}
    Proposals = {1, 2, 3, 4}
    POCOf <- MCPOCOf
    Shape <- MCShape
    Targets = {1}
    LKeys = {1, 2}
    MaxRevisions = 2
    MaxAgreements = 1
    Lifetime = 1
    LHorizon = 2
    Warmups = 1
    Requests = 2
    Concurrency = 2
    Timeout = 1
    MaxClock = 2
    Criterion <- MCCriterion
    None = None
    Operators = {p1, p2}
    MaxOps = 2
    MaxAttempts = 2
    MaxLosses = 1
    BundlePaths = {"bundle.json", "records"}
    ExtraPaths = {"stray"}
    Contents = {"a", "b"}
    MaxFiles = 3
    MaxChanges = 3
    ImportPocs = {"p1"}
    ImportKeys = {"k1", "k2"}
    ImportCallers = {"c1", "c2"}
    Labels = {"l1", "l2"}
    RunIds = {"r1"}
    Digests = {"d1", "d2"}
    PackReaders = {"v1"}
    MaxImports = 2
    MaxRootSteps = 1
    MaxPackSteps = 2
    WPocs = {"w1", "w3"}
    WKeys = {"k1", "k2", "k3"}
    Workers = {"worker1", "worker2"}
    StripeOf <- MCStripeOf
    Authorities = {"a1", "a2"}
    ReportBytes <- MCReportBytes
    MaxLatest = 2
    MaxOperations = 2
    MaxPending = 2
    MaxReport = 2
    MaxTotal = 3
    MaxDraftSteps = 1
INVARIANTS
    MeasuredAsAgreed
    ImportIsWhole
    ReportsHold
CHECK_DEADLOCK FALSE
