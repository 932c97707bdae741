SPECIFICATION MCSpec
CONSTANTS
    Pocs = {p1, p2}
    Threads = {t1, t2}
    Keys = {k1, k2}
    CloseKeys = {c1, c2}
    Refs = {r1}
    Verdicts = {"PASS"}
    NoVerdict = NoVerdict
    MaxRecords = 2
    MaxAttempts = 2
    RunPocs = {p1, p2}
    RunKeys = {k1, k2, k3}
    Results = {"PASS", "FAIL"}
    NoResult = NoResult
    MaxRuns = 3
    Publishers = {w1, w2}
    Order <- MCOrder
    Marker = ".complete"
    CleanupFails = TRUE
    Nobody = Nobody
INVARIANTS
    AttemptsAreCoherent
    ClosedOnCurrent
    PublishedStays
PROPERTIES
    ClosureIsFinal
    WorkEnds
CHECK_DEADLOCK FALSE
