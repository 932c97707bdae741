SPECIFICATION ExecSpec
CONSTANTS
    RunPocs = {p1}
    RunKeys = {k1, k2}
    Results = {"PASS"}
    NoResult = NoResult
    MaxRuns = 2
INVARIANT CancelledHasNoVerdict
CHECK_DEADLOCK FALSE
