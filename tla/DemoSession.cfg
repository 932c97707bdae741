SPECIFICATION DemoSpec
CONSTANTS
    Nothing = Nothing
    DraftIds = {1, 2}
    Rules = {"r"}
    Fixtures = {"f"}
    DecisionKeys = {"k"}
    ExecKeys = {"x"}
    MaxVersion = 2
    MaxEpoch = 8
    MaxRuns = 1
    MaxAuths = 1
    SpendLimit = 1
PROPERTIES
    RetryChangesNothing
CHECK_DEADLOCK FALSE
