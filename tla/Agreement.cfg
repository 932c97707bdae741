SPECIFICATION Spec
CONSTANTS
    Pocs = {p1}
    Keys = {k1, k2}
    Bodies = {b1}
    MaxAgreements = 1
    MaxRevisions = 2
    ReviewTTL = 1
    MaxInput = 2
    MaxTime = 1
INVARIANTS
    FrozenIsConfirmed
    DecisionOnWhatWasShown
    GrantHolds
    HistoryIsFaithful
PROPERTIES
    KeepsPromise
    FrozenIsForever
    GuardIsReleased
