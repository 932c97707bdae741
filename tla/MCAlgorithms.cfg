SPECIFICATION MCSpec
CONSTANTS
    NoVerdict = NoVerdict
    Scale = 10
    ZNum = 38
    ZDen = 10
INVARIANTS
    VerdictsAreEarned
    ProportionVerdicts
    CampaignVerdicts
    DashboardIsTrue
    RequestsAreGuarded
    BundlesAreJudgedOnce
    ReportsAreEarned
CHECK_DEADLOCK FALSE
