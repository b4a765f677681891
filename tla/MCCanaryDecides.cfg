\* One customer, evidence that may pass or fail, a registry call that may raise.
SPECIFICATION FairSpec
CONSTANTS
    r1 = r1
    r2 = r2
    MaxVersion = 3
    Eligible = {1, 2}
    Requests = {r1}
    Cohort <- SplitCohort
    Measurements <- AgreeOrDisagree
    Limits <- SmallLimits
    AutoPromote = TRUE
    Window = 2
    MaxMoves = 2
    MaxFaults = 1
PROPERTIES
    StopIsFinal
    EveryCanaryEnds
    ReportSettles
