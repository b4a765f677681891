\* A challenger that raises on every request.
SPECIFICATION Spec
CONSTANTS
    r1 = r1
    r2 = r2
    MaxVersion = 2
    Eligible = {1, 2}
    Requests = {r1}
    Cohort <- SplitCohort
    Measurements <- OnlyRaises
    Limits <- SmallLimits
    AutoPromote = TRUE
    Window = 2
    MaxMoves = 0
    MaxFaults = 0
PROPERTIES
    ErrorCeilingStops
