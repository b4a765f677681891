\* Two requests in flight while operators replace the challenger.
SPECIFICATION Spec
CONSTANTS
    r1 = r1
    r2 = r2
    MaxVersion = 2
    Eligible = {1, 2}
    Requests = {r1, r2}
    Cohort <- SplitCohort
    Measurements <- OnlyAgree
    Limits <- LargerLimits
    AutoPromote = TRUE
    Window = 3
    MaxMoves = 2
    MaxFaults = 1
INVARIANTS
    TypeOK
    StaleEvidenceIsBounded
    PromotionRestsOnEvidence
