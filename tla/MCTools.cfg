\* Bursts of two requests and of one, at most three GPU replicas, and requests
\* scored on both sides of every boundary.
SPECIFICATION MCSpec
CONSTANTS
    Policy <- MCPolicy
    Levels <- MCLevels
    Sweeps <- MCSweeps
    Rounds = 2
    RequestBatch = 2
    MaxLate = 1
    Accelerator <- MCAccelerator
    Scaling <- MCScaling
    Evidence <- MCEvidence
    Families = {"tree_ensemble", "neural_network"}
    Metrics <- MCMetrics
    MaxReplicas = 3
    MaxEdits = 1
    Cases <- MCCases
INVARIANTS
    BurstsAreSynchronized
    PassMeansNoBadAnswerSeen
    BatchingIsOfItsLevel
    ObstaclesFailThePlan
    CapacityIsEvidenced
    SupportIsSafeguarded
    BatchAgreesWithOnline
    ShadowChangeIsExplained
PROPERTIES
    BurstsEnd
    NeverFurtherOut
    ScalesOnSoundEvidence
    PressureIsAnswered
CHECK_DEADLOCK FALSE
