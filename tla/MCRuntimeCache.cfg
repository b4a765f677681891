\* The reload loop alone, through a crash while it publishes.
SPECIFICATION Spec
CONSTANTS
    MaxVersion = 2
    Forcers = {}
    Requests = {}
    StrictStartup = FALSE
INVARIANTS
    LastKnownGoodSurvives
