\* One operator and one serving process with its reload loop.
SPECIFICATION PlatformFairSpec
CONSTANTS
    Operators = {o1}
    MaxVersion = 2
    CliPromotions = TRUE
    Forcers = {}
    Requests = {}
    StrictStartup = FALSE
    MaxDisruptions = 2
INVARIANTS
    OnlyReleasedVersionsServe
PROPERTIES
    ImplementsRuntime
    ServesWhatWasReleased
