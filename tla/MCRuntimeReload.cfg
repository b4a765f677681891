\* The reload loop and forced reloads, no requests: strict startup.
SPECIFICATION FairSpec
CONSTANTS
    MaxVersion = 2
    Forcers = {f1}
    Requests = {}
    StrictStartup = TRUE
INVARIANTS
    TypeOK
    StrictNeverLocal
PROPERTIES
    FollowsChampion
