\* The reload loop and a forced reload at once, with a request in progress.
SPECIFICATION Spec
CONSTANTS
    MaxVersion = 2
    Forcers = {f1}
    Requests = {r1}
    StrictStartup = FALSE
INVARIANTS
    ActiveModelIsVerified
    ReportedWithinRequest
