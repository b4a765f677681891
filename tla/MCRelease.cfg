\* Three targets, registrations or images, with a crash at any file.
SPECIFICATION Spec
CONSTANTS
    DataSets <- MCDataSets
    Outcomes <- MCOutcomes
    Commits = {c1}
    MinWindow = 2
    MinGroup = 30
    ShortSeventy = {40}
    MaxJobs = 3
    FieldMetrics <- MCFieldMetrics
    MaxReady = 2
INVARIANTS
    RegisteredIsCoherent
    EvaluatedOnLaterRows
    DriftWindowsAreTheModels
    GatedModelIsNoIncident
    ProdIsTheTestedRelease
PROPERTIES
    ValidatedBundleIsOneExport
CHECK_DEADLOCK FALSE
