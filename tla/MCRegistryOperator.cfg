\* One operator, whose remote calls may fail at any step.
SPECIFICATION Spec
CONSTANTS
    Operators = {o1}
    MaxVersion = 3
    CliPromotions = TRUE
INVARIANTS
    TypeOK
    TagsAgreeWithAliases
    RollbackQuarantines
PROPERTIES
    RollbackPrecedesChampion
    RetryKeepsRecoveryTarget
    ImplementsReleaseLine
