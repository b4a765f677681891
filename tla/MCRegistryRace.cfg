\* Two operators at once; every promotion names the version of its gate.
SPECIFICATION Spec
CONSTANTS
    Operators = {o1, o2}
    MaxVersion = 2
    CliPromotions = FALSE
SYMMETRY OperatorSymmetry
INVARIANTS
    ServedVersionsPassedTheirGate
    RecoveryTargetHasServed
