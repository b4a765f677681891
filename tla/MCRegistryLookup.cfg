\* One operator: does a promotion always keep the champion it replaces?
SPECIFICATION Spec
CONSTANTS
    Operators = {o1}
    MaxVersion = 2
    CliPromotions = FALSE
PROPERTIES
    ReplacedChampionIsKept
