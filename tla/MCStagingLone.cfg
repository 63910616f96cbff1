SPECIFICATION Spec
CONSTANTS
    honest = honest
    small = small
    unknown = unknown
    understated = understated
    outgrown = outgrown
    large = large
    Jobs = {outgrown}
    Hint <- MCHint
    Body <- MCBody
    Limit = 3
    Threshold = 2
    SpoolBudget = 3
    GrowStep = 1
    MaxJobBytes = 5
    Downloads = 2
    TailCap = 2
    FailuresOn = FALSE
PROPERTIES
    LonePayloadFits
CHECK_DEADLOCK FALSE
