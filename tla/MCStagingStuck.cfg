SPECIFICATION FairSpec
CONSTANTS
    honest = honest
    small = small
    unknown = unknown
    understated = understated
    outgrown = outgrown
    large = large
    Jobs = {honest, small, unknown}
    Hint <- MCHint
    Body <- MCBody
    Limit = 3
    Threshold = 2
    SpoolBudget = 7
    GrowStep = 1
    MaxJobBytes = 5
    Downloads = 2
    TailCap = 1
    FailuresOn = TRUE
PROPERTIES
    NoDownloadStuck
CHECK_DEADLOCK FALSE
