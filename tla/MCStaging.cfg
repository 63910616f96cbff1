SPECIFICATION FairSpec
CONSTANTS
    honest = honest
    small = small
    unknown = unknown
    understated = understated
    outgrown = outgrown
    large = large
    Jobs = {understated, unknown, outgrown, large}
    Hint <- MCHint
    Body <- MCBody
    Limit = 3
    Threshold = 2
    SpoolBudget = 7
    GrowStep = 1
    MaxJobBytes = 5
    Downloads = 2
    TailCap = 2
    FailuresOn = TRUE
INVARIANTS
    BudgetsHold
PROPERTIES
    EveryJobDone
CHECK_DEADLOCK FALSE
