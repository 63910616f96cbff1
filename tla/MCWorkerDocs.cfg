SPECIFICATION Spec
CONSTANTS
    j1 = j1
    s1 = s1
    None = None
    LanePermits <- MCLanePermits
    Jobs = {j1}
    Slots = {s1}
    SmallJobs = {}
    TailCap = 2
    TargetDepth = 2
    LlmBacklog = 1
    MaxJobs = 0
    Batch = FALSE
    TimeoutOn = FALSE
    AbortOn = TRUE
    SignalsOn = FALSE
    PanicsOn = TRUE
    Overanswers = FALSE
PROPERTIES
    ProgressingMeansProgress
INVARIANTS
    FinishedWasAsked
CHECK_DEADLOCK FALSE
