SPECIFICATION FairSpec
CONSTANTS
    j1 = j1
    j2 = j2
    s1 = s1
    
    None = None
    LanePermits <- MCLanePermits
    Jobs = {j1, j2}
    Slots = {s1}
    SmallJobs = {}
    TailCap = 1
    TargetDepth = 2
    LlmBacklog = 1
    MaxJobs = 0
    Batch = FALSE
    TimeoutOn = FALSE
    AbortOn = TRUE
    SignalsOn = TRUE
    PanicsOn = FALSE
    Overanswers = FALSE
PROPERTIES
    StopReturns
    WedgeEndsWorker
CHECK_DEADLOCK FALSE
