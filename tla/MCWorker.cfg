SPECIFICATION Spec
CONSTANTS
    j1 = j1
    j2 = j2
    s1 = s1
    s2 = s2
    None = None
    LanePermits <- MCLanePermits
    Jobs = {j1, j2}
    Slots = {s1, s2}
    SmallJobs = {}
    TailCap = 2
    TargetDepth = 1
    LlmBacklog = 1
    MaxJobs = 2
    Batch = FALSE
    TimeoutOn = TRUE
    AbortOn = TRUE
    SignalsOn = TRUE
    PanicsOn = TRUE
    Overanswers = TRUE
SYMMETRY Symmetry
INVARIANTS
    WaitsAreHonest
    DroppedJobsFallSilent
PROPERTIES
    StallSticky
CHECK_DEADLOCK FALSE
