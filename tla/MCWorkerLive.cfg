SPECIFICATION LiveSpec
CONSTANTS
    j1 = j1
    j2 = j2
    s1 = s1
    None = None
    LanePermits <- MCLanePermits
    Jobs = {j1, j2}
    Slots = {s1}
    SmallJobs = {}
    TailCap = 2
    TargetDepth = 1
    LlmBacklog = 1
    MaxJobs = 0
    Batch = FALSE
    TimeoutOn = FALSE
    AbortOn = FALSE
    SignalsOn = FALSE
    PanicsOn = FALSE
    Overanswers = FALSE
    sighted = sighted
    small = small
    h1 = h1
    h2 = h2
    c1 = c1
    c2 = c2
    big = big
    Rows = {sighted, small, big}
    Sighted = {sighted}
    JobSize <- MCJobSize
    Orders = {"fifo", "smallest", "largest"}
    MaxWait = 1
    ClaimDepth = 2
    Hands = {h1, h2}
    Tails = 2
    NoSlot = NoSlot
    Claims = {c1, c2}
    Nobody = Nobody
    Outcomes <- MCLiveOutcomes
    LeaseTime = 2
    RetryBudget = 0
    ModelQueue = 1
    MaxStray = 0
    Broken <- MCBroken
    MaxVersion = 1
    MaxStarts = 2
INVARIANTS
    RenewalIsWhole
PROPERTIES
    PipelineFinishes
    WorkerMovesOn
    NewsIsServed
CHECK_DEADLOCK FALSE
