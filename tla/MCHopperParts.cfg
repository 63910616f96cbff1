SPECIFICATION PartsSpec
CONSTANTS
    r1 = r1
    r2 = r2
    Readers = {r1, r2}
    Addresses <- MCAddresses
    Ttl = 2
    ReadTimeout = 1
    RestTime = 1
    ReadRetries = 1
    MaxBytes = 1
    MaxNow = 3
    sighted = sighted
    small = small
    mid = mid
    big = big
    Rows = {sighted, small, mid, big}
    Sighted = {sighted}
    JobSize <- MCJobSize
    Orders = {"fifo", "smallest", "largest"}
    MaxWait = 2
    ClaimDepth = 3
    Hands = {r1, r2}
    Tails = 2
    NoSlot = NoSlot
    Claims = {r1, r2}
    Nobody = Nobody
    Outcomes <- MCOutcomes
    LeaseTime = 3
    RetryBudget = 1
    ModelQueue = 1
    MaxStray = 1
    Items = {r1, r2}
    Minutes = 2
    MaxWtNow = 3
    TailsPanic = TRUE
    Phases = 2
    Slow = 2
    Deadline = 5
    MaxGap = 4
    MaxRun = 9
    f1 = f1
    f2 = f2
    d1 = d1
    d2 = d2
    j1 = j1
    j2 = j2
    Files <- MCFiles
    Digests = {d1, d2}
    Gone = Gone
    SizeOf <- MCSizeOf
    NameOf <- MCNameOf
    Lookers = {j1, j2}
    WantOf <- MCWantOf
    PathOf <- MCPathOf
    MaxWrites = 1
    p0 = p0
    Procs = {r1, r2, p0}
    NoProc = NoProc
SYMMETRY MCSymmetry
INVARIANTS
    LeasesAreKept
    TimeIsCountedOnce
    IndexFindsTheSample
    TreesAreSafe
PROPERTIES
    ReadsAreHonest
    DispatchIsFair
CHECK_DEADLOCK FALSE
