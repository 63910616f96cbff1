SPECIFICATION PartsSpec
CONSTANTS
    r1 = r1
    r2 = r2
    s1 = s1
    s2 = s2
    p1 = p1
    p2 = p2
    p3 = p3
    u1 = u1
    bad = bad
    NoName = NoName
    Shas = {s1, s2}
    Versioned = {p1, p3}
    Invalid = {bad}
    Questions <- MCQuestions
    Levels = {10}
    Budget = 25
    Ceiling = 3000
    MaxKeys = 3
    Concurrency = 2
    Uploads = {r1, r2}
    Asks <- MCAsks
    MaxRepairs = 1
    Callers = {c1}
    AddrBits = 3
    Networks <- MCNetworks
    TokenDelay = 1
    MaxEdNow = 2
    Admittees = {r1, r2}
    MaxMmNow = 3
    MinWindow = 2
    MaxCbNow = 6
    Slots = 2
    SlotLen = 2
    Buckets = 4
    Durations = {3, 9}
    Recorders = {r1, r2}
    MaxLwNow = 6
    Enders = {r1, r2}
    Memory = 4
    Width = 6
    MaxRecords = 5
    Riders = {r1, r2}
    Names <- MCNames
    NoKey = NoName
    Lines = 1
    Concluded <- MCConcluded
    BudgetsRead = {1, 10, 25, 500, 3000}
    Placed <- MCPlaced
    Jobs = {j1, j2, j3}
    NoReading = NoReading
    Ceilings = {0, 2, 4}
    HostFloorBytes = 2
    FixedEstBytes = 0
    FlatEstimateBytes = 1
    MaxArchiveBytes = 3
    ArchiveMultiplier = 2
    OnDiskSizes <- MCOnDiskSizes
    UsedReadings <- MCUsedReadings
    AvailableReadings = {3}
SYMMETRY MCSymmetry
INVARIANTS
    EveryAnswerNamesFollow
    ReclaimsSerially
CHECK_DEADLOCK FALSE
