SPECIFICATION LiveSpec
CONSTANTS
    upload = upload
    uploadFollow = uploadFollow
    package = package
    url = url
    None = None
    Requests = {r1, r2}
    Queries = {q1}
    Keys = {upload, uploadFollow}
    Artifacts = {upload}
    ArtifactOf <- MCArtifactOf
    KindOf <- MCKindOf
    SmallArtifacts = {upload}
    Workers = 2
    Cores = 1
    LanesOn = FALSE
    TimeoutOn = TRUE
    IndexLossy = FALSE
    Conns = {c1, c2}
    MaxConnections = 1
    MaxErrors = 1
    Analyses = {a1, a2, a3}
    StraysLinger = TRUE
    MaxDeaths = 3
    MaxExits = 1
    Riders = {a1}
    Names <- MCName
    NoKey = None
    Lines = 1
    Jobs = {j1, j2, j3}
    NoReading = NoReading
    Ceilings = {4}
    HostFloorBytes = 0
    FixedEstBytes = 0
    FlatEstimateBytes = 1
    MaxArchiveBytes = 3
    ArchiveMultiplier = 2
    OnDiskSizes = {2}
    UsedReadings = {2}
    AvailableReadings = {NoReading}
INVARIANTS
    StatusNoGap
    IdleWorkerYields
PROPERTIES
    WaiterAdmittedWithoutRepoll
    FlightsEnd
    ShutdownIsOrderly
    SignalEndsServer
    IdleWorkerComesBack
CHECK_DEADLOCK FALSE
