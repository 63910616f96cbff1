SPECIFICATION Spec
CONSTANTS
    upload = upload
    uploadFollow = uploadFollow
    package = package
    url = url
    None = None
    Requests = {r1, r2, r3}
    Queries = {}
    Keys = {upload, uploadFollow, package}
    Artifacts = {upload, package}
    ArtifactOf <- MCArtifactOf
    KindOf <- MCKindOf
    SmallArtifacts = {upload}
    Workers = 2
    Cores = 2
    LanesOn = TRUE
    TimeoutOn = TRUE
    IndexLossy = TRUE
SYMMETRY Symmetry
INVARIANTS
    JoinableWhileRunning
    AttachedAreServed
    CapacityIsExact
CHECK_DEADLOCK FALSE
