SPECIFICATION Spec
CONSTANTS
    upload = upload
    uploadFollow = uploadFollow
    package = package
    url = url
    None = None
    Requests = {r1, r2}
    Queries = {q1}
    Keys = {upload, package, url}
    Artifacts = {upload, package, url}
    ArtifactOf <- MCArtifactOf
    KindOf <- MCKindOf
    SmallArtifacts = {upload}
    Workers = 1
    Cores = 2
    LanesOn = TRUE
    TimeoutOn = TRUE
    IndexLossy = FALSE
INVARIANTS
    ActiveTasksExact
    CensusPopulated
    StatusNoGap
CHECK_DEADLOCK FALSE
