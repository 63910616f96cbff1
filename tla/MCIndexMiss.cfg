SPECIFICATION IndexSpec
CONSTANTS
    f1 = f1
    f2 = f2
    d1 = d1
    d2 = d2
    j1 = j1
    j2 = j2
    Files <- MCFiles
    Digests = {d1, d2}
    Gone = Gone
    SizeOf <- MCSizeOf
    NameOf <- MCNameOf
    Lookers = {j1, j2}
    WantOf <- MCWantOf
    PathOf <- MCPathOf
    MaxWrites = 2
INVARIANTS
    MissIsDownloaded
CHECK_DEADLOCK FALSE
