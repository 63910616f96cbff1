SPECIFICATION IdleFairSpec
CONSTANTS
    Analyses = {r1, r2}
    StraysLinger = TRUE
    MaxDeaths = 1
    MaxExits = 0
PROPERTIES
    WorkerComesBack
