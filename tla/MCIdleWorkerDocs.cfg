SPECIFICATION IdleFairSpec
CONSTANTS
    Analyses = {r1, r2}
    StraysLinger = FALSE
    MaxDeaths = 0
    MaxExits = 1
INVARIANTS
    NeverBesideARequest
    BusyFromHandlerEntry
    NothingLeftBehind
