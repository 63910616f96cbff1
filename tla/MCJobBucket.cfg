SPECIFICATION ServiceSpec
CONSTANTS
    Slots = 1
    SlotLen = 1
    Buckets = 1
    Durations = {}
    Recorders = {}
    MaxLwNow = 1
    Enders = {t1, t2, t3}
    Memory = 4
    Width = 6
    MaxRecords = 2
INVARIANTS
    OnlyForgets
CHECK_DEADLOCK FALSE
