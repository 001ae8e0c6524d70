SPECIFICATION FairSpec
CONSTANTS
    Threads = {t1, t2}
    Keys = {k1, k2}
    Window = 2
    MaxEntries = 1
    MaxBatch = 2
    MaxTime = 3
    MaxEvictions = 1
INVARIANTS TypeOK EveryKeyQueued WithinBound
PROPERTIES NoEarlyReport SuppressedForWindow FilterReturns
CHECK_DEADLOCK FALSE
