CONSTANTS
    Tasks = {t1, t2, t3}
    Slots = 2
    MaxConns = 1
    MaxNet = 2
SPECIFICATION LiveSpec
INVARIANTS StopReachesAll OldNetworkNeedsRaceOrPool
PROPERTIES StopDrains
CHECK_DEADLOCK FALSE
