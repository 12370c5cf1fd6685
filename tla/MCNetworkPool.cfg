CONSTANTS
    Tasks = {t1, t2}
    Slots = 2
    MaxConns = 1
    MaxNet = 1
SPECIFICATION TaskSpec
INVARIANT ReconnectsAll
CHECK_DEADLOCK FALSE
