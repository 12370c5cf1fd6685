SPECIFICATION SpecAny
CONSTANTS
    Sessions = {s1, s2}
    IdSpace = 2
    QueueCap = 1
    MaxTransit = 1
    None = None
    Flows = {f, g, h}
    Nodes = {m, n}
    MaxMuxes = 3
INVARIANTS
    NoRouteOutlivesMux
    OnlyEndAfterCut
    FramesReachTheirFlow
    OneMuxPerNode
PROPERTIES
    FailureReachesEveryFlow
CHECK_DEADLOCK FALSE
