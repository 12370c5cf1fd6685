CONSTANTS
    a = a  b = b  r = r
    MaxId = 3
    MaxHandles = 1
    QueueLen = 1
    MaxCalls = 1
    HostThreads = {a, b}
    RuntimeThreads = {r}
    Nobody = Nobody
    QueueSize = 2
    MaxPackets = 3
    None = None
SPECIFICATION SpecEither
PROPERTIES KeepsContract CallsReturn ReadsFollowHeader EverythingDrained
CHECK_DEADLOCK FALSE
