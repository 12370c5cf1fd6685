CONSTANTS
    Loads <- MCLoads
    Channel = 1
    Buffer = 1
    Sources = {a}
    Targets = {p, q}
    MaxFlows = 1
    MaxPorts = 2
    SocketRoom = 1
    InputRoom = 1
    ReplyRoom = 1
    MaxTasks = 2
    Keys = {k1, k2, k3}
    Cuts <- MCCuts
    Strange <- MCStrange
    Unit = 2
    RoomLeft = 8
    MaxRanges = 1
    MaxAssemblies = 2
    Lifetime = 1
    Nil = Nil
SPECIFICATION SpecAny
INVARIANTS NoTruncation StrayNeedsRace
PROPERTIES Retires OrphansEnd ExpiryLosesNothing EmitsExactlyWhole RejectsExactlyBroken
CHECK_DEADLOCK FALSE
