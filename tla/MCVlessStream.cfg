SPECIFICATION LiveSpec
CONSTANTS
    Links <- MCLinks
    Buffer = 1
    Budget = 3
INVARIANTS
    NothingLost
    WholeStreamRead
    UploadIntact
PROPERTIES
    EverythingRead
    FlushesWhileReading
CHECK_DEADLOCK FALSE
