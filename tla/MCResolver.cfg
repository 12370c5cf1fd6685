CONSTANTS
    n1 = n1
    n2 = n2
    n3 = n3
    Names <- MCNames
    Families <- MCFamilies
    Last <- MCLast
    Capacity = 3
    ServFail = ServFail
    NoReply = NoReply
    Savers = {"timer", "select"}
    Selectors = {"select"}
    LongNames = {n3}
    MaxLong = 1
    SavedProfiles <- MCSavedProfiles
    Requests = {a, b, c}
    Clients = {x, y}
    Servers = 2
    Responses <- MCResponses
    Cap = 2
    Limit = 3
    MaxTtl = 3
    Horizon = 3
    Epochs = 1
SPECIFICATION SpecAny
INVARIANTS
    SavedMappingsHonoured HitsAreAlive StaleNeedsFlight CacheWithinBounds
PROPERTIES EvictsOldest
SYMMETRY MCSymmetry
