CONSTANTS
    a = a  b = b  c = c
    Callers = {a, b, c}
    MaxPhysical = 3
    Options <- MCOptions
    Nobody = Nobody
SPECIFICATION LiveSpec
INVARIANTS ActiveIsExact WithinLimits
PROPERTY RetriesEnd
CHECK_DEADLOCK FALSE
