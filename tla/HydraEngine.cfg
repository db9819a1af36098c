SPECIFICATION Spec
CONSTANTS
    Keys <- MCKeys
    Values <- MCValues
    Base = 3
    FlushSize = 3
    MaxPuts = 3
CHECK_DEADLOCK FALSE
INVARIANTS
    SizeExact
    LogKeepsWrites
    LsmView
