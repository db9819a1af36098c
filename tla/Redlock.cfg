SPECIFICATION Spec
CONSTANTS
    Calls = {a, b, c}
    Instances = {i1, i2, i3}
    NoKey = NoKey
    timeout = 2
    margin = 0
    retry_count = 2
    MaxClock = 3
    MaxLost = 1
    MaxActive = 2
SYMMETRY Symmetry
INVARIANTS
    
    NothingLeft
    DetectorFindsCycles
