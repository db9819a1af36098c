SPECIFICATION Spec
CONSTANTS
    Threads = {t1, t2, t3, t4}
    requests_per_sec = 1
    MaxClock = 4
SYMMETRY Symmetry
INVARIANTS
    RateBound
    WindowBound
