SPECIFICATION BreakerSpec
CONSTANTS
    Callers = {t1, t2, t3, t4, t5}
    failure_threshold = 2
CHECK_DEADLOCK FALSE
SYMMETRY Symmetry
INVARIANTS
    OpenIsEarned
    TripIsComplete
