SPECIFICATION Spec
CONSTANTS
    Jobs = {j1}
    TickDuration = 1
    WheelSizes <- MCWheelSizes
    MaxLag = 1
    MaxCopies = 2
    Times <- MCTimes
    MaxTick = 30
\* The exploration ends at MaxTick.
CHECK_DEADLOCK FALSE
INVARIANTS
    NeverEarly
    NeverStuck
    PositionsSound
