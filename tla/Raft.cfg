SPECIFICATION Spec
CONSTANTS
    N = 3
    Commands = {c1, c2, c3}
    MaxTerm = 4
SYMMETRY Symmetry
INVARIANTS
    ElectionSafety
    LogMatching
    CommittedAgree
PROPERTIES
    VotesStay
\* The exploration ends at MaxTerm, and loops may wait for each other.
CHECK_DEADLOCK FALSE
