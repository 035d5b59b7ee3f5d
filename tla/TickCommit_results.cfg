\* A leader dies after it has published the result.
CONSTANTS
    Term = {t1, t2}
    None = None
    Duration = 2
    Faults = {"crash"}
    MaxFaults = 1
    MaxLog = 4
    MaxMatches = 1
SPECIFICATION Spec
SYMMETRY Symmetry
CHECK_DEADLOCK FALSE
INVARIANT OneResultPerMatch
