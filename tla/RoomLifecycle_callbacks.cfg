\* Three tasks: two changes of leadership can be pending behind a match.
\* The process may end, so the system may stop.
CONSTANTS
    Self = self
    None = None
    Loop = {l1, l2, l3, l4, l5}
    Task = {t1, t2, t3}
    SlowLoads = FALSE
    MaxTerms = 2
    MaxFaults = 1
SPECIFICATION Spec
CHECK_DEADLOCK FALSE
INVARIANTS
    TypeOK
    RefusalIsJustified
    ErasesOnlyFinishedMatch
PROPERTIES
    LeaderPlays
    FallsSilent
