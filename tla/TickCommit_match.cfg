\* One match, three terms one after the other. The terms and the log are bounded: a run may stop.
CONSTANTS
    Term = {t1, t2, t3}
    None = None
    Duration = 2
    Faults = {"crash", "kafka", "redis", "redisLoss"}
    MaxFaults = 4
    MaxLog = 7
    MaxMatches = 1
SPECIFICATION Spec
SYMMETRY Symmetry
CHECK_DEADLOCK FALSE
INVARIANTS
    TypeOK
    RedisNeverAheadOfLog
    NoGap
    NoRollback
