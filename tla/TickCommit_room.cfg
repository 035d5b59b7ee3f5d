\* Two matches, and terms that overlap. The terms and the log are bounded: a run may stop.
CONSTANTS
    Term = {t1, t2}
    None = None
    Duration = 2
    Faults = {"crash", "pause", "keepalive", "kafka", "deadline", "redis", "redisLoss"}
    MaxFaults = 2
    MaxLog = 5
    MaxMatches = 2
SPECIFICATION Spec
SYMMETRY Symmetry
CHECK_DEADLOCK FALSE
INVARIANTS
    RedisNeverAheadOfLog
    ResultsAreLogged
