\* Addresses stop changing and everything is written: the system may stop.
CONSTANTS
    Route = {a1, a2}
    NoRoutes = NoRoutes
    Failures = {"load", "event", "write", "crash"}
    MaxFailures = 2
    MaxChanges = 2
SPECIFICATION WatcherSpec
CHECK_DEADLOCK FALSE
INVARIANTS
    WatcherTypeOK
    SkippingIsSafe
PROPERTY RoutesConverge
