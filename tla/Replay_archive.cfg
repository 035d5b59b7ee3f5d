\* Two matches of three ticks in one room, a checkpoint at every second tick;
\* three faults.  The log is bounded and everything in it gets read: the system
\* may stop.
CONSTANTS
    Ticks = 3
    Interval = 2
    None = None
    MaxMatches = 2
    MaxEvents = 4
    MaxFaults = 3
SPECIFICATION Spec
CHECK_DEADLOCK FALSE
INVARIANTS
    OnlyCrashesLoseEvents
    CheckpointOnlyShortens
