\* Two consumers; a match is published again. All messages consumed, the system stops.
CONSTANTS
    m1 = m1
    m2 = m2
    Consumer = {c1, c2}
    None = None
    Player = {1, 2, 3}
    Registered = {1, 2}
    Match = {m1, m2}
    Roster <- MCRoster
    MaxAttempts = 2
    MaxTopic = 3
    MaxFaults = 3
SPECIFICATION Spec
CHECK_DEADLOCK FALSE
INVARIANTS
    TypeOK
    StatsMatchProcessed
    CommittedIsApplied
PROPERTY EveryResultCounts
