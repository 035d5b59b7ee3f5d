\* One player, four calls, a life of two seconds.  Everything ends: the system may stop.
CONSTANTS
    Player = {p}
    Request = {r1, r2, r3, r4}
    None = None
    Unclear = Unclear
    Lifetime = 2
    QueueTTL = 1
    MaxTime = 3
    MaxFaults = 1
SPECIFICATION Spec
SYMMETRY Symmetry
CHECK_DEADLOCK FALSE
INVARIANTS
    OneCallSettlesIt
    OnlyNewCallsRefuseJoins
