\* Two sessions, of one player or of two, in two matches. The last match does not end.
CONSTANTS
    p1 = p1
    p2 = p2
    s1 = s1
    s2 = s2
    s3 = s3
    None = None
    Player = {p1, p2}
    Session = {s1, s2, s3}
    Owner <- MCOwner
    MaxMatches = 2
    MaxInputs = 1
    MaxSessions = 2
    MaxFaults = 1
SPECIFICATION Spec
INVARIANTS
    TypeOK
    HoldIsPublished
    InputsCountOnce
PROPERTIES
    DeadSocketsLeave
