\* Two replicas; a player with two sockets and one with one.  Everyone may have
\* left and all messages be done with: the system may stop.
CONSTANTS
    Replica = {n1, n2}
    Player = {p1, p2}
    Socket = {s1, s2, s3}
    Message = {m1}
    p1 = p1
    p2 = p2
    s1 = s1
    s2 = s2
    s3 = s3
    m1 = m1
    n1 = n1
    None = None
    Owner <- MCOwner
    Names <- MCNames
    Gateway <- MCGateway
    MaxFaults = 2
SPECIFICATION Spec
CHECK_DEADLOCK FALSE
INVARIANTS
    SteadySocketHears
PROPERTIES
    LeftSocketsGo
    MessagesAreDone
