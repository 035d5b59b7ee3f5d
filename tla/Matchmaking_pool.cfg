\* Two workers, four requests (two lobbies of two), two rooms.
\* Everything can be placed or expired: the system may stop.
CONSTANTS
    Worker = {w1, w2}
    Request = {q1, q2, q3, q4}
    Room = {r1, r2}
    Nothing = Nothing
    q1 = q1
    q2 = q2
    q3 = q3
    q4 = q4
    Elo <- MCElo
    EloRange = 200
    EloExpand = 50
    MinLobby = 2
    MaxLobby = 3
    MaxRetries = 1
    MaxFailures = 1
    MaxRegistrations = 1
SPECIFICATION MatchmakingSpec
SYMMETRY Symmetry
CHECK_DEADLOCK FALSE
INVARIANTS
    MatchmakingTypeOK
    ClaimedOnce
    RequestInOnePlace
    DeficitIsBacklog
PROPERTIES
    NobodyLeftWhoCouldPlay
