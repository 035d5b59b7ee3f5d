---------------------------- MODULE Matchmaking ----------------------------
(***************************************************************************)
(* The matchmaking workers (services/matchmaking/app/main.py) and the room *)
(* pool they share with the game rooms in etcd (room_manager.py and        *)
(* services/game-room/app/room_pool.py), from the request a worker takes   *)
(* from RabbitMQ to the notification that names a room.  Rooms are tried   *)
(* in any order, where etcd lists them by key; what the StatefulSet makes  *)
(* of the replicas a worker asks for is outside.  MatchmakingProofs        *)
(* extends this module and Notification together, hence the longer names.  *)
(***************************************************************************)
EXTENDS Naturals, Sequences, FiniteSetsExt, SequencesExt

CONSTANTS Worker, Request, Room, Nothing,
          Elo,                \* the rating of the player of a request
          EloRange, EloExpand,\* elo_range_initial and elo_range_expand_per_tick
          MinLobby, MaxLobby, \* lobby_size_min and lobby_size_max
          MaxRetries,         \* _MAX_SCALE_RETRIES
          MaxFailures, MaxRegistrations \* bounds

ASSUME NothingAssumption ==
    /\ Nothing \notin Room
    /\ \A l \in [members : SUBSET Request, retry : 0 .. MaxRetries] : l # Nothing
ASSUME EloAssumption == Elo \in [Request -> Nat] /\ {EloRange, EloExpand} \subseteq Nat
ASSUME LobbyAssumption == 2 <= MinLobby /\ MinLobby <= MaxLobby
ASSUME SizeAssumption == {MinLobby, MaxLobby, MaxRetries, MaxFailures, MaxRegistrations} \subseteq Nat

VARIABLES
    queue,    \* matchmaking.requests: the messages not delivered
    unacked,  \* the messages a worker's consumer is handling
    pending,  \* Matcher.pending
    backlog,  \* _pending_lobbies
    stage,    \* where matchmaker_loop is: "sleep", "retry" or "match"
    todo,     \* the lobbies its current loop has not come to
    still,    \* still_pending
    claim,    \* the lobby it is placing, the rooms listed, the room claimed
    rooms,    \* /rooms/available/{id}
    handed,   \* how often a room was claimed since it was registered
    found,    \* the match.found notifications
    deficit,  \* _scale_up_deficit
    ended,    \* requests that were refused or expired, or whose lobby did
    lost,     \* requests that a failing call left nowhere
    doubled,  \* requests that a failing call may have left in two places
    registrations, failures

consumer == <<queue, unacked>>
loop == <<backlog, stage, todo, still, claim, deficit>>
pool == <<rooms, handed, registrations>>
matchVars == <<queue, unacked, pending, backlog, stage, todo, still, claim, rooms, handed,
               deficit, found, ended, lost, doubled, registrations, failures>>

Lobby == [members : SUBSET Request, retry : 0 .. MaxRetries]
Claim == [lobby : Lobby \cup {Nothing}, listed : SUBSET Room, room : Room \cup {Nothing}]
NoClaim == [lobby |-> Nothing, listed |-> {}, room |-> Nothing]
Idle(w) == claim[w] = NoClaim

MatchmakingTypeOK ==
    /\ queue \subseteq Request
    /\ unacked \in [Worker -> SUBSET Request]
    /\ pending \in [Worker -> SUBSET Request]
    /\ backlog \in [Worker -> SUBSET Lobby]
    /\ stage \in [Worker -> {"sleep", "retry", "match"}]
    /\ todo \in [Worker -> SUBSET Lobby]
    /\ still \in [Worker -> SUBSET Lobby]
    /\ claim \in [Worker -> Claim]
    /\ \A w \in Worker : ~Idle(w) => claim[w].lobby \in Lobby
    /\ deficit \in [Worker -> Nat]
    /\ rooms \in [Room -> {"absent", "available", "in-use"}]
    /\ handed \in [Room -> Nat]
    /\ found \subseteq [members : SUBSET Request, room : Room, by : Worker]
    /\ ended \subseteq Request /\ lost \subseteq Request /\ doubled \subseteq Request
    /\ registrations \in 0 .. MaxRegistrations
    /\ failures \in 0 .. MaxFailures

MatchmakingInit ==
    /\ queue = Request
    /\ unacked = [w \in Worker |-> {}]
    /\ pending = [w \in Worker |-> {}]
    /\ backlog = [w \in Worker |-> {}]
    /\ stage = [w \in Worker |-> "sleep"]
    /\ todo = [w \in Worker |-> {}]
    /\ still = [w \in Worker |-> {}]
    /\ claim = [w \in Worker |-> NoClaim]
    /\ deficit = [w \in Worker |-> 0]
    /\ rooms = [r \in Room |-> "available"]
    /\ handed = [r \in Room |-> 0]
    /\ found = {} /\ ended = {} /\ lost = {} /\ doubled = {}
    /\ registrations = 0 /\ failures = 0

-----------------------------------------------------------------------------
Gets(f, w, x) == [f EXCEPT ![w] = @ \cup x]
Loses(f, w, x) == [f EXCEPT ![w] = @ \ x]

\* A call fails, which loses some requests and doubles others.
Failure(losing, doubling) == /\ failures < MaxFailures /\ failures' = failures + 1
                             /\ lost' = lost \cup losing
                             /\ doubled' = doubled \cup doubling
NoFailure == UNCHANGED <<failures, lost, doubled>>

Members(lobbies) == UNION {l.members : l \in lobbies}

\* While the backlog is being retried, todo and still are what is left of it.
LobbiesOf(w) == todo[w] \cup still[w] \cup (IF stage[w] = "retry" THEN {} ELSE backlog[w])
                  \cup (IF Idle(w) THEN {} ELSE {claim[w].lobby})

-----------------------------------------------------------------------------
(* consume *)

Deliver(w, q) == /\ q \in queue
                 /\ queue' = queue \ {q}
                 /\ unacked' = Gets(unacked, w, {q})
                 /\ UNCHANGED <<pending, loop, pool, found, ended>>
                 /\ NoFailure

\* The auth service refuses the token, or does not answer: the request is
\* acknowledged all the same, and nobody is told.
Refuse(w, q) == /\ q \in unacked[w]
                /\ unacked' = Loses(unacked, w, {q})
                /\ ended' = ended \cup {q}
                /\ UNCHANGED <<queue, pending, loop, pool, found>>
                /\ NoFailure

\* The token is valid: the request goes to the matcher, and is acknowledged.
AddRequest(w, q) == /\ q \in unacked[w]
                    /\ unacked' = Loses(unacked, w, {q})
                    /\ pending' = Gets(pending, w, {q})
                    /\ UNCHANGED <<queue, loop, pool, found, ended>>
                    /\ NoFailure

\* The connection goes down: what was not acknowledged is delivered again, although
\* it may have come to the matcher.
Redeliver(w, q) == /\ q \in unacked[w]
                   /\ queue' = queue \cup {q}
                   /\ unacked' = Loses(unacked, w, {q})
                   /\ \/ UNCHANGED pending /\ Failure({}, {})
                      \/ pending' = Gets(pending, w, {q}) /\ Failure({}, {q})
                   /\ UNCHANGED <<loop, pool, found, ended>>

-----------------------------------------------------------------------------
(* matchmaker_loop *)

\* Old requests expire, which their players are told, or are not.
BeginTick(w, old) == /\ stage[w] = "sleep"
                     /\ old \subseteq pending[w]
                     /\ pending' = Loses(pending, w, old)
                     /\ ended' = ended \cup old
                     /\ stage' = [stage EXCEPT ![w] = "retry"]
                     /\ todo' = [todo EXCEPT ![w] = backlog[w]]
                     /\ still' = [still EXCEPT ![w] = {}]
                     /\ UNCHANGED <<consumer, backlog, claim, deficit, pool, found>>
                     /\ NoFailure

\* claim_available_room, for the next lobby: get_prefix.
ListRooms(w, l) ==
    /\ l \in todo[w] /\ Idle(w)
    /\ todo' = Loses(todo, w, {l})
    /\ claim' = [claim EXCEPT ![w] = [lobby |-> l, room |-> Nothing,
                                      listed |-> {r \in Room : rooms[r] = "available"}]]
    /\ UNCHANGED <<consumer, pending, backlog, stage, still, deficit, pool, found, ended>>
    /\ NoFailure

\* Mutant: the room is taken without comparing.
MutantNoCompare(r) == TRUE

\* The condition of the transaction.
StillAvailable(r) == rooms[r] = "available"

TryRoom(w, r) ==
    /\ r \in claim[w].listed /\ claim[w].room = Nothing
    /\ \/ /\ StillAvailable(r)
          /\ rooms' = [rooms EXCEPT ![r] = "in-use"]
          /\ handed' = [handed EXCEPT ![r] = @ + 1]
          /\ claim' = [claim EXCEPT ![w].room = r]
       \/ /\ ~StillAvailable(r)
          /\ claim' = [claim EXCEPT ![w].listed = @ \ {r}]
          /\ UNCHANGED <<rooms, handed>>
    /\ UNCHANGED <<consumer, pending, backlog, stage, todo, still, deficit, registrations, found, ended>>
    /\ NoFailure

\* The transaction raises, whether etcd has carried it out or not: the next room.
ClaimRaises(w, r) ==
    /\ r \in claim[w].listed /\ claim[w].room = Nothing
    /\ claim' = [claim EXCEPT ![w].listed = @ \ {r}]
    /\ \/ /\ StillAvailable(r)
          /\ rooms' = [rooms EXCEPT ![r] = "in-use"]
          /\ handed' = [handed EXCEPT ![r] = @ + 1]
       \/ UNCHANGED <<rooms, handed>>
    /\ Failure({}, {})
    /\ UNCHANGED <<consumer, pending, backlog, stage, todo, still, deficit, registrations, found, ended>>

\* Mutant: a retry counts twice.
MutantRetryMore(l) == [l EXCEPT !.retry = @ + 2]

Later(l) == [l EXCEPT !.retry = @ + 1]

Less(n) == IF n = 0 THEN 0 ELSE n - 1

\* No room for a new lobby: it waits for the next tick, and the game rooms are scaled up.
NoRoomYet(w) ==
    /\ stage[w] = "match" /\ ~Idle(w) /\ claim[w].listed = {}
    /\ claim' = [claim EXCEPT ![w] = NoClaim]
    /\ backlog' = Gets(backlog, w, {claim[w].lobby})
    /\ deficit' = [deficit EXCEPT ![w] = @ + 1]
    /\ UNCHANGED <<consumer, pending, stage, todo, still, pool, found, ended>>
    /\ NoFailure

\* No room for a lobby that waits: it waits on, as often as it may.
StillNoRoom(w) ==
    /\ stage[w] = "retry" /\ ~Idle(w) /\ claim[w].listed = {}
    /\ claim' = [claim EXCEPT ![w] = NoClaim]
    /\ LET l == claim[w].lobby
       IN  \/ /\ l.retry < MaxRetries
              /\ still' = Gets(still, w, {Later(l)})
              /\ UNCHANGED <<deficit, ended>>
           \/ /\ l.retry = MaxRetries
              /\ ended' = ended \cup l.members
              /\ deficit' = [deficit EXCEPT ![w] = Less(@)]
              /\ UNCHANGED still
    /\ UNCHANGED <<consumer, pending, backlog, stage, todo, pool, found>>
    /\ NoFailure

\* Mutant: a lobby that got its room after a wait is still counted.
MutantKeepDeficit(w) == deficit[w]

\* A lobby that waited waits no longer, announced or not.
DeficitAfter(w) == IF stage[w] = "retry" THEN Less(deficit[w]) ELSE deficit[w]

Announcement(w) == [members |-> claim[w].lobby.members, room |-> claim[w].room, by |-> w]

\* _assign_lobby: the room is announced, or, that failing, given back, although
\* the broker may have the announcement.
Notify(w) ==
    /\ claim[w].room # Nothing
    /\ claim' = [claim EXCEPT ![w] = NoClaim]
    /\ deficit' = [deficit EXCEPT ![w] = DeficitAfter(w)]
    /\ \/ /\ found' = found \cup {Announcement(w)}
          /\ UNCHANGED <<rooms, handed>>
          /\ NoFailure
       \/ /\ \/ UNCHANGED found /\ Failure(claim[w].lobby.members, {})
             \/ found' = found \cup {Announcement(w)} /\ Failure({}, {})
          /\ \/ /\ rooms' = [rooms EXCEPT ![claim[w].room] = "available"]
                /\ handed' = [handed EXCEPT ![claim[w].room] = 0]
             \/ UNCHANGED <<rooms, handed>>
    /\ UNCHANGED <<consumer, pending, backlog, stage, todo, still, registrations, ended>>

-----------------------------------------------------------------------------
(* match_tick: in the order of Elo, each request that is in no lobby yet    *)
(* takes up to MaxLobby - 1 of those after it that are in none and close    *)
(* enough; a lobby that is too small is dissolved.                          *)

Gap(q, r) == IF Elo[q] > Elo[r] THEN Elo[q] - Elo[r] ELSE Elo[r] - Elo[q]

\* How many match_timeout_seconds a request has waited: it expires after two.
Windows == 0 .. 2

Close(q, r, waited) == Gap(q, r) <= EloRange + waited[q] * EloExpand

\* The first n of a set of positions.
First(candidates, n) == {j \in candidates : Cardinality({k \in candidates : k < j}) < n}

\* The lobby of the request at position i, as positions.
LobbyOf(order, waited, used, i) ==
    {i} \cup First({j \in i + 1 .. Len(order) : j \notin used /\ Close(order[i], order[j], waited)},
                  MaxLobby - 1)

\* Mutant: off by one.
MutantLarger(lobby) == Cardinality(lobby) > MinLobby

LargeEnough(lobby) == Cardinality(lobby) >= MinLobby

\* What the request at position i adds to the lobbies of those before it.
Anchor(order, waited, lobbies, i) ==
    LET used == UNION lobbies
        lobby == LobbyOf(order, waited, used, i)
    IN  IF i \notin used /\ LargeEnough(lobby) THEN lobbies \cup {lobby} ELSE lobbies

Lobbies(order, waited) ==
    LET upTo[i \in 0 .. Len(order)] == IF i = 0 THEN {} ELSE Anchor(order, waited, upTo[i - 1], i)
    IN  upTo

MatchTick(order, waited) ==
    {{order[i] : i \in lobby} : lobby \in Lobbies(order, waited)[Len(order)]}

\* pending.sort: by Elo; requests of one Elo stay in the order they came in.
Sorted(requests) == {order \in SetToSeqs(requests) :
                         \A i, j \in DOMAIN order : i < j => Elo[order[i]] <= Elo[order[j]]}

\* Mutant: the lobbies that still wait are not kept.
MutantForget(w) == [backlog EXCEPT ![w] = {}]

KeepPending(w) == [backlog EXCEPT ![w] = still[w]]

EndRetry(w) == /\ stage[w] = "retry" /\ todo[w] = {} /\ Idle(w)
               /\ backlog' = KeepPending(w)
               /\ still' = [still EXCEPT ![w] = {}]
               /\ stage' = [stage EXCEPT ![w] = "match"]
               /\ \E order \in Sorted(pending[w]), waited \in [pending[w] -> Windows] :
                      LET lobbies == MatchTick(order, waited)
                      IN  /\ todo' = [todo EXCEPT ![w] = {[members |-> m, retry |-> 0] : m \in lobbies}]
                          /\ pending' = Loses(pending, w, UNION lobbies)
               /\ UNCHANGED <<consumer, claim, deficit, pool, found, ended>>
               /\ NoFailure

EndTick(w) == /\ stage[w] = "match" /\ todo[w] = {} /\ Idle(w)
              /\ stage' = [stage EXCEPT ![w] = "sleep"]
              /\ UNCHANGED <<consumer, pending, backlog, todo, still, claim, deficit, pool, found, ended>>
              /\ NoFailure

\* get_prefix raises: the tick is over, whatever it had in hand.  New lobbies
\* are lost, and the backlog starts again with those already placed.
ListRaises(w, l) ==
    /\ l \in todo[w] /\ Idle(w)
    /\ \/ stage[w] = "match" /\ Failure(Members(todo[w]), {})
       \/ stage[w] = "retry" /\ Failure({}, Members(backlog[w]) \ Members(todo[w] \cup still[w]))
    /\ stage' = [stage EXCEPT ![w] = "sleep"]
    /\ todo' = [todo EXCEPT ![w] = {}]
    /\ still' = [still EXCEPT ![w] = {}]
    /\ UNCHANGED <<consumer, pending, backlog, claim, deficit, pool, found, ended>>

\* The worker dies with what it has in memory, and starts again.
WorkerCrash(w) ==
    /\ Failure(pending[w] \cup Members(LobbiesOf(w)), {})
    /\ queue' = queue \cup unacked[w]
    /\ unacked' = [unacked EXCEPT ![w] = {}]
    /\ pending' = [pending EXCEPT ![w] = {}]
    /\ backlog' = [backlog EXCEPT ![w] = {}]
    /\ todo' = [todo EXCEPT ![w] = {}]
    /\ still' = [still EXCEPT ![w] = {}]
    /\ claim' = [claim EXCEPT ![w] = NoClaim]
    /\ stage' = [stage EXCEPT ![w] = "sleep"]
    /\ deficit' = [deficit EXCEPT ![w] = 0]
    /\ UNCHANGED <<pool, found, ended>>

-----------------------------------------------------------------------------
(* The game rooms: startup and end_match register, a leader's exit removes *)

Register(r) == /\ registrations < MaxRegistrations
               /\ registrations' = registrations + 1
               /\ rooms' = [rooms EXCEPT ![r] = "available"]
               /\ handed' = [handed EXCEPT ![r] = 0]
               /\ UNCHANGED <<consumer, pending, loop, found, ended>>
               /\ NoFailure

RemoveRoom(r) == /\ rooms[r] # "absent"
                 /\ rooms' = [rooms EXCEPT ![r] = "absent"]
                 /\ UNCHANGED <<consumer, pending, loop, handed, registrations, found, ended>>
                 /\ NoFailure

-----------------------------------------------------------------------------
Step(w) == \/ \E q \in Request : Deliver(w, q) \/ Refuse(w, q) \/ AddRequest(w, q) \/ Redeliver(w, q)
           \/ \E old \in SUBSET Request : BeginTick(w, old)
           \/ \E l \in todo[w] : ListRooms(w, l) \/ ListRaises(w, l)
           \/ \E r \in Room : TryRoom(w, r) \/ ClaimRaises(w, r)
           \/ NoRoomYet(w) \/ StillNoRoom(w) \/ Notify(w) \/ EndRetry(w) \/ EndTick(w) \/ WorkerCrash(w)

MatchmakingNext == \/ \E w \in Worker : Step(w)
                   \/ \E r \in Room : Register(r) \/ RemoveRoom(r)

MatchmakingSpec == MatchmakingInit /\ [][MatchmakingNext]_matchVars
-----------------------------------------------------------------------------
(* Properties *)

(***************************************************************************)
(* "Two matchmaking workers can never be handed the same room"             *)
(* (claim_available_room): between two registrations of a room at most one *)
(* claim of it goes through, with any interleaving of listing, comparing   *)
(* and giving back.                                                        *)
(***************************************************************************)
ClaimedOnce == \A r \in Room : handed[r] <= 1

(***************************************************************************)
(* A request is in exactly one place: the queue, a consumer, one matcher,  *)
(* one lobby, one notification, or among the ended; nowhere, if its lobby  *)
(* could not be announced, its worker crashed or its first search for a    *)
(* room raised; and more than one place only after a redelivery that came  *)
(* after it was added, or a tick that raised after it had left the backlog.*)
(* Failing transactions and the retries of pending lobbies neither lose a  *)
(* lobby nor place it twice, whatever other workers do (matchmaker_loop).  *)
(***************************************************************************)
Places(q) == Cardinality({w \in Worker : q \in unacked[w]}) + Cardinality({w \in Worker : q \in pending[w]})
               + Cardinality(UNION {{<<w, l>> : l \in {l \in LobbiesOf(w) : q \in l.members}} : w \in Worker})
               + Cardinality({f \in found : q \in f.members})
               + Cardinality({S \in {queue} : q \in S}) + Cardinality({S \in {ended} : q \in S})

RequestInOnePlace == \A q \in Request \ doubled : Places(q) = IF q \in lost THEN 0 ELSE 1

(***************************************************************************)
(* match_tick leaves nobody waiting who could play: no MinLobby requests   *)
(* that stay pending are within the initial range of each other, although  *)
(* lobbies that stayed too small held some of them for a while.            *)
(***************************************************************************)
Playable(S) == Cardinality(S) = MinLobby /\ \A q, r \in S : Gap(q, r) <= EloRange

NobodyLeftWhoCouldPlay ==
    [][\A w \in Worker : stage[w] = "retry" /\ stage'[w] = "match"
                           => \A S \in SUBSET pending'[w] : ~Playable(S)]_matchVars

(***************************************************************************)
(* Between ticks the rooms a worker asks for are as many as it has lobbies *)
(* waiting: each of the ways out of the backlog, a room, a failed          *)
(* announcement, the last retry or a crash, counts once, and a tick that   *)
(* raises changes nothing, until one raises that had taken lobbies from    *)
(* the backlog, or a redelivered request waits in two lobbies              *)
(* (_scale_up_deficit, which rooms_needed reports and ensure_game_rooms    *)
(* scales by).                                                             *)
(***************************************************************************)
DeficitIsBacklog ==
    \A w \in Worker : doubled = {} /\ stage[w] = "sleep" => deficit[w] = Cardinality(backlog[w])
=============================================================================
