------------------------------ MODULE Sessions ------------------------------
(***************************************************************************)
(* Accounts and sessions (services/auth/app), and the two places where     *)
(* matchmaking asks whether a token still counts: before a join is queued  *)
(* and when it is taken from the queue (services/matchmaking/app).         *)
(*                                                                         *)
(* Handlers run in FastAPI's threadpool, on two replicas: their calls to   *)
(* PostgreSQL and Redis interleave.  A token is its player and the second  *)
(* it was issued in, as RS256 signs the same claims the same way twice.    *)
(* Bcrypt and signatures always tell right from wrong.  The records        *)
(* session:{id} are left out: they are written and deleted next to         *)
(* player_session:{id}, and nothing reads them.                            *)
(***************************************************************************)
EXTENDS Naturals

CONSTANTS Player,   \* user names
          Request, None, Unclear,
          Lifetime, \* jwt_expire_minutes, for the token and for its session in Redis
          QueueTTL, \* x-message-ttl of the queue matchmaking.requests
          MaxTime, MaxFaults \* bounds

ASSUME NoneAssumption == None \notin Player /\ Unclear # None
ASSUME TimeAssumption == /\ Lifetime \in Nat \ {0} /\ QueueTTL \in Nat
                         /\ MaxTime \in Nat /\ MaxFaults \in Nat

VARIABLES
    now,        \* the clock of replicas and Redis, in seconds
    registered, \* the rows of players
    current,    \* player_session:{player}: the token, and when the key expires
    request,    \* the calls: what they do, where they are, the token they carry
    since,      \* when a join was queued
    given,      \* the tokens clients have received
    alone,      \* the calls that no other call on the same session has overlapped
    expected,   \* the token a client may rely on; None if it relies on there
                \* being none, Unclear if calls overlapped
    faults

vars == <<now, registered, current, request, since, given, alone, expected, faults>>

Token == [player : Player, iat : 0 .. MaxTime]
Session == [token : Token, until : 0 .. MaxTime + Lifetime]

ASSUME RecordAssumption == {None, Unclear} \cap (Token \cup Session) = {}

\* What a call may change a session by, and what it may only look at it for.
Changing == {"register", "login", "refresh", "logout"}
Op == Changing \cup {"join"}
PC == {"new", "begin", "issue", "store", "queued", "done", "refused", "failed",
       "lost",      \* a join answered as queued that never was
       "expired",   \* a join the queue gave up
       "dropped",   \* a join the consumer refused: its token does not count
       "unchecked"} \* a join the consumer refused: auth did not answer
Call(op, player, token, pc) == [op |-> op, player |-> player, token |-> token, pc |-> pc]

TypeOK == /\ now \in 0 .. MaxTime
          /\ registered \subseteq Player
          /\ current \in [Player -> Session \cup {None}]
          /\ request \in [Request -> [op : Op \cup {None}, player : Player \cup {None},
                                      token : Token \cup {None}, pc : PC]]
          /\ since \in [Request -> 0 .. MaxTime]
          /\ given \subseteq Token
          /\ alone \subseteq Request
          /\ expected \in [Player -> Token \cup {None, Unclear}]
          /\ faults \in 0 .. MaxFaults

Init == /\ now = 0
        /\ registered = {}
        /\ current = [p \in Player |-> None]
        /\ request = [r \in Request |-> Call(None, None, None, "new")]
        /\ since = [r \in Request |-> 0]
        /\ given = {} /\ alone = {}
        /\ expected = [p \in Player |-> None]
        /\ faults = 0

-----------------------------------------------------------------------------
(* Tokens *)

\* decode_token: the claim exp is looked at.
Decodes(t) == now < t.iat + Lifetime

\* get_player_session: Redis drops the key when its time is up.
CurrentToken(p) == IF current[p] # None /\ now < current[p].until THEN current[p].token ELSE None

\* Mutant: only the signature counts.
MutantNotRevocable(t) == Decodes(t)

\* /auth/validate, and the same two checks in refresh and in the profile.
Accepts(t) == Decodes(t) /\ CurrentToken(t.player) = t

-----------------------------------------------------------------------------
(* Calls *)

\* The calls on the session of p that are under way and may change it, or rely on it.
Changes(p) == {r \in Request : request[r].player = p /\ request[r].op \in Changing
                              /\ request[r].pc \in {"begin", "issue", "store"}}
Joins(p) == {r \in Request : request[r].player = p /\ request[r].op = "join"
                            /\ request[r].pc \in {"begin", "queued"}}

To(r, pc) == request' = [request EXCEPT ![r].pc = pc]
NoFault == UNCHANGED faults
Fault == faults < MaxFaults /\ faults' = faults + 1

\* What the client of r may expect when it has its answer.
Expect(r, x) ==
    expected' = [expected EXCEPT ![request[r].player] = IF r \in alone THEN x ELSE Unclear]

Begin(r, op, p, t) ==
    /\ request[r].pc = "new"
    /\ request' = [request EXCEPT ![r] = Call(op, p, t, "begin")]
    /\ LET overlapped == IF op \in Changing THEN Changes(p) \cup Joins(p) ELSE {}
       IN  alone' = (alone \ overlapped) \cup {x \in {r} : Changes(p) = {}}
    /\ UNCHANGED <<now, registered, current, since, given, expected>>
    /\ NoFault

\* A client registers or logs in with a name, or uses a token it was given.
Arrive(r) == \/ \E p \in Player, op \in {"register", "login"} : Begin(r, op, p, None)
             \/ \E t \in given, op \in {"refresh", "logout", "join"} : Begin(r, op, t.player, t)

Refuse(r) == /\ To(r, "refused")
             /\ UNCHANGED <<now, registered, current, since, given, alone, expected>>
             /\ NoFault

\* create_player: the UNIQUE constraint decides.
CreatePlayer(r) ==
    /\ request[r].pc = "begin" /\ request[r].op = "register"
    /\ \/ /\ request[r].player \notin registered
          /\ registered' = registered \cup {request[r].player}
          /\ To(r, "issue")
          /\ UNCHANGED <<now, current, since, given, alone, expected>>
          /\ NoFault
       \/ request[r].player \in registered /\ Refuse(r)

\* PostgreSQL fails when it has committed the row: the name is taken, its client has no token.
CreatePlayerFails(r) ==
    /\ request[r].pc = "begin" /\ request[r].op = "register"
    /\ registered' = registered \cup {request[r].player}
    /\ To(r, "failed")
    /\ Fault
    /\ UNCHANGED <<now, current, since, given, alone, expected>>

\* PostgreSQL, Redis or auth fails before the handler has changed anything.
BeginFails(r) ==
    /\ request[r].pc = "begin"
    /\ To(r, "failed")
    /\ Fault
    /\ UNCHANGED <<now, registered, current, since, given, alone, expected>>

\* The checks of login and refresh.
MayIssue(r) == \/ request[r].op = "login" /\ request[r].player \in registered
               \/ request[r].op = "refresh" /\ Accepts(request[r].token)

Check(r) ==
    /\ request[r].pc = "begin" /\ request[r].op \in {"login", "refresh"}
    /\ \/ /\ MayIssue(r)
          /\ To(r, "issue")
          /\ UNCHANGED <<now, registered, current, since, given, alone, expected>>
          /\ NoFault
       \/ ~MayIssue(r) /\ Refuse(r)

\* _issue_session: create_token.
CreateToken(r) ==
    /\ request[r].pc = "issue"
    /\ request' = [request EXCEPT ![r].pc = "store",
                                  ![r].token = [player |-> request[r].player, iat |-> now]]
    /\ UNCHANGED <<now, registered, current, since, given, alone, expected>>
    /\ NoFault

\* Mutant: the session in Redis lasts as long as the token has left, but one.
MutantShort == now + Lifetime - 1

Expiry == now + Lifetime

SetSession(r) ==
    current' = [current EXCEPT ![request[r].player] = [token |-> request[r].token, until |-> Expiry]]

\* store_player_session; the client has its token.
StoreSession(r) == /\ request[r].pc = "store"
                   /\ SetSession(r)
                   /\ given' = given \cup {request[r].token}
                   /\ To(r, "done")
                   /\ Expect(r, request[r].token)
                   /\ UNCHANGED <<now, registered, since, alone>>
                   /\ NoFault

\* Redis fails, before or after it has stored the session: the client has no token.
StoreFails(r) == /\ request[r].pc = "store"
                 /\ SetSession(r) \/ UNCHANGED current
                 /\ To(r, "failed")
                 /\ expected' = [expected EXCEPT ![request[r].player] = Unclear]
                 /\ Fault
                 /\ UNCHANGED <<now, registered, since, given, alone>>

\* logout asks only whether the token decodes.
EndsSession(r) == Decodes(request[r].token)

\* logout, delete_player_session: whichever session is the current one is deleted.
Logout(r) ==
    /\ request[r].pc = "begin" /\ request[r].op = "logout"
    /\ \/ /\ EndsSession(r)
          /\ current' = [current EXCEPT ![request[r].player] = None]
          /\ To(r, "done")
          /\ Expect(r, None)
          /\ UNCHANGED <<now, registered, since, given, alone>>
          /\ NoFault
       \/ ~EndsSession(r) /\ Refuse(r)

\* Redis fails, before or after it has deleted the session: the client is told of an error.
LogoutFails(r) ==
    /\ request[r].pc = "begin" /\ request[r].op = "logout" /\ EndsSession(r)
    /\ \/ current' = [current EXCEPT ![request[r].player] = None]
       \/ UNCHANGED current
    /\ To(r, "failed")
    /\ expected' = [expected EXCEPT ![request[r].player] = Unclear]
    /\ Fault
    /\ UNCHANGED <<now, registered, since, given, alone>>

-----------------------------------------------------------------------------
(* Joining the queue *)

\* queue_matchmaking: the request is queued with its token.
Queue(r) == /\ request[r].pc = "begin" /\ request[r].op = "join"
            /\ \/ /\ Accepts(request[r].token)
                  /\ To(r, "queued")
                  /\ since' = [since EXCEPT ![r] = now]
                  /\ UNCHANGED <<now, registered, current, given, alone, expected>>
                  /\ NoFault
               \/ ~Accepts(request[r].token) /\ Refuse(r)

\* publish_to_queue finds no broker and returns: the join is answered as queued all the same.
\* (A publish that raises is answered as 503: BeginFails, or Queue if the broker has taken it.)
QueueLoses(r) == /\ request[r].pc = "begin" /\ request[r].op = "join"
                 /\ Accepts(request[r].token)
                 /\ To(r, "lost")
                 /\ Fault
                 /\ UNCHANGED <<now, registered, current, since, given, alone, expected>>

\* The broker: nobody took the join in time.  What it then dead-letters names no player.
Expire(r) == /\ request[r].pc = "queued" /\ now >= since[r] + QueueTTL
             /\ To(r, "expired")
             /\ UNCHANGED <<now, registered, current, since, given, alone, expected>>
             /\ NoFault

\* consume: the token is validated again; a request it does not speak for is dropped.
\* A join among the ten prefetched ones does not expire, so that none is too old to be taken.
Consume(r) == /\ request[r].pc = "queued"
              /\ To(r, IF Accepts(request[r].token) THEN "done" ELSE "dropped")
              /\ UNCHANGED <<now, registered, current, since, given, alone, expected>>
              /\ NoFault

\* Auth does not answer, which validate_token takes for a refusal.
ConsumeFails(r) == /\ request[r].pc = "queued"
                   /\ To(r, "unchecked")
                   /\ Fault
                   /\ UNCHANGED <<now, registered, current, since, given, alone, expected>>

-----------------------------------------------------------------------------
Tick == /\ now < MaxTime
        /\ now' = now + 1
        /\ UNCHANGED <<registered, current, request, since, given, alone, expected, faults>>

Step(r) == \/ CreatePlayer(r) \/ CreatePlayerFails(r) \/ Check(r) \/ CreateToken(r)
           \/ StoreSession(r) \/ StoreFails(r) \/ Logout(r) \/ LogoutFails(r) \/ BeginFails(r)
           \/ Queue(r) \/ QueueLoses(r) \/ Expire(r) \/ Consume(r) \/ ConsumeFails(r)

Next == Tick \/ \E r \in Request : Arrive(r) \/ Step(r)

Spec == Init /\ [][Next]_vars
-----------------------------------------------------------------------------
(* Properties *)

(***************************************************************************)
(* Revocable sessions (_issue_session, delete_player_session): a call that *)
(* no other overlapped settles what counts, whatever overlapped before it. *)
(* After a login, a refresh or a registration exactly the token it         *)
(* returned is accepted, until it expires and no earlier; after a logout   *)
(* none is; and so it stays until another call gets through.               *)
(***************************************************************************)
OneCallSettlesIt ==
    \A p \in Player : Changes(p) = {} /\ expected[p] # Unclear =>
        {t \in given : t.player = p /\ Accepts(t)} = {t \in {expected[p]} \ {None} : Decodes(t)}

(***************************************************************************)
(* A join that reaches the consumer is refused there, which its player is  *)
(* not told, because its token expired on the way or because the player    *)
(* called register, login, refresh or logout after sending it              *)
(* (queue_matchmaking, consume): with the session left alone, a token that *)
(* was good when the join was queued is good when it is taken.  The other  *)
(* ways in which a join answered as queued comes to nothing have ends of   *)
(* their own: no broker (lost), the queue's TTL (expired), an auth that    *)
(* does not answer (unchecked).                                            *)
(***************************************************************************)
OnlyNewCallsRefuseJoins ==
    \A r \in alone : request[r].pc = "dropped" => ~Decodes(request[r].token)
=============================================================================
