---------------------------- MODULE Notification ----------------------------
(***************************************************************************)
(* The notification service (services/notification/app/main.py): replicas  *)
(* that take messages from one RabbitMQ queue and push each to the         *)
(* WebSockets, of the players it names, that are connected to the replica  *)
(* that took it.  A replica is one event loop: handlers of sockets and the *)
(* consumer interleave at their awaits.  What is published to Redis        *)
(* channels nobody subscribes to matters only when it fails.               *)
(***************************************************************************)
EXTENDS Naturals, Sequences, FiniteSetsExt, Functions

CONSTANTS Replica, Player, Socket, Message, None,
          Owner,     \* the player whose token a socket presents
          Names,     \* player_ids of a message
          Gateway,   \* the replicas a socket may be connected to
          MaxFaults  \* bound

ASSUME NoneAssumption == None \notin Socket \cup Message
ASSUME OwnerAssumption == Owner \in [Socket -> Player]
ASSUME GatewayAssumption == Gateway \in [Socket -> SUBSET Replica]
ASSUME NamesAssumption == Names \in [Message -> Seq(Player)]
ASSUME PlaceAssumption == Replica \cap {"unsent", "queued", "handled", "rejected"} = {}
ASSUME BoundAssumption == MaxFaults \in Nat

VARIABLES
    handler,   \* where the handler of a socket is
    home,      \* the replica a socket is connected to
    up,        \* whether the client keeps its end open
    table,     \* client_connections of each replica
    place,     \* where a message is for RabbitMQ: "unsent", "queued", with a replica that
               \* has not acknowledged it, "handled", "rejected"
    taken,     \* the message a replica dispatches, or None
    consuming, \* whether a replica's consumer is connected to RabbitMQ
    next,      \* dispatch: the player it has come to, by position
    target,    \* the socket it awaits send_text of, or None when it has come to Redis
    owed,      \* the connected sockets of the replica that took a message, when it did,
               \* that have not received it since
    faults

sockets == <<handler, home, up>>
dispatching == <<taken, next, target>>
vars == <<handler, home, up, table, place, dispatching, consuming, owed, faults>>

\* "validating" lasts from accept() to the answer of /auth/validate.
Handler == {"none", "validating", "receiving", "finished", "broken"}
Place == {"unsent", "queued", "handled", "rejected"} \cup Replica

TypeOK == /\ handler \in [Socket -> Handler]
          /\ home \in [Socket -> Replica \cup {None}]
          /\ up \in [Socket -> BOOLEAN]
          /\ table \in [Replica -> [Player -> Socket \cup {None}]]
          /\ place \in [Message -> Place]
          /\ taken \in [Replica -> Message \cup {None}]
          /\ consuming \in [Replica -> BOOLEAN]
          /\ next \in [Replica -> Nat \ {0}]
          /\ target \in [Replica -> Socket \cup {None}]
          /\ \A n \in Replica : target[n] # None => taken[n] # None
          /\ owed \in [Message -> SUBSET Socket]
          /\ faults \in 0 .. MaxFaults

Init == /\ handler = [s \in Socket |-> "none"]
        /\ home = [s \in Socket |-> None]
        /\ up = [s \in Socket |-> FALSE]
        /\ table = [n \in Replica |-> [p \in Player |-> None]]
        /\ place = [m \in Message |-> "unsent"]
        /\ taken = [n \in Replica |-> None]
        /\ consuming = [n \in Replica |-> TRUE]
        /\ next = [n \in Replica |-> 1]
        /\ target = [n \in Replica |-> None]
        /\ owed = [m \in Message |-> {}]
        /\ faults = 0

Fault == faults < MaxFaults /\ faults' = faults + 1
NoFault == UNCHANGED faults

-----------------------------------------------------------------------------
(* notification_websocket *)

Moves(s, h) == handler' = [handler EXCEPT ![s] = h]

\* The gateway picks the replica.
Accept(s, n) == /\ handler[s] = "none" /\ n \in Gateway[s]
                /\ Moves(s, "validating")
                /\ home' = [home EXCEPT ![s] = n]
                /\ up' = [up EXCEPT ![s] = TRUE]
                /\ UNCHANGED <<table, place, consuming, dispatching, owed>>
                /\ NoFault

\* /auth/validate says yes and the socket is put in the table, whether the client
\* is still there or not; or it says no, or the client is late, and the socket is closed.
Validate(s) == /\ handler[s] = "validating"
               /\ \/ /\ Moves(s, "receiving")
                     /\ table' = [table EXCEPT ![home[s]][Owner[s]] = s]
                     /\ UNCHANGED up
                  \/ /\ Moves(s, "finished")
                     /\ up' = [up EXCEPT ![s] = FALSE]
                     /\ UNCHANGED table
               /\ UNCHANGED <<home, place, consuming, dispatching, owed>>
               /\ NoFault

\* The client goes away.
Leave(s) == /\ up[s]
            /\ up' = [up EXCEPT ![s] = FALSE]
            /\ UNCHANGED <<handler, home, table, place, consuming, dispatching, owed>>
            /\ NoFault

\* pop(player_id, None): by name, whichever socket is there.
Forget(n, p) == table' = [table EXCEPT ![n][p] = None]

\* Mutant: the pop is left out.
MutantKeep(s) == UNCHANGED table

ForgetOwner(s) == Forget(home[s], Owner[s])

\* WebSocketDisconnect.
Disconnect(s) == /\ handler[s] = "receiving" /\ ~up[s]
                 /\ Moves(s, "finished")
                 /\ ForgetOwner(s)
                 /\ UNCHANGED <<home, up, place, consuming, dispatching, owed>>
                 /\ NoFault

\* receive_text raises something else, as it does on a binary frame: the socket
\* is closed and stays in the table.
Break(s) == /\ handler[s] = "receiving"
            /\ Moves(s, "broken")
            /\ up' = [up EXCEPT ![s] = FALSE]
            /\ Fault
            /\ UNCHANGED <<home, table, place, consuming, dispatching, owed>>

\* A client that is connected and stays.
Steady(s) == up[s] /\ handler[s] = "receiving"

-----------------------------------------------------------------------------
(* consume_notifications and dispatch *)

\* Matchmaking publishes a message.
Publish(m) == /\ place[m] = "unsent"
              /\ place' = [place EXCEPT ![m] = "queued"]
              /\ UNCHANGED <<sockets, table, consuming, dispatching, owed>>
              /\ NoFault

\* The loop of dispatch is over.
LoopEnds(n) == /\ next' = [next EXCEPT ![n] = 1]
               /\ target' = [target EXCEPT ![n] = None]

\* dispatch is over.
Returns(n) == LoopEnds(n) /\ taken' = [taken EXCEPT ![n] = None]

\* Mutant: the first player is passed over.
MutantSkip(m, from, clients) ==
    {i \in from + 1 .. Len(Names[m]) : clients[Names[m][i]] # None}

\* The players of a message that are still to come and have a socket.
Remaining(m, from, clients) ==
    {i \in from .. Len(Names[m]) : clients[Names[m][i]] # None}

\* The loop of dispatch, from a position to the next await.
GoesOn(n, m, from, clients) ==
    LET todo == Remaining(m, from, clients)
    IN  \/ /\ todo # {}
           /\ next' = [next EXCEPT ![n] = Min(todo)]
           /\ target' = [target EXCEPT ![n] = clients[Names[m][Min(todo)]]]
        \/ /\ todo = {}
           /\ LoopEnds(n)

Take(n, m) == /\ consuming[n] /\ taken[n] = None /\ place[m] = "queued"
              /\ taken' = [taken EXCEPT ![n] = m]
              /\ place' = [place EXCEPT ![m] = n]
              /\ owed' = [owed EXCEPT ![m] = {s \in Socket : /\ Steady(s) /\ home[s] = n
                                                            /\ Owner[s] \in Range(Names[m])}]
              /\ GoesOn(n, m, 1, table[n])
              /\ UNCHANGED <<sockets, table, consuming>>
              /\ NoFault

\* send_text returns, and a client that is there has the message; or raises, and
\* the player is forgotten.
Sent(n, m) ==
    /\ taken[n] = m /\ target[n] # None
    /\ LET s == target[n]
       IN  \/ /\ up[s]
              /\ owed' = [owed EXCEPT ![m] = @ \ {s}]
              /\ UNCHANGED table
           \/ /\ ~up[s]
              /\ UNCHANGED table \/ Forget(n, Owner[s])
              /\ UNCHANGED owed
    /\ GoesOn(n, m, next[n] + 1, table'[n])
    /\ UNCHANGED <<sockets, place, taken, consuming>>
    /\ NoFault

AllSent(n, m) == taken[n] = m /\ target[n] = None

\* The message is published to Redis and acknowledged.
Handled(n, m) == /\ AllSent(n, m) /\ place[m] = n
                 /\ place' = [place EXCEPT ![m] = "handled"]
                 /\ Returns(n)
                 /\ UNCHANGED <<sockets, table, consuming, owed>>
                 /\ NoFault

\* Redis fails: process() rejects the message for good, and the consumer starts anew.
Rejected(n, m) == /\ AllSent(n, m) /\ place[m] = n
                  /\ place' = [place EXCEPT ![m] = "rejected"]
                  /\ consuming' = [consuming EXCEPT ![n] = FALSE]
                  /\ Returns(n)
                  /\ Fault
                  /\ UNCHANGED <<sockets, table, owed>>

\* What is not acknowledged goes back to the queue.
GoesBack(n) == place' = [m \in Message |-> IF place[m] = n THEN "queued" ELSE place[m]]

\* The connection to RabbitMQ is lost; a dispatch goes on.
ConnectionLost(n) == /\ consuming[n]
                     /\ consuming' = [consuming EXCEPT ![n] = FALSE]
                     /\ GoesBack(n)
                     /\ Fault
                     /\ UNCHANGED <<sockets, table, dispatching, owed>>

\* The message cannot be acknowledged any more.
TooLate(n, m) == /\ AllSent(n, m) /\ ~consuming[n]
                 /\ Returns(n)
                 /\ UNCHANGED <<sockets, table, place, consuming, owed>>
                 /\ NoFault

\* Mutant: the loop is within the try, and an exception ends the task.
MutantStaysDown(n) == FALSE /\ UNCHANGED vars

\* The outer loop of consume_notifications, after five seconds.
Reconnect(n) == /\ ~consuming[n] /\ taken[n] = None
                /\ consuming' = [consuming EXCEPT ![n] = TRUE]
                /\ UNCHANGED <<sockets, table, place, dispatching, owed>>
                /\ NoFault

\* The process dies, and is started again.
Crash(n) == /\ Fault
            /\ LET here == {s \in Socket : home[s] = n}
               IN  /\ handler' = [s \in Socket |-> IF s \in here THEN "finished" ELSE handler[s]]
                   /\ up' = [s \in Socket |-> up[s] /\ s \notin here]
            /\ table' = [table EXCEPT ![n] = [p \in Player |-> None]]
            /\ consuming' = [consuming EXCEPT ![n] = FALSE]
            /\ Returns(n)
            /\ GoesBack(n)
            /\ UNCHANGED <<home, owed>>

-----------------------------------------------------------------------------
HandlerStep(s) == Validate(s) \/ Disconnect(s)
ConsumerStep(n) == \/ \E m \in Message : \/ Take(n, m) \/ Sent(n, m)
                                              \/ Handled(n, m) \/ TooLate(n, m)
                   \/ Reconnect(n)

Next == \/ \E s \in Socket : \/ \E n \in Replica : Accept(s, n)
                             \/ HandlerStep(s) \/ Leave(s) \/ Break(s)
        \/ \E n \in Replica : \/ ConsumerStep(n) \/ ConnectionLost(n) \/ Crash(n)
                              \/ \E m \in Message : Rejected(n, m)
        \/ \E m \in Message : Publish(m)

(***************************************************************************)
(* Handlers and consumers get on: calls return or raise, Starlette reports *)
(* a client that left.  Clients and matchmaking may do nothing.            *)
(***************************************************************************)
Fairness == /\ \A s \in Socket : WF_vars(HandlerStep(s))
            /\ \A n \in Replica : WF_vars(ConsumerStep(n))

Spec == Init /\ [][Next]_vars /\ Fairness
-----------------------------------------------------------------------------
(* Properties *)

Rivals(s) == {r \in Socket \ {s} : /\ Owner[r] = Owner[s] /\ home[r] = home[s]
                                   /\ handler[r] \in {"receiving", "finished", "broken"}}
InTable(s) == \E n \in Replica : s \in Range(table[n])

(***************************************************************************)
(* "Pushes match events to connected clients" (README.md:126), as far as   *)
(* it goes: when a message is done with, acknowledged or rejected, every   *)
(* client that was connected to the replica that took it last, and still   *)
(* is, has received it, whatever became of the others, of Redis and of     *)
(* earlier attempts.  Only another socket of the same player can have been *)
(* in its way: no one else's end takes it out of the table.                *)
(***************************************************************************)
SteadySocketHears ==
    \A m \in Message : place[m] \in {"handled", "rejected"} =>
        \A s \in owed[m] : Steady(s) => Rivals(s) # {}

(***************************************************************************)
(* A socket whose client left is taken out of the table, even one that     *)
(* left before it was put in, unless its handler failed otherwise.         *)
(***************************************************************************)
LeftSocketsGo == \A s \in Socket : ~up[s] ~> ~InTable(s) \/ handler[s] = "broken"

(***************************************************************************)
(* Every message that was queued is done with, whatever befell both        *)
(* replicas, before or while they dispatched it: a lost connection, a      *)
(* crash or a failure of Redis does not leave a consumer down for good.    *)
(***************************************************************************)
MessagesAreDone == \A m \in Message : place[m] = "queued" ~> place[m] \in {"handled", "rejected"}

=============================================================================
