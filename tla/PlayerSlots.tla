---------------------------- MODULE PlayerSlots ----------------------------
(***************************************************************************)
(* The players of a room that one replica leads: their websocket sessions  *)
(* (services/game-room/app/ws_handler.py), their slots in the state of the *)
(* game loop and the tick computed from a copy of it (game_loop.py), the   *)
(* hold slots in Redis, and the reconnect handler that reads them          *)
(* (services/reconnect-handler/app/main.py).  What a slot holds (position, *)
(* health, score) is abstracted to how many of its player's inputs it      *)
(* reflects; validating a token always succeeds, as a session that is      *)
(* refused leaves no trace.  Losing leadership is RoomLifecycle.tla's.     *)
(***************************************************************************)
EXTENDS Naturals, FiniteSets

CONSTANTS Player, Session, None,
          Owner,        \* the player a session belongs to
          MaxMatches,   \* bound on the matches played back to back
          MaxInputs,    \* bound: nobody sends another input once a player has sent so many
          MaxSessions,  \* bound on the sessions that begin
          MaxFaults     \* bound on failed calls and broken sockets

ASSUME OwnerAssumption == Owner \in [Session -> Player]
ASSUME NoneAssumption == None \notin Session \cup Nat
                          /\ None \notin [moves : Nat, connected : BOOLEAN]
ASSUME BoundAssumption == MaxMatches \in Nat \ {0} /\ {MaxInputs, MaxSessions, MaxFaults} \subseteq Nat

Match == 1 .. MaxMatches

VARIABLES
    pc,      \* where a session's handler is
    loop,    \* the match whose game loop a session was given
    got,     \* what a handler has read from, or is writing to, its hold slot
    socket,  \* connected_players: the session a player is served through
    match,   \* the match the global game_loop plays
    slots,   \* state.players of every game loop
    inputs,  \* input_queue of every game loop: how many of each player
    copy,    \* next_players of the tick in flight
    stage,   \* the await the game loop is at
    logged,  \* what the events of each match have said of each player
    hold,    \* hold:{id}:{player}
    cast,    \* the broadcast in progress
    sent,    \* how many inputs each player has sent
    faults

sessions == <<pc, loop, got>>
game == <<match, copy, stage, logged>>
vars == <<pc, loop, got, socket, match, slots, inputs, copy, stage, logged, hold,
          cast, sent, faults>>

Moves == 0 .. MaxInputs
Slot == [moves : Moves, connected : BOOLEAN]
NewSlot == [moves |-> 0, connected |-> TRUE]
Empty == [p \in Player |-> None]
NoCast == [unsent |-> {}, dead |-> {}, broken |-> FALSE]

TypeOK == /\ pc \in [Session -> {"new", "auth", "asked", "answered", "deleting", "open", "holding", "gone"}]
          /\ loop \in [Session -> Match]
          /\ got \in [Session -> {None} \cup Moves]
          /\ socket \in [Player -> {None} \cup Session]
          /\ match \in Match
          /\ slots \in [Match -> [Player -> {None} \cup Slot]]
          /\ inputs \in [Match -> [Player -> Moves]]
          /\ copy \in [Player -> {None} \cup Slot]
          /\ stage \in {"sleep", "publish", "store", "ending", "over"}
          /\ logged \in [Match -> [Player -> SUBSET Moves]]
          /\ hold \in [Player -> {None} \cup Moves]
          /\ cast \in [unsent : SUBSET Player, dead : SUBSET Player, broken : BOOLEAN]
          /\ sent \in [Player -> Moves]
          /\ faults \in 0 .. MaxFaults

Init == /\ pc = [s \in Session |-> "new"]
        /\ loop = [s \in Session |-> 1]
        /\ got = [s \in Session |-> None]
        /\ socket = Empty
        /\ match = 1
        /\ slots = [m \in Match |-> Empty]
        /\ inputs = [m \in Match |-> [p \in Player |-> 0]]
        /\ copy = Empty
        /\ stage = "sleep"
        /\ logged = [m \in Match |-> [p \in Player |-> {}]]
        /\ hold = Empty
        /\ cast = NoCast
        /\ sent = [p \in Player |-> 0]
        /\ faults = 0

-----------------------------------------------------------------------------
Goes(s, from, to) == pc[s] = from /\ pc' = [pc EXCEPT ![s] = to]

Fault == faults < MaxFaults /\ faults' = faults + 1
NoFault == UNCHANGED faults

\* connected_players changes: a broadcast that is iterating over it will raise
\* at its next player if the number of entries is another.
Table(new) == /\ socket' = new
              /\ cast' = IF cast.unsent # {} /\ \E p \in Player : (new[p] = None) # (socket[p] = None)
                         THEN [cast EXCEPT !.broken = TRUE] ELSE cast

Without(p) == [socket EXCEPT ![p] = None]

SlotOf(s) == slots[loop[s]][Owner[s]]
SetSlot(s, slot) == slots' = [slots EXCEPT ![loop[s]][Owner[s]] = slot]

-----------------------------------------------------------------------------
(* websocket_endpoint, add_player, remove_player *)

\* The handler is given the game loop of this moment, then waits for the token.
Accept(s) == /\ Goes(s, "new", "auth")
             /\ Cardinality({x \in Session : pc[x] # "new"}) < MaxSessions
             /\ loop' = [loop EXCEPT ![s] = match]
             /\ UNCHANGED <<got, socket, game, slots, inputs, hold, cast, sent>>
             /\ NoFault

\* The token is valid: the socket is entered, and the hold slot is asked for.
Join(s) == /\ Goes(s, "auth", "asked")
           /\ Table([socket EXCEPT ![Owner[s]] = s])
           /\ UNCHANGED <<loop, got, game, slots, inputs, hold, sent>>
           /\ NoFault

\* Redis answers.
GetHold(s) == /\ Goes(s, "asked", "answered")
              /\ got' = [got EXCEPT ![s] = hold[Owner[s]]]
              /\ UNCHANGED <<loop, socket, game, slots, inputs, hold, cast, sent>>
              /\ NoFault

\* Mutant: what was held is added to what the slot has.
MutantAdd(s) == LET old == SlotOf(s)
                IN  SetSlot(s, [moves |-> got[s] + (IF old = None THEN 0 ELSE old.moves),
                                connected |-> TRUE])

\* The slot is what was held, whatever the state has.
RestoreSlot(s) == SetSlot(s, [moves |-> got[s], connected |-> TRUE])

\* No hold slot: a new player, or one the state knows.
EnterSlot(s) == SetSlot(s, IF SlotOf(s) = None THEN NewSlot
                           ELSE [SlotOf(s) EXCEPT !.connected = TRUE])

AddPlayer(s) == /\ \/ /\ got[s] # None
                      /\ RestoreSlot(s)
                      /\ Goes(s, "answered", "deleting")
                   \/ /\ got[s] = None
                      /\ EnterSlot(s)
                      /\ Goes(s, "answered", "open")
                /\ got' = [got EXCEPT ![s] = None]
                /\ UNCHANGED <<loop, socket, game, inputs, hold, cast, sent>>
                /\ NoFault

DeleteHold(s) == /\ Goes(s, "deleting", "open")
                 /\ hold' = [hold EXCEPT ![Owner[s]] = None]
                 /\ UNCHANGED <<loop, got, socket, game, slots, inputs, cast, sent>>
                 /\ NoFault

\* A failing DELETE is passed over; a failing GET ends the handler, which
\* leaves its socket in connected_players.
AddRaises(s) == /\ \/ Goes(s, "asked", "gone") /\ UNCHANGED slots
                   \/ Goes(s, "deleting", "open") /\ EnterSlot(s)
                /\ Fault
                /\ UNCHANGED <<loop, got, socket, game, inputs, hold, cast, sent>>

\* enqueue_input, on the loop the session was given.
Receive(s) == /\ pc[s] = "open" /\ \A p \in Player : sent[p] < MaxInputs
              /\ sent' = [sent EXCEPT ![Owner[s]] = @ + 1]
              /\ inputs' = [inputs EXCEPT ![loop[s]][Owner[s]] = @ + 1]
              /\ UNCHANGED <<sessions, socket, game, slots, hold, cast>>
              /\ NoFault

\* Mutant: the slot is saved from the tick in flight.
MutantSaved(s) == IF loop[s] = match /\ copy[Owner[s]] # None
                  THEN copy[Owner[s]].moves ELSE SlotOf(s).moves

\* What remove_player saves.
SavedSlot(s) == SlotOf(s).moves

\* WebSocketDisconnect: the player's socket is removed, whosever it is by now.
Disconnect(s) == /\ Goes(s, "open", "holding")
                 /\ Table(Without(Owner[s]))
                 /\ got' = [got EXCEPT ![s] = SavedSlot(s)]
                 /\ SetSlot(s, [SlotOf(s) EXCEPT !.connected = FALSE])
                 /\ UNCHANGED <<loop, game, inputs, hold, sent>>
                 /\ NoFault

\* SETEX, or its failure.
SaveHold(s) == /\ Goes(s, "holding", "gone")
               /\ \/ hold' = [hold EXCEPT ![Owner[s]] = got[s]] /\ NoFault
                  \/ UNCHANGED hold /\ Fault
               /\ got' = [got EXCEPT ![s] = None]
               /\ UNCHANGED <<loop, socket, game, slots, inputs, cast, sent>>

\* Any other exception: the player stays in the game, as connected.
Breaks(s) == /\ Goes(s, "open", "gone")
             /\ Table(Without(Owner[s]))
             /\ Fault
             /\ UNCHANGED <<loop, got, game, slots, inputs, hold, sent>>

\* The 30 seconds are over; or a call of the reconnect handler deletes the slot (GET of
\* the slot, GET of the state, DELETE where there is no state): it found one, and no
\* state, some time ago, so that what it deletes may be the slot of a later session.
HoldGoes(p) == /\ hold[p] # None
               /\ hold' = [hold EXCEPT ![p] = None]
               /\ UNCHANGED <<sessions, socket, game, slots, inputs, cast, sent>>
               /\ NoFault

-----------------------------------------------------------------------------
(* _process_tick, end_match and run_matches *)

\* Mutant: the inputs stay in the queue until the tick is published.
MutantPeek == inputs

\* The queue is drained into the copy, whatever becomes of the tick.
Drained == [inputs EXCEPT ![match] = [p \in Player |-> 0]]

\* A player with inputs and no slot gets one.
Computed == [p \in Player |->
               LET old == slots[match][p] n == inputs[match][p]
               IN  IF old = None THEN (IF n = 0 THEN None ELSE [NewSlot EXCEPT !.moves = n])
                   ELSE [old EXCEPT !.moves = @ + n]]

BeginTick == /\ stage = "sleep"
             /\ copy' = Computed
             /\ inputs' = Drained
             /\ stage' = "publish"
             /\ UNCHANGED <<sessions, socket, match, slots, logged, hold, cast, sent>>
             /\ NoFault

\* The event is acknowledged: the copy is written over the slots.
Published == /\ stage = "publish"
             /\ stage' = "store"
             /\ slots' = [slots EXCEPT ![match] =
                              [p \in Player |-> IF copy[p] = None THEN @[p] ELSE copy[p]]]
             /\ logged' = [logged EXCEPT ![match] =
                              [p \in Player |-> IF copy[p] = None THEN @[p] ELSE @[p] \cup {copy[p].moves}]]
             /\ copy' = Empty
             /\ UNCHANGED <<sessions, socket, match, inputs, hold, cast, sent>>
             /\ NoFault

\* The publish fails: the tick is dropped with its inputs.  (That the event may
\* have reached the log is TickCommit's subject.)
NotPublished == /\ stage = "publish"
                /\ stage' = "sleep"
                /\ copy' = Empty
                /\ Fault
                /\ UNCHANGED <<sessions, socket, match, slots, inputs, logged, hold, cast, sent>>

\* Redis has the state; its broadcast starts.  (One still in progress goes on;
\* the second is then left out.)
BeginCast == cast' = IF cast = NoCast
                     THEN [NoCast EXCEPT !.unsent = {p \in Player : socket[p] # None}] ELSE cast

Stored == /\ stage = "store"
          /\ BeginCast
          /\ stage' = "sleep"
          /\ UNCHANGED <<sessions, socket, match, slots, inputs, copy, logged, hold, sent>>
          /\ NoFault

\* A write to Redis raises: the rest of the tick is skipped.
StoreRaises == /\ stage = "store"
               /\ stage' = "sleep"
               /\ Fault
               /\ UNCHANGED <<sessions, socket, match, slots, inputs, copy, logged, hold, cast, sent>>

Left(slot) == IF slot = None THEN None ELSE [slot EXCEPT !.connected = FALSE]

\* The last tick (but not of the last match within the bound): end_match closes
\* the sockets it lists one after another.
LastTick == /\ stage = "store" /\ match < MaxMatches
            /\ BeginCast
            /\ stage' = "ending"
            /\ slots' = [slots EXCEPT ![match] = [p \in Player |-> Left(slots[match][p])]]
            /\ UNCHANGED <<sessions, socket, match, inputs, copy, logged, hold, sent>>
            /\ NoFault

\* They are closed: connected_players is cleared.
ClearTable == /\ stage = "ending"
              /\ stage' = "over"
              /\ Table(Empty)
              /\ UNCHANGED <<sessions, match, slots, inputs, copy, logged, hold, sent>>
              /\ NoFault

\* The match is recorded; run_matches deletes its keys, hold slots excepted, and
\* plays the next match.
NextMatch == /\ stage = "over" /\ match < MaxMatches
             /\ stage' = "sleep"
             /\ match' = match + 1
             /\ UNCHANGED <<sessions, socket, slots, inputs, copy, logged, hold, cast, sent>>
             /\ NoFault

-----------------------------------------------------------------------------
(* broadcast_to_players: players are dropped by name, after the last send *)

\* Mutant: the dead are noted and not dropped.
MutantKeepDead(dead) == UNCHANGED socket

DropDead(dead) == socket' = [p \in Player |-> IF p \in dead THEN None ELSE socket[p]]

\* A send to an ended handler raises; one to a live handler may, if its client
\* has gone.  After the last one, the iteration is over and the dead are dropped.
Send(p) == /\ p \in cast.unsent
           /\ \/ /\ cast.broken
                 /\ cast' = NoCast
                 /\ UNCHANGED socket
              \/ /\ ~cast.broken
                 /\ \E dead \in {cast.dead, cast.dead \cup {p}} :
                        /\ p \in dead \/ pc[socket[p]] # "gone"
                        /\ IF cast.unsent = {p} THEN DropDead(dead) /\ cast' = NoCast
                           ELSE /\ cast' = [cast EXCEPT !.unsent = @ \ {p}, !.dead = dead]
                                /\ UNCHANGED socket
           /\ UNCHANGED <<sessions, game, slots, inputs, hold, sent>>
           /\ NoFault

-----------------------------------------------------------------------------
Handler(s) == \/ Accept(s) \/ Join(s) \/ GetHold(s) \/ AddPlayer(s) \/ DeleteHold(s) \/ AddRaises(s)
              \/ Receive(s) \/ Disconnect(s) \/ SaveHold(s) \/ Breaks(s)

GameLoop == \/ BeginTick \/ Published \/ NotPublished \/ Stored \/ StoreRaises
            \/ LastTick \/ ClearTable \/ NextMatch

Broadcast == \E p \in Player : Send(p)

Next == \/ \E s \in Session : Handler(s)
        \/ \E p \in Player : HoldGoes(p)
        \/ GameLoop \/ Broadcast

\* The game loop ticks and its broadcasts get on; nobody has to come or go.
Spec == Init /\ [][Next]_vars /\ WF_vars(GameLoop) /\ WF_vars(Broadcast)
-----------------------------------------------------------------------------
(* Properties *)

(***************************************************************************)
(* Redis is never ahead of the log, for hold slots too: what remove_player *)
(* saves and add_player restores was in a published event of the match it  *)
(* was saved in or an earlier one, with a tick in flight at any of their   *)
(* awaits (remove_player, add_player, _process_tick).                      *)
(***************************************************************************)
WasPublished(p, n) == n = 0 \/ \E m \in 1 .. match : n \in logged[m][p]
HoldIsPublished == \A p \in Player : hold[p] # None => WasPublished(p, hold[p])

(***************************************************************************)
(* A player is never credited with an input twice, nor with one that was   *)
(* not sent: ticks that fail, restores of a hold slot, sessions that       *)
(* overlap and a new match may lose inputs, but add none (_process_tick,   *)
(* add_player).                                                            *)
(***************************************************************************)
InputsCountOnce == \A m \in Match, p \in Player :
                       slots[m][p] # None => slots[m][p].moves + inputs[m][p] <= sent[p]

(***************************************************************************)
(* A session that has ended does not stay in connected_players: what its   *)
(* own handler left behind, a broadcast finds and drops.  One that breaks  *)
(* off, as another player comes or goes, forgets what it noted; once       *)
(* nobody comes or goes, a later one drops it (broadcast_to_players).      *)
(***************************************************************************)
DeadSocketsLeave == \A p \in Player, s \in Session :
                        (socket[p] = s /\ pc[s] = "gone") ~> (socket[p] # s)
=============================================================================
