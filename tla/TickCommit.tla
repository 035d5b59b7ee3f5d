----------------------------- MODULE TickCommit -----------------------------
(***************************************************************************)
(* How a tick is committed, Kafka first and Redis second, and how a new    *)
(* leader picks the match up (services/game-room/app/game_loop.py, with    *)
(* the loop of run_matches in main.py around it).                          *)
(*                                                                         *)
(* The actors are terms of leadership: the run_matches task that one       *)
(* election starts, on whatever replica won it.  A term whose lease is     *)
(* gone may go on next to its successor.  Every call to Kafka or Redis is  *)
(* a step of its own; the players of a state are abstracted to `at', the   *)
(* position in the log of the event they were published in.  Left out:     *)
(* the replay checkpoints, the other rooms on the same topic (cold start   *)
(* applies their events too), shutdown() and a replica elected again while *)
(* an old match goes on (both in RoomLifecycle.tla).                       *)
(***************************************************************************)
EXTENDS Naturals, Sequences, FiniteSets

CONSTANTS Term, None,  \* terms of leadership, and no term, state or offset
          Duration,    \* match_duration_ticks
          Faults,      \* the kinds of disturbance a run allows
          MaxFaults, MaxLog, MaxMatches \* bounds

FaultKind == {"crash", "pause", "keepalive", "kafka", "deadline", "redis", "redisLoss"}

ASSUME NoneAssumption == None \notin Term
ASSUME ConstantAssumption == /\ {Duration, MaxFaults, MaxLog, MaxMatches} \subseteq Nat
                             /\ Faults \subseteq FaultKind

VARIABLES
    log,      \* the topic match-events: the tick and the match of each event
    redis,    \* match:{id}:state and match:{id}:last_offset
    results,  \* what was published as match.end
    shown,    \* the tick last broadcast to players
    holder,   \* the term that holds the leader key
    role,     \* what a term's replica knows of its leadership
    pc,       \* where a term is in its coroutine
    mem,      \* self.state and last_committed_kafka_offset of its GameLoop
    flying,   \* whether an event it produced is on its way to the log
    at,       \* where that event arrived, 0 before
    stray,    \* events that may reach the log (again), though nobody waits for them
    matches, clock, \* matches begun, and values of time.time() used
    faults

kafka == <<log, flying, at, stray>>
leadership == <<holder, role>>
counters == <<matches, clock>>
vars == <<log, redis, results, shown, holder, role, pc, mem, flying, at, stray, matches, clock, faults>>

(***************************************************************************)
(* "resigned": is_leader is false and on_lost has not run yet.  "stopped": *)
(* on_lost has stopped the loop.  "rogue": it did, before run_matches      *)
(* installed the loop that plays.                                          *)
(***************************************************************************)
Role == {"follower", "leader", "resigned", "stopped", "rogue"}

Loading == {"getState", "getOffset", "replay"}
Writing == {"setState", "setOffset"}
PC == {"waiting", "ready", "sent", "ending", "over", "erase", "done", "crashed"}
        \cup Loading \cup Writing

Event == [tick : Nat, match : Nat]
Snapshot == [tick : Nat, match : Nat, at : Nat]
Memory == [tick : Nat, match : Nat, at : Nat, offset : Nat, startedAt : Nat]

LogOK == log \in Seq(Event) /\ stray \subseteq Event /\ shown \in Nat
         /\ results \subseteq [match : Nat, tick : Nat, startedAt : Nat]
RedisOK == redis \in [state : Snapshot \cup {None}, offset : Nat \cup {None}]
TermOK == /\ role \in [Term -> Role]
          /\ pc \in [Term -> PC]
          /\ flying \in [Term -> BOOLEAN]
          /\ at \in [Term -> Nat]
MemOK == mem \in [Term -> Memory]
CountersOK == /\ holder \in Term \cup {None}
              /\ matches \in Nat /\ clock \in Nat
              /\ faults \in 0 .. MaxFaults
TypeOK == LogOK /\ RedisOK /\ TermOK /\ MemOK /\ CountersOK

\* A GameState just constructed.
Fresh(match) == [tick |-> 0, match |-> match, at |-> 0, offset |-> 0, startedAt |-> clock]
NoRedis == [state |-> None, offset |-> None]

Init == /\ log = <<>>
        /\ redis = NoRedis
        /\ results = {}
        /\ shown = 0
        /\ holder = None
        /\ role = [t \in Term |-> "follower"]
        /\ pc = [t \in Term |-> "waiting"]
        /\ mem = [t \in Term |-> [tick |-> 0, match |-> 1, at |-> 0, offset |-> 0, startedAt |-> 0]]
        /\ flying = [t \in Term |-> FALSE]
        /\ at = [t \in Term |-> 0]
        /\ stray = {}
        /\ matches = 1 /\ clock = 1
        /\ faults = 0

-----------------------------------------------------------------------------
Goes(t, from, to) == pc[t] = from /\ pc' = [pc EXCEPT ![t] = to]
Remembers(t, state) == mem' = [mem EXCEPT ![t] = state]
Becomes(t, r) == role' = [role EXCEPT ![t] = r]

Fault(kind) == kind \in Faults /\ faults < MaxFaults /\ faults' = faults + 1
NoFault == UNCHANGED faults

-----------------------------------------------------------------------------
(* Leadership (Leadership.tla, by terms) *)

\* Elected: handle_leadership_gained makes a GameLoop and begins to load it.
Elect(t) == /\ holder = None
            /\ holder' = t
            /\ Goes(t, "waiting", "getState")
            /\ Becomes(t, "leader")
            /\ Remembers(t, Fresh(matches))
            /\ clock' = clock + 1
            /\ UNCHANGED <<redis, results, shown, kafka, matches>>
            /\ NoFault

\* The key goes with a term that is over, or under a leader that was paused.
KeyGone == /\ holder # None
           /\ \/ NoFault /\ (pc[holder] = "crashed" \/ role[holder] \in {"resigned", "stopped", "rogue"})
              \/ Fault("pause")
           /\ holder' = None
           /\ UNCHANGED <<redis, results, shown, role, pc, mem, kafka, counters>>

\* The election thread sees that the key is gone, or a keepalive fails.
Resign(t) == /\ role[t] = "leader" /\ pc[t] # "crashed"
             /\ IF holder = t THEN Fault("keepalive") ELSE NoFault
             /\ Becomes(t, "resigned")
             /\ UNCHANGED <<redis, results, shown, holder, pc, mem, kafka, counters>>

\* handle_leadership_lost stops the loop; what it has begun, it finishes.
Stop(t) == /\ role[t] = "resigned" /\ pc[t] # "crashed"
           /\ Becomes(t, "stopped")
           /\ UNCHANGED <<redis, results, shown, holder, pc, mem, kafka, counters>>
           /\ NoFault

Crash(t) == /\ pc[t] \notin {"waiting", "crashed"}
            /\ Fault("crash")
            /\ pc' = [pc EXCEPT ![t] = "crashed"]
            /\ UNCHANGED <<redis, results, shown, leadership, mem, kafka, counters>>

-----------------------------------------------------------------------------
(* load_state *)

\* run_matches(None) ends at once: that is what a stopped term has left.
Loaded(t) == IF role[t] = "stopped" THEN "done" ELSE "ready"

GetState(t) ==
    /\ \/ /\ redis.state = None
          /\ Goes(t, "getState", "replay")
          /\ UNCHANGED mem
       \/ /\ redis.state # None
          /\ Goes(t, "getState", "getOffset")
          /\ Remembers(t, [mem[t] EXCEPT !.tick = redis.state.tick, !.at = redis.state.at,
                                         !.match = redis.state.match])
    /\ UNCHANGED <<redis, results, shown, leadership, kafka, counters>>
    /\ NoFault

\* Mutant: a state alone is taken as complete.
MutantStateAlone(t) == /\ Goes(t, "getOffset", Loaded(t))
                       /\ Remembers(t, [mem[t] EXCEPT !.offset = redis.offset])
                       /\ UNCHANGED <<redis, results, shown, leadership, kafka, counters>>
                       /\ NoFault

GetOffset(t) ==
    /\ \/ /\ redis.offset = None
          /\ Goes(t, "getOffset", "replay")
          /\ UNCHANGED mem
       \/ /\ redis.offset # None
          /\ Goes(t, "getOffset", Loaded(t))
          /\ Remembers(t, [mem[t] EXCEPT !.offset = redis.offset])
    /\ UNCHANGED <<redis, results, shown, leadership, kafka, counters>>
    /\ NoFault

IsHighestTick(tick, count) == /\ \E i \in 1 .. count : log[i].tick = tick
                              /\ \A i \in 1 .. count : log[i].tick <= tick

\* The first events of the topic: of this match or of an earlier one, the players
\* of the last and the highest tick.
Applied(t, count) ==
    \/ /\ count = 0
       /\ Remembers(t, [Fresh(matches) EXCEPT !.startedAt = mem[t].startedAt])
    \/ \E i \in 1 .. count :
           /\ IsHighestTick(log[i].tick, count)
           /\ Remembers(t, [tick |-> log[i].tick, match |-> log[count].match, at |-> count,
                            offset |-> count, startedAt |-> mem[t].startedAt])

\* Every event is applied; when the deadline passes, or the topic has no partitions
\* yet, what has been applied by then counts as the state.
Replay(t) ==
    /\ Goes(t, "replay", Loaded(t))
    /\ \/ Applied(t, Len(log)) /\ NoFault
       \/ Fault("deadline") /\ \E count \in 0 .. Len(log) : count < Len(log) /\ Applied(t, count)
    /\ UNCHANGED <<redis, results, shown, leadership, kafka, counters>>

\* A call raises: no task is created, and the leader plays nothing.
LoadFails(t) == /\ pc[t] \in Loading
                /\ Fault("redis") \/ Fault("kafka")
                /\ pc' = [pc EXCEPT ![t] = "done"]
                /\ UNCHANGED <<redis, results, shown, leadership, mem, kafka, counters>>

-----------------------------------------------------------------------------
(* _process_tick *)

NextEvent(t) == [tick |-> mem[t].tick + 1, match |-> mem[t].match]

Send(t) == /\ role[t] # "stopped"
           /\ Goes(t, "ready", "sent")
           /\ flying' = [flying EXCEPT ![t] = TRUE]
           /\ at' = [at EXCEPT ![t] = 0]
           /\ UNCHANGED <<log, stray, redis, results, shown, leadership, mem, counters>>
           /\ NoFault

\* The producer (acks=all, not idempotent) may have sent it more than once.
MayComeAgain(event) == stray' = stray \cup {event}

\* The broker appends the event, whatever has become of its producer.
Arrive(t) == /\ flying[t] /\ Len(log) < MaxLog
             /\ log' = Append(log, NextEvent(t))
             /\ at' = [at EXCEPT ![t] = Len(log')]
             /\ flying' = [flying EXCEPT ![t] = FALSE]
             /\ \/ UNCHANGED stray /\ NoFault
                \/ MayComeAgain(NextEvent(t)) /\ Fault("kafka")
             /\ UNCHANGED <<redis, results, shown, leadership, pc, mem, counters>>

\* It appends one that was reported as failed, or that it has already.
ArriveLate(event) == /\ Len(log) < MaxLog
                     /\ log' = Append(log, event)
                     /\ UNCHANGED <<redis, results, shown, leadership, pc, mem, flying, at, stray, counters>>
                     /\ NoFault

Advanced(t) == [tick |-> mem[t].tick + 1, match |-> mem[t].match, at |-> at[t],
                offset |-> at[t], startedAt |-> mem[t].startedAt]

\* Mutants: players see the tick before Redis has it; a failed publish counts.
MutantShowFirst(t) == /\ at[t] # 0
                      /\ Goes(t, "sent", "setState")
                      /\ Remembers(t, Advanced(t))
                      /\ shown' = mem[t].tick + 1
                      /\ UNCHANGED <<redis, results, leadership, kafka, counters>>
                      /\ NoFault
MutantIgnoreNack(t) == /\ Goes(t, "sent", "setState")
                       /\ Fault("kafka")
                       /\ flying' = [flying EXCEPT ![t] = FALSE]
                       /\ Remembers(t, Advanced(t))
                       /\ UNCHANGED <<log, stray, redis, results, shown, leadership, at, counters>>
MutantAdvanceOnNack(t) == /\ Goes(t, "sent", "ready")
                          /\ Fault("kafka")
                          /\ flying' = [flying EXCEPT ![t] = FALSE]
                          /\ Remembers(t, [mem[t] EXCEPT !.tick = @ + 1])
                          /\ UNCHANGED <<log, stray, redis, results, shown, leadership, at, counters>>

\* The delivery is acknowledged: the tick becomes the state in memory.
Ack(t) == /\ at[t] # 0
          /\ Goes(t, "sent", "setState")
          /\ Remembers(t, Advanced(t))
          /\ UNCHANGED <<redis, results, shown, leadership, kafka, counters>>
          /\ NoFault

\* It is reported failed, in the log, on its way or neither: the next tick has the same
\* number.
Nack(t) == /\ Goes(t, "sent", "ready")
           /\ Fault("kafka")
           /\ flying' = [flying EXCEPT ![t] = FALSE]
           /\ MayComeAgain(NextEvent(t))
           /\ UNCHANGED <<log, redis, results, shown, leadership, mem, at, counters>>

StateOf(t) == [tick |-> mem[t].tick, match |-> mem[t].match, at |-> mem[t].at]
StateSet(t) == [redis EXCEPT !.state = StateOf(t)]
OffsetSet(t) == [redis EXCEPT !.offset = mem[t].offset]

SetState(t) == /\ Goes(t, "setState", "setOffset")
               /\ redis' = StateSet(t)
               /\ UNCHANGED <<results, shown, leadership, mem, kafka, counters>>
               /\ NoFault

\* Mutant: the match ends a tick early.
MutantEndsEarly(t) == mem[t].tick + 1 >= Duration /\ role[t] # "stopped"

\* end_match runs at the last tick; stop() has set match_ended before it.
Ends(t) == mem[t].tick >= Duration /\ role[t] # "stopped"

\* The state is broadcast once both keys are written.
SetOffset(t) == /\ Goes(t, "setOffset", IF Ends(t) THEN "ending" ELSE "ready")
                /\ redis' = OffsetSet(t)
                /\ shown' = mem[t].tick
                /\ UNCHANGED <<results, leadership, mem, kafka, counters>>
                /\ NoFault

\* A write raises, done or not: the rest of the tick is skipped, end_match too.
RedisFails(t) == /\ \/ Goes(t, "setState", "ready") /\ redis' \in {redis, StateSet(t)}
                    \/ Goes(t, "setOffset", "ready") /\ redis' \in {redis, OffsetSet(t)}
                 /\ Fault("redis")
                 /\ UNCHANGED <<results, shown, leadership, mem, kafka, counters>>

-----------------------------------------------------------------------------
(* end_match and run_matches *)

\* The publish of match.end may fail: that is logged and no more.
EndMatch(t) ==
    /\ Goes(t, "ending", "over")
    /\ \/ /\ results' = results \cup {[match |-> mem[t].match, tick |-> mem[t].tick,
                                       startedAt |-> mem[t].startedAt]}
          /\ NoFault
       \/ Fault("kafka") /\ UNCHANGED results
    /\ UNCHANGED <<redis, shown, leadership, mem, kafka, counters>>

\* run() returns; run_matches goes on if this loop is current and leads.
RunReturns(t) == /\ \/ Goes(t, "over", IF role[t] = "leader" THEN "erase" ELSE "done")
                    \/ role[t] = "stopped" /\ Goes(t, "ready", "done")
                 /\ UNCHANGED <<redis, results, shown, leadership, mem, kafka, counters>>
                 /\ NoFault

\* The keys are deleted and the next match begins, whoever leads by then.
NextMatch(t) == /\ matches < MaxMatches
                /\ Goes(t, "erase", "ready")
                /\ redis' = NoRedis
                /\ matches' = matches + 1
                /\ Remembers(t, Fresh(matches'))
                /\ clock' = clock + 1
                /\ IF role[t] = "stopped" THEN Becomes(t, "rogue") ELSE UNCHANGED role
                /\ UNCHANGED <<results, shown, holder, kafka>>
                /\ NoFault

EraseFails(t) == /\ Goes(t, "erase", "done")
                 /\ Fault("redis")
                 /\ UNCHANGED <<redis, results, shown, leadership, mem, kafka, counters>>

-----------------------------------------------------------------------------
\* Redis loses one of the keys, or both.
RedisLoss == /\ Fault("redisLoss")
             /\ redis' \in {NoRedis, [redis EXCEPT !.state = None], [redis EXCEPT !.offset = None]}
             /\ UNCHANGED <<results, shown, leadership, pc, mem, kafka, counters>>

Step(t) == \/ Elect(t) \/ Resign(t) \/ Stop(t) \/ Crash(t)
           \/ GetState(t) \/ GetOffset(t) \/ Replay(t) \/ LoadFails(t)
           \/ Send(t) \/ Arrive(t) \/ Ack(t) \/ Nack(t)
           \/ SetState(t) \/ SetOffset(t) \/ RedisFails(t)
           \/ EndMatch(t) \/ RunReturns(t) \/ NextMatch(t) \/ EraseFails(t)

Next == KeyGone \/ RedisLoss \/ (\E event \in stray : ArriveLate(event)) \/ \E t \in Term : Step(t)

Spec == Init /\ [][Next]_vars
-----------------------------------------------------------------------------
(* Properties *)

(***************************************************************************)
(* "Redis can never be ahead of the log" (docs/architecture.md): what      *)
(* Redis holds was published as the tick it says it is, and the offset it  *)
(* holds is of an event that is there, with any number of leaders writing  *)
(* the two keys (_process_tick, _update_redis).                            *)
(***************************************************************************)
StateIsLogged == redis.state # None =>
                     /\ redis.state.at \in DOMAIN log
                     /\ log[redis.state.at].tick = redis.state.tick
                     /\ log[redis.state.at].match = redis.state.match
OffsetIsLogged == redis.offset # None => redis.offset <= Len(log)
RedisNeverAheadOfLog == StateIsLogged /\ OffsetIsLogged

(***************************************************************************)
(* A result is published only for a match whose last tick is in the log,   *)
(* and only when it lasted match_duration_ticks (end_match).               *)
(***************************************************************************)
ResultsAreLogged ==
    \A r \in results : /\ r.tick >= Duration
                       /\ \E i \in DOMAIN log : log[i].tick = r.tick /\ log[i].match = r.match

(***************************************************************************)
(* No tick of a match is skipped: before each event of the log there is    *)
(* one of the same match with the tick before.                             *)
(***************************************************************************)
NoGap == \A i \in DOMAIN log :
             log[i].tick = 1 \/ \E j \in 1 .. i - 1 : /\ log[j].match = log[i].match
                                                      /\ log[j].tick = log[i].tick - 1

(***************************************************************************)
(* A failover does not take the clock of the match back: a leader that     *)
(* plays starts from the tick that was last broadcast, or a later one      *)
(* (load_state), for crashes, lost keys and failing calls, where terms do  *)
(* not overlap and no replay meets its deadline.  It is the tick only:     *)
(* load_state takes the players of the last event, and one that arrives    *)
(* late may have older ones.                                               *)
(***************************************************************************)
NoRollback == \A t \in Term : holder = t /\ pc[t] = "ready" => mem[t].tick >= shown

(***************************************************************************)
(* "`processed_matches` makes the second one a no-op" (docs/architecture.md*)
(* on a match.end delivered twice): a match has one started_at, the key    *)
(* the leaderboard knows it by, in every match.end.                        *)
(***************************************************************************)
OneResultPerMatch == \A r, s \in results : r.match = s.match => r.startedAt = s.startedAt
=============================================================================
