# A TLA+ development of the multiplayer platform

The repository is a set of Python services for short online matches: players log in (`auth`), ask for
a match (`matchmaking`), are sent to a game room (`game-room`, several replicas per room, one of them
leader), and the result goes to a `leaderboard` and a `replay` archive over Kafka. An `etcd-watcher`
turns the addresses leaders publish in etcd into an NGINX map. The specifications here model the parts
of it that coordinate: who leads, how a tick is committed, how lobbies are made and rooms handed out, how results are
counted once, what the replay archive may lack, which session counts, who hears of a match, how routes follow
leaders. All paths below are relative to `src/`.

## Inventory

`GR` is `services/game-room/app`.

| Component | State it keeps | Operations | Talks to |
|---|---|---|---|
| Leader election `GR/leader_election.py` | lease handle, `is_leader`, `_stop`, `etcd_ok`; in etcd the leader key, the address key, leases | campaign, serve, wait for release, lose leadership, clean up | etcd; dispatches `on_elected` and `on_lost` to the event loop of `main.py` |
| Room lifecycle `GR/main.py` | globals `game_loop`, `election`, connection dictionaries | `handle_leadership_gained`, `handle_leadership_lost`, `run_matches`, startup, shutdown | creates and stops `GameLoop`s, deletes Redis keys |
| Game loop `GR/game_loop.py` | `GameState`, `last_committed_kafka_offset`, input queue, `running`, `match_ended` | load, cold start, tick, commit, broadcast, end of match, players and hold slots | Kafka `match.events`, `match.lifecycle`, `match.telemetry`; Redis; room pool |
| Room sessions `GR/ws_handler.py`, `GR/spectator_buffer.py` | sockets by player, a ring of past states | accept, receive, disconnect, delayed broadcast | the game loop it captured when it was accepted |
| Room pool `GR/room_pool.py`, `services/matchmaking/app/room_manager.py` | `/rooms/available/{id}` in etcd | register, remove, list, claim by compare-and-swap | etcd, from rooms and matchmaking workers |
| Matchmaking `services/matchmaking/app` | waiting requests, `_pending_lobbies`, `_scale_up_deficit` | queue, consume, expire, retry, match by Elo, assign | RabbitMQ, auth, room pool, Kubernetes |
| Leaderboard `services/leaderboard/app` | `players`, `processed_matches` in PostgreSQL; Kafka offset | consume, apply in one transaction, commit | Kafka `match.lifecycle` |
| etcd-watcher `services/etcd-watcher/app/main.py` | last set of routes, pending set, debounce timer, NGINX map | watch, resync, debounced write | etcd, file system |
| Replay `services/replay/app/main.py` | `match_events` in memory, checkpoints in PostgreSQL, archive in MinIO, Kafka offsets | consume two topics, checkpoint, finalise, read, seek | Kafka, PostgreSQL, MinIO; game rooms read its checkpoints |
| Auth `services/auth/app` | players in PostgreSQL, `player_session:{id}` in Redis | register, login, refresh, logout, validate | PostgreSQL, Redis; matchmaking and the sockets ask it |
| Notification `services/notification/app/main.py` | `client_connections` of each replica | accept, dispatch, disconnect, consume again | RabbitMQ, auth, Redis |
| Reconnect handler, analytics | nothing; counters | answer with state and leader address; count | Redis, etcd, auth; Kafka |

What makes each of them correct, and what makes that hard:

* **Election.** One believer per live lease; addresses follow leaders; keys do not outlive their owners;
  a free key is taken. Hard: every etcd call can fail before or after it took effect, a thread can pause
  past its lease, and the callbacks run in another thread later.
* **Room lifecycle.** The leader plays, a follower does not, a match that is not over is not erased.
  Hard: three kinds of coroutine share one global across awaits.
* **Tick commit.** Kafka first, then Redis, then players; Redis never ahead of the log; no tick skipped;
  no failover takes the clock of the match back. Hard: a crash between any two calls, deliveries that arrive long after they were
  reported failed or arrive twice, a replay cut short by its deadline, two leaders writing the same two keys.
* **Matchmaking.** A room is handed out once, a request is in one place, nobody waits who could play, the scale-up deficit
  is the backlog. Hard: several workers, a transaction whose answer is lost, exceptions in the middle of a tick, lobbies that
  are dissolved while others are still being filled.
* **Leaderboard.** A result counts once and does not get lost. Hard: two transactions over the same rows, an
  offset committed separately, rebalances that leave a consumer working on a partition it no longer owns.
* **etcd-watcher.** The file converges to what etcd holds. Hard: two threads resync, loads fail half
  way, the write is debounced and may fail.
* **Replay.** An archive holds what was polled; a checkpoint shortens a cold start and does not change it. Hard: two topics without
  an order between them, offsets committed whatever became of the events, memory that a crash takes.
* **Auth.** The newest session counts, and only that one, until it expires. Hard: the handlers of one player overlap, their
  reads and writes of Redis interleave, a write fails after it took effect; a queued join carries a token that may be replaced meanwhile, if it was queued at all.
* **Notification.** Who stays connected hears; who left is forgotten. Hard: two replicas take from one queue, a
  dispatch goes on after its message went back to it, sockets come, go and are replaced between two sends.

`PROJECT.json` lists the hazards one by one, at their lines, with the properties that cover them.

## Plan

1. `Leadership`, `LeaderElection` and its proofs: everything else in a room depends on them. *Done.*
2. `RoomLifecycle`, over the contract of `Leadership`. *Done.*
3. `TickCommit` and its proofs. *Done.*
4. `Leaderboard`, `Matchmaking`, `Watcher`, and the proofs of `Watcher`. *Done.*
5. `PlayerSlots`: sockets, input queue, hold slots and the reconnect handler around a tick in flight, and its proofs. *Done.*
6. `Replay`: events, checkpoints and the end of a match on two topics, with the automatic commit, and its proofs. *Done.*
7. `Sessions`: register, login, refresh, logout, validate and the queue's joins, over Redis, and its proofs. *Done.*
8. `match_tick` and the deficit in `Matchmaking`. *Done.*
9. `Notification`, and its proofs. *Done.*
10. The remaining safety invariants as theorems: those of `RoomLifecycle`, `Leaderboard` and `Matchmaking`, `OneFailureLeavesNoKey`, `NoGap`, `NoRollback`, `ResultsAreLogged`,
    `InputsCountOnce`, `CheckpointOnlyShortens`. *Done.*
11. The spectators' buffer and their delayed broadcast; the read and patch of replicas by two workers (`k8s_client.py`).

## Modules

    Leadership  <-- implemented by --  LeaderElection  <-- LeaderElectionProofs
        |
        +-- assumed by  RoomLifecycle         TickCommit  <-- MCTickCommit, TickCommitProofs
                                              (roles of Leadership, by terms)
                                                   |
    Replay      <-- ReplayProofs    <-- reads the log that TickCommit's properties describe
    RoomLifecycle <-- RoomLifecycleProofs     Matchmaking  <-- MCMatchmaking, MatchmakingProofs
    Leaderboard <-- MCLeaderboard, LeaderboardProofs
    Watcher     <-- LeaderElectionProofs      PlayerSlots  <-- MCPlayerSlots, PlayerSlotsProofs
    Sessions    <-- MCSessions, SessionsProofs
    Notification <-- MCNotification, MatchmakingProofs

The `MC` modules add a symmetry set or a constant for TLC; the `Proofs` modules hold theorems. `Watcher` follows the addresses that the
leaders of `LeaderElection` publish, and `Notification` delivers what `Matchmaking` announces; each pair is proved about in one module. `Watcher`'s and
`Matchmaking`'s definitions have names of their own (`WatcherSpec`, `MatchmakingSpec`, `Fails`, `WorkerCrash`), so that one module can extend both.

**Leadership** is the abstract contract of `LeaderElection`: at most one holder of the key, beliefs that begin
with holding it, the two callbacks strictly in turn, false beliefs that do not last. It knows no lease and no call.

**LeaderElection** models the thread of `leader_election.py` per replica, one step per etcd call, `pc` naming the call to
come (`campaign`, `grant`, `txn`, `publish`, `serve`, `refresh`, `await`, then `resign1-2` for `_lose_leadership` and
`clean1-4` for `_cleanup`). `live` is etcd's leases; a lease carries away the keys attached to it (`Without`). `CampaignFails`
covers a failure of the grant or of the transaction, with or without effect; `Overrun` a pause longer than the TTL;
`Crash` and `StepDown` the end of the process, `Start` its return under the same `INSTANCE_ID`.

**RoomLifecycle** models one replica's event loop: `ready` is asyncio's queue of runnable tasks, `task` says at which
await each task is, `loops` holds `running` and `match_ended` of each `GameLoop` and whether its Kafka thread polls (`polled`). A step runs the head of the queue to its
next await. Which leadership changes may come, and in which order they are announced, is taken from an instance
of `Leadership` with this replica alone. `SlowLoads` says whether a load of the state, with the step from its end to the loop it is for, may outlast the rest of a match.

**TickCommit** models `load_state`, `_process_tick`, `_update_redis`, `end_match` and `run_matches` for successive *terms* of
leadership. `log` is `match.events`; a state is abstracted to its match, its tick and `at`, the position of the event that
published it. `Send`, `Arrive`, `Ack` and `Nack` separate producing an event, its arrival and what the producer is told; `stray` are events that may
arrive though nobody waits for them, after a reported failure or a second time (`ArriveLate`). `Replay` applies the whole log or, when its deadline passes, a part of it. `shown` is the tick last broadcast.
`SetState` and `SetOffset` are the two writes to Redis. `role` is what a term's replica knows: after `KeyGone` the old
term goes on until its election thread resigns and `on_lost` stops the loop; `rogue` is the loop that `run_matches`
installs after that (`GR/main.py:82-88`).

**Leaderboard** models `process_event` and `apply_match` statement by statement: the insert into `processed_matches` waits for
another transaction's insert of the same key, `FOR UPDATE` locks one row after another, the updates and the COMMIT are
one step whose answer may be lost, and the offset is committed after it. `Assign` is a rebalance, which may leave the
former owner at work; a commit that fails ends the consumer thread (`stopped`), as the code does.

**Matchmaking** models `consume`, `matchmaker_loop`, `_assign_lobby` and `claim_available_room` of several workers, and the registrations of
rooms. `stage`, `todo` and `still` are where a tick is; `claim` is the room search in progress, from the listing to the
notification. `MatchTick` is `match_tick`: anchors in order of Elo and arrival, windows that widen with every tick, lobbies that stay too
small dissolved; how many ticks a request has waited is chosen freely. `deficit` is `_scale_up_deficit`, which each worker counts up and
down over its lobbies that wait for a room. `handed` counts claims since the last registration; `lost` are the requests a failing call left nowhere, `doubled` those it may have left in two places.

**Watcher** models `resync` in two threads (`Load`, `Store`), the debounce timer (`TimerFires`) and `write_upstream_config`
(`WriteFile`). `spoilt` is set while the file may be stale with nobody to notice: after a failed write, or after a restart.

**PlayerSlots** opens up what `TickCommit` abstracts: who is in the game. `pc` follows each websocket handler through its awaits (the
token, `GET` and `DELETE` of the hold slot, open, `SETEX`), with the game loop it was given when it was accepted (`loop`). `copy` is
`next_players` of the tick in flight, `slots` is `state.players`, `hold` the hold slots in Redis, `HoldGoes` their expiry or the reconnect
handler's delete. A slot is abstracted to the number of its player's inputs it reflects. `cast` is a broadcast iterating over `connected_players`:
it breaks off when an entry comes or goes meanwhile, and otherwise drops the players it could not reach, by name.

**Replay** models `consume_events`, `save_checkpoint`, `load_latest_checkpoint` and `finalize_replay` for one room, whose matches share a `match_id`. An event is its
position in the log; `held` is `match_events[mid]`, `saved` the checkpoints by tick, `archive` the object in MinIO. The room publishes as
`TickCommit`'s properties say (`Publish`, `EndMatch`): no tick is skipped, but any tick may be published again, by a leader that took over from a Redis several ticks behind. `Crash` restarts from any offset that the automatic
commit may have reached. `ColdStart` is `_cold_start_replay` of the game room over the newest checkpoint and as much of the log as it has read by its deadline. `excused` collects what a crash or a failed load left out.

**Sessions** follows each call of one player (`request`) through its statements: `Check`, `CreateToken`, `StoreSession` and `Logout` are the points
where it looks at or changes PostgreSQL and Redis, each with a failing variant, before or after its effect (`CreatePlayerFails`, `BeginFails`, `StoreFails`, `LogoutFails`); `Queue` and `Consume` are matchmaking's
two validations of a join, `QueueLoses` the join for which there was no broker, `Expire` the queue's TTL; `since` is when a join was queued. A token is its player and
the second it was issued in. `alone` are the calls nothing overlapped, `expected` what their client may then rely on.

**Notification** models each replica's event loop: `Accept`, `Validate`, `Disconnect` and `Break` for a socket's handler, `Take`, `Sent` and `Handled` for the consumer, which awaits one
`send_text` after another (`next`, `target`). `ConnectionLost` puts the message back while the dispatch goes on (`TooLate` is its end), `Rejected` is the failing
publish to Redis, `Crash` takes sockets and table. `owed` are the sockets that were there when a message was taken and have not received it.

## Runs

| Run | Instance | Properties and what they show |
|---|---|---|
| `election` | 2 replicas, 3 leases, 3 disturbances | `LeaseSafety`, `AddressStaysPublished`, `OneFailureLeavesNoKey`, the refinement `ImplementsLeadership` with its liveness, `Takeover` |
| `room_callbacks` | 3 tasks, 5 loops, 2 terms, 1 disturbance | `RefusalIsJustified`, `ErasesOnlyFinishedMatch`, `LeaderPlays`, `FallsSilent` |
| `commit_match` | 1 match of 2 ticks, 3 terms, 4 faults (no deadline, no overlap), log of 7 | `RedisNeverAheadOfLog`, `NoGap`, `NoRollback` |
| `commit_room` | 2 matches, 2 overlapping terms, 2 faults, log of 5 | `RedisNeverAheadOfLog`, `ResultsAreLogged` |
| `leaderboard` | 2 consumers, 2 matches over 3 players (one unknown), 3 messages, 3 faults | `StatsMatchProcessed`, `CommittedIsApplied`, `EveryResultCounts` |
| `matchmaking` | 2 workers, 4 requests at two ratings, 2 rooms, 1 failure, 1 registration | `ClaimedOnce`, `RequestInOnePlace`, `DeficitIsBacklog`, `NobodyLeftWhoCouldPlay` |
| `watcher` | 2 addresses, 2 changes, 2 faults | `SkippingIsSafe`, `RoutesConverge` |
| `players` | 2 players, the first with 2 sessions, 2 sessions in all, 2 matches, 1 input, 1 fault | `HoldIsPublished`, `InputsCountOnce`, `DeadSocketsLeave` |
| `replay` | 2 matches of 3 ticks, a checkpoint every 2, log of 4, 3 faults | `OnlyCrashesLoseEvents`, `CheckpointOnlyShortens` |
| `sessions` | 1 player, 4 calls, sessions of 2 seconds, a queue TTL of 1, 3 seconds, 1 fault | `OneCallSettlesIt`, `OnlyNewCallsRefuseJoins` |
| `notification` | 2 replicas, 2 players, 3 sockets, 1 message, 2 faults | `SteadySocketHears`, `LeftSocketsGo`, `MessagesAreDone` |
| `commit_results` | 1 match, 2 terms, 1 crash | violated, see below |

Each module's type invariant is checked in one run of it and proved, or only proved (`Replay`, `Sessions`, `Notification`).

*Why these bounds.* Two replicas and three lease handles let a campaign begin while another replica's lease lives on or has been
lost; three disturbances are one more than `OneFailureLeavesNoKey` tolerates. Three tasks are a match and both callbacks at
once; two terms allow lost-and-regained. A match of two ticks has a first and a last one; three terms with four faults give a
crash in the successor's takeover and a loss of Redis on top; seven events are enough for every tick to be published three times.
Two consumers and two matches with two shared players are what a deadlock or a lost update takes; the third message is the
duplicate. Four requests make two lobbies of two for two rooms, so that workers compete and one lobby can stay pending. Two address
changes with two threads let an older set be stored after a newer one. Two sessions of one player overlap in every way, and one of each player meet
in the table of sockets, where the coming or going of one breaks off a broadcast to the other; the second match shows what a hold slot carries over, and does not end, so that
broadcasts go on. Two pairs of requests whose ratings are one widening apart make lobbies of two, of three and of four, by how long they wait. Three ticks with a
checkpoint every two leave a tick after the newest checkpoint; four events are a match and one tick of the next, or a match in which an older tick comes again after newer ones; three faults are a crash, a failed load after it, and another crash. Four calls of one
player are two that overlap and two that come before, between or after (players share nothing); a session of two seconds can expire before, during and after a
call, and a join outlive its queue or not. Two sockets of one player and one of another, with a message to both, are replaced and lost on one replica or spread over two; a second message would add nothing, as a
replica dispatches one at a time; two faults take both replicas off the queue before anyone has taken it. Every counter has its bound among the constants
(`Max...`), except where the state is bounded by itself; the remaining abstraction of time is named below.

*Deadlock* is checked in `election`, whose processes can always start again; elsewhere the bounds, or the end of the process, really stop the system.

*Fairness.* `LeaderElection`: threads keep running (each etcd call returns or raises) and etcd ends leases nobody refreshes. No
process is obliged to start. `RoomLifecycle`: awaits complete, except those of a publish nobody polls for (`stop()` ends its loop's Kafka thread, `GR/game_loop.py:61`; another loop's thread may still serve it, as all share one producer); the event loop runs the head of its queue, and a match that
ticks again and again reaches its last tick (a counter increases with each tick that is published; strong fairness of `LastTick`, for some task, stands for
it, as the tick number is left out). `Leaderboard`: consumers run, the group coordinator gives away the partition of a dead
member, processes are restarted (by Kubernetes; `docker-compose.yml` gives the leaderboard no restart policy), and a row lock that is released again and again is granted (PostgreSQL queues
waiters). `Watcher`: the minute passes (`time.sleep(60)`, which is why only the periodic thread's load is fair), threads run,
the timer fires. `PlayerSlots`: the game loop ticks and broadcasts get on; no player has to come or go. `Notification`: handlers and consumers get on, calls return or raise,
and Starlette tells a handler that its client left; no client and no message has to come. Faults are never fair, and everywhere bounded, so that what follows the last one is checked too.

## Where the code does not do what it says

One run shows a violation of what a document of the repository states (`findings` in `PROJECT.json`):

* `commit_results`: a leader that dies after `match.end` leaves a successor that publishes it again with another `started_at`,
  which the leaderboard takes for another match (`GR/models.py:19`, `docs/architecture.md:62`).

Others were met while modelling and are part of the models, without a run of their own:

* a leadership lost while `run_matches` deletes the keys leaves a follower playing a match (`GR/main.py:82`); `FallsSilent` says that it is the last one;
* `stop()` ends the thread that polls for the loop's publishes (`GR/game_loop.py:467`): a publish awaited after that, `match_start` of a `run()` that begins only then or `match_end` of
  a match that was about to end, may never return, and its task never ends (`Unpolled`). `FallsSilent` leaves nothing else behind;
* a hold slot is saved without the inputs still queued or in the tick in flight; restoring it puts the player back behind
  what was published (`GR/game_loop.py:214`, `docs/architecture.md:60`); `HoldIsPublished` says no more than that it was published;
* a leadership lost and regained while the state loads makes the first callback go on with the second one's loop, which is then run
  twice: `load_state` is followed by a second look at the global (`GR/main.py:68`); `Loaded` in `RoomLifecycle`. When that loop's match is
  over by then, the late `run` sets `running` again (`GR/game_loop.py:251`) and returns at once; if the room does not lead at that moment, `running`
  stays set with nothing under way, and the next election is refused a loop (`GR/main.py:61`): a leader that plays nothing. This takes a load
  slower than the rest of a match: `room_callbacks` with `SlowLoads = TRUE`, `MaxTerms = 3` and `MaxFaults = 0` violates `LeaderPlays` and `RefusalIsJustified`;
  the run in the project assumes no such load;
* a cold start applies the events of earlier matches of the room, and goes on past their last tick (`GR/game_loop.py:180`,
  `docs/architecture.md:59`); `commit_match`, which checks `NoGap`, has one match;
* a player who joins or leaves while a tick is being published gets the `connected` of before (`GR/game_loop.py:311`); the late disconnect of
  an older session takes a newer one out of `connected_players` (`GR/ws_handler.py:73`); the clearing of that table at the end of a match forgets
  sessions that joined while the sockets were being closed (`GR/game_loop.py:428`). All three are in `PlayerSlots`, which therefore
  claims that ended sessions leave the table, and not that live ones stay;
* hold slots outlive the match: a player of the next one in the same room starts where the last one ended (`GR/main.py:85`); hence
  `InputsCountOnce` counts the inputs of all matches;
* a failed put of the leader address is never repeated (`GR/leader_election.py:110`); `PutFails` in `LeaderElection`;
* a failing `load_state` or `redis.delete` leaves a leader that plays nothing (`GR/main.py:67`, `:85`); `LoadFails`, `DeleteFails`; for this
  reason `LeaderPlays` excludes executions in which a call fails;
* `shutdown` stops the loop first, which `run_matches` may take for the end of the match and erase its state (`GR/main.py:120`);
  `ErasesOnlyFinishedMatch` speaks of a process that is up;
* a leader that finds both keys in Redis does not read the log from the saved offset, so ticks acknowledged after the last write are
  published again (`GR/game_loop.py:96`, `docs/architecture.md:58`); hence `NoGap` instead of "each tick once";
* players can go back at a failover (`docs/architecture.md:58`): an event of a term that died, or one reported as failed, may reach the log after its successor's, which then reads 1, 2, 1 in ticks; a cold start takes the
  highest tick and the players of the last event (`GR/game_loop.py:170`). The same goes for a Redis several ticks behind, from which ticks are played and published again. `NoRollback` speaks of the clock of the match only;
* a cold start that meets its deadline of 60 seconds, or a topic without partitions, takes what it has applied so far for the state (`GR/game_loop.py:130`, `:148`), and plays on from there, behind what was shown; `Replay` with the
  fault `deadline`, which `NoRollback` excludes and the other properties of `TickCommit` do not;
* `get_prefix` failing in the middle of a matchmaking tick places lobbies twice (`services/matchmaking/app/main.py:180`, `doubled`) or loses them (`:197`, `lost`); a failed notification
  loses its lobby (`:147`, `lost`), or, when the broker has it after all, sends the lobby to a room that is given to another one as well; a request that is redelivered after it was added is in two places (`:99`, `doubled`);
* requests that expire, are refused, or whose lobby runs out of retries are dropped, and their players are not told (`services/matchmaking/app/main.py:105`, `:187`); a
  join whose token was replaced by a login or a refresh while it was queued likewise (`OnlyNewCallsRefuseJoins` says that with the session left alone a token that was good when queued is good when taken);
* a join is answered as queued when there is no broker to queue it (`services/matchmaking/app/main.py:65-85`, `:244`; `QueueLoses`); one that waits for 60 seconds is taken from the queue, and what is then sent as `match.expired`
  has the token but no player, so that nobody can be told (`scripts/rabbitmq_setup.py:22`; `Expire`); one whose token auth does not answer about is dropped (`services/matchmaking/app/auth_client.py:4`; `ConsumeFails`);
* a player who queues twice can be matched with himself; the gauge `queue_depth` is not decremented for lobbies that time out; after a failed listing a lobby is
  counted out of the deficit twice (`services/matchmaking/app/main.py:190`), when the tick had already taken it from the backlog: `DeficitIsBacklog` holds through all other failures, until a request is `doubled`;
* `ensure_game_rooms` reads the replicas and patches them: two workers can scale down what the other scaled up, and a stale `_current_target_replicas` skips
  a scale-up that is needed (`services/matchmaking/app/k8s_client.py:32-39`); not modelled;
* a failed write of the NGINX map is not repeated until the routes change (`services/etcd-watcher/app/main.py:65`); `spoilt`;
* a replay archive is in general not the whole match (`docs/architecture.md:18`): the loop polls the two topics in turn with a timeout each, which handles fewer events per second than a room
  publishes, so that `match.end` is read before the last events, which then go into the archive of the next match, as does the checkpoint of the match before
  (`services/replay/app/main.py:140`). `OnlyCrashesLoseEvents` is what the code does provide;
* a failed put to MinIO drops the events of the match (`services/replay/app/main.py:155`); the consumer thread has no handler for exceptions;
* the checkpoint of an earlier match of a room hides the first ticks of the next one from a cold start (`GR/game_loop.py:154`), and the players it starts with need not be those of its tick; `CheckpointOnlyShortens` says no more than
  that the checkpoint does not change the tick, nor lets a cold start end before it;
* a logout ends whichever session is the current one, and a refresh that has passed its check stores a session after a logout (`services/auth/app/main.py:67`); two logins within a
  second return the same token. `OneCallSettlesIt` speaks of calls that nothing overlaps;
* notifications reach the sockets of the replica that took the message only: nobody subscribes to the Redis channels `notifications:*` (`services/notification/app/main.py:83`,
  `docs/architecture.md:21`); the late disconnect of an older socket, or a failed send to it, removes the newer one of its player (`:87`, `:130`). `SteadySocketHears` excludes both.

## Proofs

TLAPS checks these theorems, for every value of the constants that satisfies the named assumptions of the modules
(`None` is no member of the other sets, the bounds are natural numbers). No set need be finite, except the tasks and loops of `RoomLifecycle`
(`EnoughLoops`: more loops than tasks and the global can refer to), so that there is always a new one. Three theorems have hypotheses of their own, named below:
`NoTickSkipped`, `NoStepBack` and `RefusalJustified`.

**`LeaderElectionProofs`.** `TypeCorrect`, `LeaseSafe` (`LeaseSafety`), `NoTwoLiveLeaders` (two replicas that both believe they lead cannot both have a live lease),
`AddressKept` (`AddressStaysPublished`) and `ImplementsContract`, the safety half of `ImplementsLeadership`: initial states and steps of
`LeaderElection` are those of `Leadership`, or stutters. `LeaseSafety` alone is not inductive. The invariant adds that no two replicas hold the same lease handle (or a
refresh would keep another's key alive), that a thread believes it leads exactly between a successful transaction and its resignation, and what the last callback told (so that the two alternate).

`CleansUp` (`OneFailureLeavesNoKey`) counts disturbances. A key goes with its lease (`Attached`), so what is left behind lies under a lease its owner no longer holds (`Orphan`) or
escaped a revocation and a deletion. `Debris` says how many calls or processes must have failed for each: one to stop, one to leave an orphan (`OrphanIsFault`), one for each clean-up call that did not
take effect (`LeftIsFault`); a key of a process that is through with its clean-up takes three.

`WatcherInvariant`, from which `WatcherTypeCorrect` and `SkipSafe` (`SkippingIsSafe`). Added: while the timer is set, nothing is spoilt
(`ArmedIsSound`), because whatever failed before will be written over when it fires.

**`RoomLifecycleProofs`.** `RoomInvariant`, from which `TypeCorrect` (which includes that no task is queued twice) and `ErasesFinished` (`ErasesOnlyFinishedMatch`). Loops are recycled when nothing refers to
them, so the invariant says that all others are as new (`OthersAreNew`); whoever is in a match has started its loop (`LoopsAreStarted`); and, while the process is up, the loop the global names
ends only with its match (`CurrentEndsOver`), which is what `run_matches` relies on when it deletes the keys. Every step of a task has one form (`StepForm`: one task placed anew, a table of loops, the unnamed
ones as new), and one lemma shows that sound steps of that form keep the invariant.
`RefusalJustified` (`RefusalIsJustified`) assumes `~SlowLoads`: a current loop that runs is played by a task (`RunningIsPlayed`), and nobody is about to play one that has ended (`EndedIsLeft`). With slow loads the property is
false, see above.

**`TickCommitProofs`.** `CommitInvariant`, from which `TypeCorrect` and `RedisBehindLog` (`RedisNeverAheadOfLog`). That Redis is behind the
log needs two facts about what is under way: what a term takes for acknowledged is in the log (`SentIsLogged`), and what it is about to write to
Redis is what it took from there (`WriteIsLogged`); so a write that arrives late, from a term long replaced, is still of something logged.

`ResultsTrue` (`ResultsAreLogged`): a term about to report has had its last tick acknowledged and has played the whole duration (`EndIsLogged`), with any overlap of leaders.

`NoTickSkipped` (`NoGap`) is about a room's first match (`OneMatch`: `MaxMatches <= 1`): whatever a term would go on from, fresh, replayed or read from Redis, is of a tick in the log (`MemInLog`), so the next event leaves no gap.
`NoStepBack` (`NoRollback`) besides assumes that terms do not overlap (`Apart`: the faults `pause` and `keepalive` do not occur; crashes, failing calls, lost keys and late or repeated deliveries may): only the term that holds the key is under way (`Alone`),
and Redis, what it plays from, what it has sent and the highest tick of the log are no older than the tick shown (`NothingOlder`); and that no replay meets its deadline (`Complete`). None of the hypotheses can be dropped: with `MaxMatches = 2` TLC violates both properties, and with any of the three faults `NoRollback`.
Events that arrive late or twice are covered (`stray`): they may be behind the log's last tick, not ahead of its highest plus one. `TypeOK`, `RedisNeverAheadOfLog` and
`ResultsAreLogged` are proved without them.

**`PlayerSlotsProofs`.** `HoldPublished` (`HoldIsPublished`). A hold slot is written from what a handler has in hand, which was a slot of its game loop, which a
published tick or another hold slot has written: the invariant says of all three that they were published, and that a
handler that saves a slot finds one.

`InputsCorrect` (`InputsCountOnce`): what any slot, hold slot, handler or tick in flight credits a player with must fit beside the inputs that are still queued (`Credited`), those of its match and those of the current one,
because a hold slot carries from one to the other; a match that has not begun has neither sessions nor inputs (`NothingBefore`). `TypeCorrect` is its consequence: that moves stay within the bound on inputs is not a fact of any single step.

**`ReplayProofs`.** `ReplayInvariant`, from which `ReplayTypeCorrect` and `ArchiveLosesOnlyByCrashes` (`OnlyCrashesLoseEvents`). The property speaks of archives that are written; the invariant speaks of
what is remembered before (`PolledIsRemembered`): every event polled since the memory was last dropped is in memory, or, when there is none, in the checkpoint that would be loaded, or excused. That
the newest checkpoint is one of those saved takes the well-foundedness of the natural numbers (`MaxIsIn`).

`ColdStartsAgree` (`CheckpointOnlyShortens`): a checkpoint ends with an event of the tick it is saved at (`CheckpointsEndAtTick`), whether it is complete or not. So the events that a cold start leaves out are of ticks no higher than one that it applies, and the highest
is the same; and the last event it applies is either one of a later tick than the checkpoint's or the checkpoint's last. In which order ticks are in the log does not matter.

**`SessionsProofs`.** `SessionsInvariant`, from which `SessionsTypeCorrect`, `OneCallSettles` (`OneCallSettlesIt`) and `OnlyNewCallsRefuse` (`OnlyNewCallsRefuseJoins`). Redis' key outlives the token in it (`SessionOutlivesToken`), or a
valid token would be refused; what an undisturbed call settled is what Redis holds (`ExpectedIsCurrent`), which a call that overlaps makes unclear; and an undisturbed join has its player's
session, with no call under way that would change it (`JoinsStand`).

**`LeaderboardProofs`.** `TypeCorrect`, `StatsCorrect` (`StatsMatchProcessed`) and `CommittedCorrect` (`CommittedIsApplied`). A row is written from a value read earlier, so `Transactions` says what a consumer holds meanwhile: the insert of the
match it applies, which nobody has processed (`InsertHeld`), and, of every row it has locked, a value that is still the row's (`ReadIsFresh`). `Deliveries` says that the owner of the partition has settled, applied or given up, all it has read but the
message in hand; what it commits is therefore settled, and a former owner commits nothing.

**`MatchmakingProofs`.** `MatchmakingTypeCorrect`, and:

* `NobodyLeft` (`NobodyLeftWhoCouldPlay`), about `match_tick` for any ratings, lobby sizes and number of requests. `Lobbies` is a recursive function whose equation is proved first (`LobbiesRecursion`, by the least counterexample, as is the rest): lobbies are only added, disjoint and
  large enough (`LobbiesSound`). The first, in the order of Elo, of some requests that could play would have found all the others unused when its turn came, and closer than its range; so its lobby was large enough, and it did not stay.
* `RoomsClaimedOnce` (`ClaimedOnce`): an available room has not been claimed since it was registered (`AvailableIsNew`).
* `RequestsPlaced` (`RequestInOnePlace`): `OnePlace` says of a request that exactly one place, of all kinds at all workers, holds it; each step leaves it, moves it from the only place it is in, or loses it and says so (`lost`). A tick that fails while it retries starts again from the backlog,
  so `LoopSound` says that what is retried comes from there, with the same members, and `OneLobby` that a request is in one lobby of it.
* `DeficitKept` (`DeficitIsBacklog`): while a worker retries, the deficit is what it has not come to, what waits on and the lobby in hand (`Waiting`). It rests on `RequestsPlaced`: a lobby that begins to wait is not among those that wait, or its members
  would be in two places, and a set would count it once. Failed announcements and crashes are among its steps; it ends with the first request that may be in two places.

And about `Notification`: `NotificationInvariant`, from which `NotificationTypeCorrect` and `SteadyHears` (`SteadySocketHears`). The only socket of a player on a replica is in its table (`LoneSocketIsListed`), which
rests on every entry being of its own player and replica; the replica that has to acknowledge a message is dispatching it (`HolderDispatches`); and a socket that has not heard is the one awaited or
behind it in the list (`OwedAreAhead`).

## Model-checked only

Liveness is out of the prover's reach and is checked by TLC: `Takeover`, the fairness half of `ImplementsLeadership`, `LeaderPlays`, `FallsSilent`, `EveryResultCounts`, `RoutesConverge`, `DeadSocketsLeave`, `LeftSocketsGo`, `MessagesAreDone`.
All invariants and action properties of the passing runs are proved, `NoGap`, `NoRollback` and `RefusalIsJustified` under the hypotheses above, which the runs that check them satisfy as well.

## Abstractions, and what is not modelled

* Time: a TTL, a TTL/3 wait, a debounce or a retry delay is a step that may come at any time, with three exceptions: without `SlowLoads` a
  match does not end while a load is pending; the file write of the watcher is over before its next timer; and a lease that is being
  refreshed runs out only by a disturbance.
* Players: `TickCommit` abstracts the players of a state to the event they were published in; telemetry and the checkpoints that shorten a
  cold start are left out, as are the events of other rooms on the topic. In `RoomLifecycle` the sockets that
  the lost callback closes are left out, and `PlayerSlots` has one leader: a failover in the middle of a session is in neither.
* `PlayerSlots` lets a hold slot expire or be deleted by the reconnect handler at any time (`HoldGoes`), which is more than the code does. It follows one broadcast at a time: one that starts before the last is over is left out. A publish reported as failed has not
  reached the log there, which `TickCommit` does not assume.
* `NoRollback` and `NoGap` are checked where terms follow each other (crashes, failing calls, late deliveries, losses of Redis), replays that meet their deadline excepted. With two leaders at
  once the later writer of Redis wins, whoever it is; only `RedisNeverAheadOfLog` and `ResultsAreLogged` are claimed there.
* Elo, averages and scores are one counter (`total`), which is read and written at the same places.
* `match_tick` is computed for what its Elo windows tell apart; how many ticks a request has waited is any number up to two, which is
  more than the loop allows, and rooms are tried in any order.
* `Replay` has one room; a message that cannot be parsed is left out, and so are `get_replay` and `seek_replay`, which only read.
* `Sessions` leaves out the records `session:{id}`, written and deleted next to `player_session:{id}` and read by nobody. Bcrypt and signatures are taken to tell right from wrong.
* `Notification`: what is published to Redis matters only when it fails, as nobody subscribes; validation by auth says yes or no freely.
* Not modelled: spectators and what they see, a state that may be less delayed than promised while the buffer fills (`GR/spectator_buffer.py:20`); the polling thread of each game loop (`GR/game_loop.py:75`);
  the sockets a lost leadership closes (`GR/main.py:55`); Elo arithmetic (floating point); match records and analytics (they store and count, nothing reads back what they decide, except checkpoints, which
  `Replay` has); Kubernetes scaling beyond the deficit; the browser client, deployment, scripts and monitoring (no coordination logic of their own, or pure I/O).
