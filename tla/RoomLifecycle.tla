--------------------------- MODULE RoomLifecycle ---------------------------
(***************************************************************************)
(* The event loop of one game room replica: the two leadership callbacks   *)
(* and the coroutine that plays matches                                    *)
(* (services/game-room/app/main.py), interleaved at their awaits.  What    *)
(* the election thread may do to is_leader and in which order it announces *)
(* it is taken from Leadership.tla, which LeaderElection.tla implements.   *)
(* A tick and the end of a match are one await each here; TickCommit.tla   *)
(* opens them up.  Who is connected is left out: the handlers only close   *)
(* sockets, and nothing below depends on it.                               *)
(***************************************************************************)
EXTENDS Naturals, Sequences, FiniteSets, Functions

CONSTANTS Self, None, \* this replica, and no replica or loop
          SlowLoads,  \* whether a match may end while a task loads, or comes to play, the state
          Loop,       \* GameLoop objects that can exist at once
          Task,       \* asyncio tasks that can exist at once
          MaxTerms,   \* bound on the times this replica is elected
          MaxFaults   \* bound on failed calls to Redis and shutdowns

ASSUME NoneAssumption == None # Self /\ None \notin Loop
\* A GameLoop can always be created: each task and the global name one at most.
ASSUME EnoughLoops == /\ IsFiniteSet(Loop) /\ IsFiniteSet(Task)
                      /\ Cardinality(Loop) >= Cardinality(Task) + 2
ASSUME BoundAssumption == {MaxTerms, MaxFaults} \subseteq Nat /\ SlowLoads \in BOOLEAN

NoLoop == None

VARIABLES
    holder, isLeader, told, \* the state of Leadership.tla, for this replica
    phase,     \* "up", "stopping" (in shutdown()) or "down"
    gameLoop,  \* the module global game_loop
    loops,     \* running and match_ended of every GameLoop, whether its Kafka thread
               \* polls, and whether its match ended
    task,      \* what each task is about to do, and on which loop
    ready,     \* the event loop's queue: the tasks that can run, in order
    terms, faults \* elections and disturbances so far

election == <<holder, isLeader, told, terms>>
room == <<phase, gameLoop, loops, task, ready, faults>>
vars == <<holder, isLeader, told, phase, gameLoop, loops, task, ready, terms, faults>>

Election == INSTANCE Leadership WITH Replica <- {Self}

(***************************************************************************)
(* Where a task is: "onElected" and "onLost" before _schedule_callback has *)
(* created it, "gained", "lost" and "match" at the first steps of          *)
(* handle_leadership_gained, handle_leadership_lost and run_matches, the   *)
(* others in the await they name.                                          *)
(***************************************************************************)
InMatch == {"announce", "sleep", "tick", "ending", "deleting"}
PC == {"idle", "onElected", "onLost", "gained", "loading", "lost", "closing", "match"} \cup InMatch

At(pc, l) == [pc |-> pc, loop |-> l]
Idle == At("idle", NoLoop)
NewLoop == [running |-> FALSE, ended |-> FALSE, polled |-> TRUE, over |-> FALSE]
LoopState == [running : BOOLEAN, ended : BOOLEAN, polled : BOOLEAN, over : BOOLEAN]

TypeOK == /\ Election!TypeOK
          /\ phase \in {"up", "stopping", "down"}
          /\ gameLoop \in Loop \cup {NoLoop}
          /\ loops \in [Loop -> LoopState]
          /\ task \in [Task -> [pc : PC, loop : Loop \cup {NoLoop}]]
          /\ ready \in Seq(Task) /\ IsInjective(ready)
          /\ terms \in 0 .. MaxTerms
          /\ faults \in 0 .. MaxFaults

Init == /\ Election!Init
        /\ phase = "up"
        /\ gameLoop = NoLoop
        /\ loops = [l \in Loop |-> NewLoop]
        /\ task = [t \in Task |-> Idle]
        /\ ready = <<>>
        /\ terms = 0
        /\ faults = 0

-----------------------------------------------------------------------------
(* Tasks and loops *)

FreeTask == {t \in Task : task[t] = Idle}
\* A loop nothing refers to stands for a new object.
FreeLoop == CHOOSE l \in Loop : l # gameLoop /\ \A t \in Task : task[t].loop # l

\* create_task: the new task is at its first step, behind those created before.
Queued(t) == \E i \in DOMAIN ready : ready[i] = t

\* Mutant: the callback is queued twice.
MutantDispatchTwice(pc) == /\ FreeTask # {}
                           /\ LET t == CHOOSE t \in FreeTask : TRUE
                              IN  /\ task' = [task EXCEPT ![t] = At(pc, NoLoop)]
                                  /\ ready' = ready \o <<t, t>>

\* call_soon_threadsafe: the callback goes to the end of the queue.
Dispatch(pc) == /\ FreeTask # {}
                /\ LET t == CHOOSE t \in FreeTask : TRUE
                   IN  /\ task' = [task EXCEPT ![t] = At(pc, NoLoop)]
                       /\ ready' = Append(ready, t)

\* What task t awaits is done: t goes to the end of the queue.
Wake(t) == /\ task[t] # Idle /\ ~Queued(t)
           /\ ready' = Append(ready, t)
           /\ UNCHANGED <<election, phase, gameLoop, loops, task, faults>>

\* Task t, at pc, is at the head of the queue and runs to its next await or its end.
IsNext(t, pc) == ready # <<>> /\ Head(ready) = t /\ task[t].pc = pc
Runs(t, pc) == IsNext(t, pc) /\ ready' = Tail(ready)
\* The same, creating a task: the new one takes its place, at the end of the queue.
Creates(t, pc) == IsNext(t, pc) /\ ready' = Append(Tail(ready), t)

Suspend(t, pc, l) == task' = [task EXCEPT ![t] = At(pc, l)]
Finish(t) == task' = [task EXCEPT ![t] = Idle]

Fault == faults < MaxFaults /\ faults' = faults + 1
NoFault == UNCHANGED faults

\* The loops, less those that nothing refers to any more.
Collect(table) ==
    loops' = [l \in Loop |-> IF l = gameLoop' \/ \E t \in Task : task'[t].loop = l
                             THEN table[l] ELSE NewLoop]

\* GameLoop.stop, which ends the thread that polls for this loop's publishes.
Stopped(l) == IF l = NoLoop THEN loops
              ELSE [loops EXCEPT ![l] = [@ EXCEPT !.running = FALSE, !.ended = TRUE,
                                                  !.polled = FALSE]]

\* GameLoop.run, up to its first await; on None the attribute error ends the task.
Run(t, l) ==
    IF l = NoLoop THEN Finish(t) /\ UNCHANGED loops
    ELSE Suspend(t, "announce", l) /\ Collect([loops EXCEPT ![l].running = TRUE])

-----------------------------------------------------------------------------
(* The election thread, and the callbacks it dispatches *)

Elect == /\ phase # "down" /\ terms < MaxTerms
         /\ Election!Acquire(Self) /\ isLeader'[Self]
         /\ terms' = terms + 1
         /\ UNCHANGED room

\* The event loop cannot tell when the key is gone, only when the belief is.
Release == /\ phase # "down" /\ ~isLeader[Self]
           /\ Election!Release
           /\ UNCHANGED <<terms, room>>

Resign == /\ phase # "down"
          /\ Election!Resign(Self)
          /\ UNCHANGED <<terms, room>>

OnElected == /\ phase # "down"
             /\ Election!TellElected(Self)
             /\ Dispatch("onElected")
             /\ UNCHANGED <<phase, gameLoop, loops, terms, faults>>

OnLost == /\ phase # "down"
          /\ Election!TellLost(Self)
          /\ Dispatch("onLost")
          /\ UNCHANGED <<phase, gameLoop, loops, terms, faults>>

-----------------------------------------------------------------------------
(* handle_leadership_gained *)

\* _schedule_callback: create_task.
ScheduleCallback(t) ==
    /\ \/ Creates(t, "onElected") /\ Suspend(t, "gained", NoLoop)
       \/ Creates(t, "onLost") /\ Suspend(t, "lost", NoLoop)
    /\ UNCHANGED <<election, phase, gameLoop, loops, faults>>

\* The current loop is playing: a new leadership starts nothing.
AlreadyRunning == gameLoop # NoLoop /\ loops[gameLoop].running

Gained(t) ==
    /\ Runs(t, "gained")
    /\ \/ /\ AlreadyRunning
          /\ Finish(t)
          /\ UNCHANGED <<gameLoop, loops>>
       \/ /\ ~AlreadyRunning
          /\ gameLoop' = FreeLoop
          /\ Suspend(t, "loading", FreeLoop)
          /\ Collect(loops)
    /\ UNCHANGED <<election, phase, faults>>

\* load_state returns: run_matches gets what the global names by then.
Loaded(t) == /\ Creates(t, "loading")
             /\ Suspend(t, "match", gameLoop)
             /\ UNCHANGED <<election, phase, gameLoop, faults>>
             /\ Collect(loops)

\* load_state raises: the failure is logged, and no task is created.
LoadFails(t) == /\ Runs(t, "loading")
                /\ Finish(t)
                /\ Fault
                /\ UNCHANGED <<election, phase, gameLoop>>
                /\ Collect(loops)

-----------------------------------------------------------------------------
(* handle_leadership_lost *)

Lost(t) == /\ Runs(t, "lost")
           /\ gameLoop' = NoLoop
           /\ Suspend(t, "closing", NoLoop)
           /\ Collect(Stopped(gameLoop))
           /\ UNCHANGED <<election, phase, faults>>

\* The sockets are closed.
Closed(t) == /\ Runs(t, "closing")
             /\ Finish(t)
             /\ UNCHANGED <<election, phase, gameLoop, loops, faults>>

-----------------------------------------------------------------------------
(* run_matches and GameLoop.run *)

Match(t) == /\ Runs(t, "match")
            /\ UNCHANGED <<election, phase, gameLoop, faults>>
            /\ Run(t, task[t].loop)

\* The loop's condition: another tick, or run() returns.
KeepsRunning(l) == loops[l].running /\ ~loops[l].ended

\* Mutants: one half of the check is missing; nothing starts the next match.
MutantIgnoreGlobal(l) == isLeader[Self]
MutantIgnoreLeader(l) == gameLoop = l
MutantNeverContinues(l) == FALSE

\* The check of run_matches: a match follows if this loop is current and leads.
Continues(l) == gameLoop = l /\ isLeader[Self]

\* The condition is met after the first publish and after every tick's sleep.
BeginTick(t) == /\ Runs(t, "announce") \/ Runs(t, "sleep")
                /\ KeepsRunning(task[t].loop)
                /\ Suspend(t, "tick", task[t].loop)
                /\ UNCHANGED <<election, phase, gameLoop, loops, faults>>

\* A tick that is not the last is done, whatever became of it.
EndTick(t) == /\ Runs(t, "tick")
              /\ Suspend(t, "sleep", task[t].loop)
              /\ UNCHANGED <<election, phase, gameLoop, loops, faults>>

\* Mutant: end_match sets match_ended alone.
MutantStillRunning(t) == /\ Runs(t, "tick")
                         /\ ~loops[task[t].loop].ended
                         /\ loops' = [loops EXCEPT ![task[t].loop].ended = TRUE]
                         /\ Suspend(t, "ending", task[t].loop)
                         /\ UNCHANGED <<election, phase, gameLoop, faults>>

\* The last tick calls end_match, which does nothing on a loop already stopped.
LastTick(t) == /\ Runs(t, "tick")
               /\ ~loops[task[t].loop].ended
               /\ SlowLoads \/ \A u \in Task : task[u].pc \notin {"loading", "match"}
               /\ loops' = [loops EXCEPT ![task[t].loop] =
                                [@ EXCEPT !.running = FALSE, !.ended = TRUE, !.over = TRUE]]
               /\ Suspend(t, "ending", task[t].loop)
               /\ UNCHANGED <<election, phase, gameLoop, faults>>

\* match.end is published and recorded; the loop sleeps once more.
Recorded(t) == /\ Runs(t, "ending")
               /\ Suspend(t, "sleep", task[t].loop)
               /\ UNCHANGED <<election, phase, gameLoop, loops, faults>>

RunReturns(t) == /\ Runs(t, "announce") \/ Runs(t, "sleep")
                 /\ ~KeepsRunning(task[t].loop)
                 /\ IF Continues(task[t].loop)
                    THEN Suspend(t, "deleting", task[t].loop)
                    ELSE Finish(t)
                 /\ UNCHANGED <<election, phase, gameLoop, faults>>
                 /\ Collect(loops)

\* The keys of the match are gone: a new loop, never loaded, plays the next.
NextMatch(t) == /\ Runs(t, "deleting")
                /\ gameLoop' = FreeLoop
                /\ Run(t, FreeLoop)
                /\ UNCHANGED <<election, phase, faults>>

\* The deletion raises, which ends the task.
DeleteFails(t) == /\ Runs(t, "deleting")
                  /\ Finish(t)
                  /\ Fault
                  /\ UNCHANGED <<election, phase, gameLoop>>
                  /\ Collect(loops)

-----------------------------------------------------------------------------
(* shutdown() *)

\* The loop is stopped, the global keeps it, and the election is told to stop.
Shutdown == /\ phase = "up"
            /\ phase' = "stopping"
            /\ loops' = Stopped(gameLoop)
            /\ Fault
            /\ UNCHANGED <<election, gameLoop, task, ready>>

\* The election thread is done, or no longer waited for: the process ends.
Exit == /\ phase = "stopping"
        /\ phase' = "down"
        /\ Election!Quit(Self)
        /\ gameLoop' = NoLoop
        /\ loops' = [l \in Loop |-> NewLoop]
        /\ task' = [t \in Task |-> Idle]
        /\ ready' = <<>>
        /\ UNCHANGED <<terms, faults>>

-----------------------------------------------------------------------------
Step(t) == \/ ScheduleCallback(t) \/ Gained(t) \/ Loaded(t) \/ LoadFails(t) \/ Lost(t) \/ Closed(t)
           \/ Match(t) \/ BeginTick(t) \/ EndTick(t) \/ LastTick(t) \/ Recorded(t)
           \/ RunReturns(t) \/ NextMatch(t) \/ DeleteFails(t)

Announce == OnElected \/ OnLost

Next == \/ Elect \/ Release \/ Resign \/ Announce \/ Shutdown \/ Exit
        \/ \E t \in Task : Wake(t) \/ Step(t)

\* A publish nobody polls for: its answer comes only if another loop's thread sees it.
Unpolled(t) == task[t].pc \in {"announce", "tick", "ending"} /\ ~loops[task[t].loop].polled

(***************************************************************************)
(* What is awaited gets done, except a publish nobody polls for; the event *)
(* loop runs the head of its queue, the election thread announces what     *)
(* happened (Leadership's fairness), and a match that keeps ticking        *)
(* reaches its last tick.                                                  *)
(***************************************************************************)
Fairness == /\ \A t \in Task : WF_vars(~Unpolled(t) /\ Wake(t))
            /\ WF_vars(\E t \in Task : Step(t))
            /\ SF_vars(\E t \in Task : LastTick(t))
            /\ WF_vars(Announce)

Spec == Init /\ [][Next]_vars /\ Fairness
-----------------------------------------------------------------------------
(* Properties *)

Playing(t) == task[t].pc \in {"announce", "sleep", "tick"}
              /\ KeepsRunning(task[t].loop)

(***************************************************************************)
(* handle_leadership_gained declines to start a loop only when a task is   *)
(* really playing the current one: it never finds game_loop.running left   *)
(* set by a match that ended, was stopped or lost its task.                *)
(***************************************************************************)
RefusalIsJustified ==
    phase = "up" /\ ready # <<>> /\ task[Head(ready)].pc = "gained" /\ AlreadyRunning
        => \E t \in Task : task[t].loop = gameLoop /\ Playing(t)

(***************************************************************************)
(* run_matches erases the saved match only after that match reached its    *)
(* end: while the process is up, a loop stopped by a loss of leadership,   *)
(* even one followed by a new election, never gets there.                  *)
(***************************************************************************)
ErasesOnlyFinishedMatch ==
    phase = "up" => \A t \in Task : task[t].pc = "deleting" => loops[task[t].loop].over

(***************************************************************************)
(* A replica that stays leader keeps playing: some task ticks again and    *)
(* again, whatever leaderships were won and lost before, unless a call     *)
(* failed or a shutdown began (handle_leadership_gained, run_matches).     *)
(***************************************************************************)
LeaderPlays == <>[](isLeader[Self] /\ phase = "up" /\ faults = 0)
                   => []<>(\E t \in Task : task[t].pc = "tick")

(***************************************************************************)
(* A replica that stays without leadership ends up playing nothing, even   *)
(* if a match was started after the loss: that match is its last.  All     *)
(* that may be left of run_matches are tasks that wait for a publish of a  *)
(* loop whose polling thread stop() has ended.                             *)
(***************************************************************************)
FallsSilent == <>[]~isLeader[Self]
                   => <>[](\A t \in Task : task[t].pc \in InMatch => Unpolled(t))
=============================================================================
