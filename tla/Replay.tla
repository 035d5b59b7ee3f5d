------------------------------- MODULE Replay -------------------------------
(***************************************************************************)
(* The replay service (services/replay/app/main.py): one process that      *)
(* reads match.events and match.lifecycle in turn, keeps the events of a   *)
(* match in memory, saves them to PostgreSQL at every checkpoint tick and  *)
(* archives them in MinIO when it reads the end of the match.  Its offsets *)
(* are committed automatically, whatever has become of the events.  With   *)
(* it, the cold start of a game room (game_loop.py), which begins with the *)
(* checkpoint that this service saved.                                     *)
(* One room: its matches follow each other under one match_id, and its     *)
(* events are in one partition.  An event is its position in the log.      *)
(***************************************************************************)
EXTENDS Naturals, Sequences, FiniteSetsExt, Functions

CONSTANTS
    Ticks,     \* match_duration_ticks
    Interval,  \* checkpoint_interval
    None,
    MaxMatches, MaxEvents, MaxFaults  \* bounds

ASSUME SizeAssumption == /\ Ticks \in Nat \ {0} /\ Interval \in Nat \ {0}
                         /\ MaxMatches \in Nat /\ MaxEvents \in Nat /\ MaxFaults \in Nat
ASSUME NoneAssumption == None \notin Seq(Nat)

VARIABLES
    log,       \* match.events: the match and the tick of each event
    ends,      \* match.lifecycle: how many matches have ended
    pc,        \* whether consume_events comes to "poll" or to "save"
    read,      \* the last event polled
    readEnds,  \* the last match.end polled
    kept,      \* the offset of match.events the process started from
    keptEnds,  \* that of match.lifecycle
    held,      \* match_events[mid], or None
    saved,     \* replay_checkpoints: the events saved at a tick, <<>> if none
    archive,   \* {match_id}/replay.json, the match it was written for, and the
               \* events polled for it; or None
    since,     \* what was polled last when the memory of a match was dropped
    excused,   \* events that a crash or a failed load left out of the memory
    faults

topics == <<log, ends>>
offsets == <<read, readEnds, kept, keptEnds>>
vars == <<log, ends, pc, read, readEnds, kept, keptEnds, held, saved, archive, since, excused, faults>>

Match == 1 .. MaxMatches
Tick == 1 .. Ticks + 1   \* bound: one tick is played after the last, no more
Event == [match : Match, tick : Tick]
EventList == Seq(1 .. Len(log))

TypeOK == /\ log \in Seq(Event) /\ Len(log) <= MaxEvents
          /\ ends \in 0 .. MaxMatches
          /\ pc \in {"poll", "save"}
          /\ read \in 0 .. Len(log) /\ kept \in 0 .. read
          /\ readEnds \in 0 .. ends /\ keptEnds \in 0 .. readEnds
          /\ held = None \/ held \in EventList
          /\ saved \in [Tick -> EventList]
          /\ archive = None \/ archive \in [match : Match, from : 0 .. Len(log), upto : 0 .. Len(log),
                                             events : EventList]
          /\ since \in 0 .. read
          /\ excused \subseteq 1 .. Len(log)
          /\ faults \in 0 .. MaxFaults

Init == /\ log = <<>> /\ ends = 0
        /\ pc = "poll"
        /\ read = 0 /\ readEnds = 0 /\ kept = 0 /\ keptEnds = 0
        /\ held = None
        /\ saved = [t \in Tick |-> <<>>]
        /\ archive = None
        /\ since = 0
        /\ excused = {} /\ faults = 0

Fault == faults < MaxFaults /\ faults' = faults + 1
NoFault == UNCHANGED <<excused, faults>>

-----------------------------------------------------------------------------
(* The room, as TickCommit has it: no tick is skipped, and any tick may be *)
(* published again: by a leader that took over from a Redis several ticks  *)
(* behind, by one that starts the next match or cold, or because it        *)
(* arrives late.  A match ends after its last tick; one more is played     *)
(* when Redis fails at the last, and when a leader dies before it has      *)
(* erased a match that ended: the next one ends it again.                  *)

TicksOf(events) == {log[p].tick : p \in events}
Highest(ticks) == Max({0} \cup ticks)

NextTicks == Tick \cap 1 .. Highest(TicksOf(1 .. Len(log))) + 1

Publish(t) == /\ Len(log) < MaxEvents /\ ends < MaxMatches
              /\ t \in NextTicks
              /\ log' = Append(log, [match |-> ends + 1, tick |-> t])
              /\ UNCHANGED <<ends, pc, offsets, held, saved, archive, since>>
              /\ NoFault

EndMatch == /\ \E p \in 1 .. Len(log) : log[p].match = ends + 1 /\ log[p].tick >= Ticks
            /\ ends' = ends + 1
            /\ UNCHANGED <<log, pc, offsets, held, saved, archive, since>>
            /\ NoFault

-----------------------------------------------------------------------------
(* Checkpoints *)

CheckpointTicks == {t \in Tick : saved[t] # <<>>}

\* load_latest_checkpoint: ORDER BY tick DESC LIMIT 1.
LatestCheckpoint == IF CheckpointTicks = {} THEN <<>> ELSE saved[Max(CheckpointTicks)]

\* match_events[mid] before an event is appended to it.
\* Mutant: what was saved is not looked for.
MutantStartEmpty == IF held = None THEN <<>> ELSE held

Remembered == IF held = None THEN LatestCheckpoint ELSE held

-----------------------------------------------------------------------------
(* consume_events polls the two topics in turn; as each poll may time out, *)
(* an event and a match.end come in any order.                             *)

AfterAppend(p) == IF log[p].tick % Interval = 0 THEN "save" ELSE "poll"

\* consumer.poll returns an event, which is appended.
TakeEvent == /\ pc = "poll" /\ read < Len(log)
             /\ read' = read + 1
             /\ held' = Append(Remembered, read')
             /\ pc' = AfterAppend(read')
             /\ UNCHANGED <<topics, readEnds, kept, keptEnds, saved, archive, since>>
             /\ NoFault

\* The same after a load that failed, which counts as no checkpoint.
TakeEventLoadFails == /\ pc = "poll" /\ read < Len(log) /\ held = None
                      /\ read' = read + 1
                      /\ held' = <<read'>>
                      /\ pc' = AfterAppend(read')
                      /\ Fault
                      /\ excused' = excused \cup Range(LatestCheckpoint)
                      /\ UNCHANGED <<topics, readEnds, kept, keptEnds, saved, archive, since>>

\* Mutant: the checkpoint is saved under the tick that follows.
MutantNextTick == Min({Ticks + 1, log[read].tick + 1})

EventTick == log[read].tick

\* save_checkpoint: an upsert on (match_id, tick).
SaveCheckpoint == /\ pc = "save"
                  /\ saved' = [saved EXCEPT ![EventTick] = held]
                  /\ pc' = "poll"
                  /\ UNCHANGED <<topics, offsets, held, archive, since>>
                  /\ NoFault

\* It fails, and is logged.
SaveFails == /\ pc = "save"
             /\ pc' = "poll"
             /\ Fault
             /\ UNCHANGED <<topics, offsets, held, saved, archive, since, excused>>

\* match.end: finalize_replay, which replaces the room's archive unless there is
\* nothing in memory or MinIO fails; the memory of the match is dropped anyway.
Finalize == /\ pc = "poll" /\ readEnds < ends
            /\ readEnds' = readEnds + 1
            /\ held' = None
            /\ since' = read
            /\ \/ /\ held # None
                  /\ archive' = [match |-> readEnds', from |-> since, upto |-> read, events |-> held]
                  /\ NoFault
               \/ /\ held = None
                  /\ UNCHANGED archive
                  /\ NoFault
               \/ /\ held # None
                  /\ Fault
                  /\ UNCHANGED <<archive, excused>>
            /\ UNCHANGED <<topics, pc, read, kept, keptEnds, saved>>

\* The process dies and starts again from its committed offsets.  With
\* enable.auto.commit these are any it had polled, whatever became of the events.
Crash == /\ Fault
         /\ kept' \in kept .. read /\ keptEnds' \in keptEnds .. readEnds
         /\ read' = kept' /\ readEnds' = keptEnds'
         /\ pc' = "poll" /\ held' = None /\ since' = 0
         /\ excused' = excused \cup ((1 .. kept') \ Range(LatestCheckpoint))
         /\ UNCHANGED <<topics, saved, archive>>

-----------------------------------------------------------------------------
Next == \/ \E t \in Tick : Publish(t)
        \/ EndMatch
        \/ TakeEvent \/ TakeEventLoadFails \/ SaveCheckpoint \/ SaveFails
        \/ Finalize \/ Crash

Spec == Init /\ [][Next]_vars
-----------------------------------------------------------------------------
(* _cold_start_replay: the events of the checkpoint, then those of the log *)
(* that have a later tick than the checkpoint; of the log, only as many    *)
(* events as were read by the deadline.                                    *)

Applied(checkpointTick, events, count) ==
    LET rest == {p \in 1 .. count : log[p].tick > checkpointTick}
    IN  [tick |-> Highest(TicksOf(rest \cup Range(events))),
         last |-> IF rest # {} THEN Max(rest) ELSE IF events # <<>> THEN events[Len(events)] ELSE 0]

\* The state the room starts from: its tick, and the event whose players it has.
ColdStart(events, count) == IF events = <<>> THEN Applied(0, <<>>, count)
                            ELSE Applied(Max(CheckpointTicks), events, count)

-----------------------------------------------------------------------------
(* Properties *)

(***************************************************************************)
(* "Archives match events ... stores checkpoints" (README.md:123): of the  *)
(* events polled since the last match.end, or since the process started    *)
(* again, and of those polled before a crash, an archive lacks only those  *)
(* that the crash found committed and not in the newest checkpoint, or     *)
(* that a failed load passed over.  A failed save costs nothing while the  *)
(* process lives; redelivered, late and early events push none out.        *)
(***************************************************************************)
OnlyCrashesLoseEvents ==
    archive # None =>
        (archive.from + 1) .. archive.upto \subseteq Range(archive.events) \cup excused

(***************************************************************************)
(* "The new leader rebuilds state from the nearest replay checkpoint plus  *)
(* Kafka" (docs/architecture.md:59): whatever the replay service has lost, *)
(* saved late or seen twice, and whatever ticks were published again, a    *)
(* cold start from its newest checkpoint comes to the same tick as one     *)
(* that reads the whole log without; and where its deadline cuts the       *)
(* reading short, neither its tick nor its players are from before the     *)
(* checkpoint.  (That tick may be of an earlier match of the room.)        *)
(***************************************************************************)
SameTick == ColdStart(LatestCheckpoint, Len(log)).tick = ColdStart(<<>>, Len(log)).tick

NotBeforeCheckpoint ==
    \A count \in 0 .. Len(log) :
        LET start == ColdStart(LatestCheckpoint, count)
        IN  start.tick >= Max(CheckpointTicks) /\ log[start.last].tick >= Max(CheckpointTicks)

CheckpointOnlyShortens == SameTick /\ (CheckpointTicks # {} => NotBeforeCheckpoint)
=============================================================================
