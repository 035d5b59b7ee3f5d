---------------------------- MODULE ReplayProofs ----------------------------
(* Proofs about Replay: what an archive may lack, and what a cold start     *)
(* reaches from a checkpoint.                                               *)
EXTENDS Replay, SequenceTheorems, WellFoundedInduction, TLAPS

LogOK == log \in Seq(Event) /\ Len(log) <= MaxEvents /\ ends \in 0 .. MaxMatches
OffsetsOK == /\ pc \in {"poll", "save"}
             /\ read \in 0 .. Len(log) /\ kept \in 0 .. read
             /\ readEnds \in 0 .. ends /\ keptEnds \in 0 .. readEnds
             /\ since \in 0 .. read
EventsOK == /\ held = None \/ held \in EventList
            /\ saved \in [Tick -> EventList]
            /\ archive = None \/ archive \in [match : Match, from : 0 .. Len(log), upto : 0 .. Len(log),
                                              events : EventList]
FaultsOK == excused \subseteq 1 .. Len(log) /\ faults \in 0 .. MaxFaults

LEMMA TypeParts ==
    /\ LogOK /\ OffsetsOK /\ EventsOK /\ FaultsOK => TypeOK
    /\ LogOK' /\ OffsetsOK' /\ EventsOK' /\ FaultsOK' => TypeOK'
BY DEF TypeOK, LogOK, OffsetsOK, EventsOK, FaultsOK

(* A checkpoint is saved of what is in memory. *)
SavingHolds == pc = "save" => held # None /\ read > 0

(* What was polled is in memory, or in the checkpoint that is loaded when   *)
(* nothing is, except what a crash or a failed load has left out.           *)
PolledIsRemembered == (since + 1) .. read \subseteq Range(Remembered) \cup excused

IInv == TypeOK /\ SavingHolds /\ PolledIsRemembered /\ OnlyCrashesLoseEvents

-----------------------------------------------------------------------------
(* Sequences                                                                *)

LEMMA AppendRange ==
    ASSUME NEW S, NEW s \in Seq(S), NEW e \in S
    PROVE  Append(s, e) \in Seq(S) /\ Range(Append(s, e)) = Range(s) \cup {e}
<1>1. /\ Append(s, e) \in Seq(S) /\ Append(s, e) # <<>>
      /\ Len(s) \in Nat /\ DOMAIN s = 1 .. Len(s) /\ DOMAIN Append(s, e) = 1 .. Len(s) + 1
      /\ \A i \in 1 .. Len(s) : Append(s, e)[i] = s[i]
      /\ Append(s, e)[Len(s) + 1] = e
  BY AppendProperties, LenProperties
<1>2. ASSUME NEW x \in Range(Append(s, e)) PROVE x \in Range(s) \cup {e}
  <2>1. PICK i \in 1 .. Len(s) + 1 : x = Append(s, e)[i]
    BY <1>1, <1>2 DEF Range
  <2>2. i \in 1 .. Len(s) \/ i = Len(s) + 1
    BY <1>1
  <2> QED
    BY <1>1, <2>1, <2>2 DEF Range
<1>3. ASSUME NEW x \in Range(s) \cup {e} PROVE x \in Range(Append(s, e))
  <2>1. 1 .. Len(s) \subseteq 1 .. Len(s) + 1 /\ Len(s) + 1 \in 1 .. Len(s) + 1
    BY <1>1
  <2>2. CASE x \in Range(s)
    BY <1>1, <2>1, <2>2 DEF Range
  <2>3. CASE x = e
    BY <1>1, <2>1, <2>3 DEF Range
  <2> QED
    BY <1>3, <2>2, <2>3
<1> QED
  BY <1>1, <1>2, <1>3

LEMMA ListsGrow == ASSUME NEW n \in Nat PROVE Seq(1 .. n) \subseteq Seq(1 .. n + 1)
<1>1. 1 .. n \subseteq 1 .. n + 1
  OBVIOUS
<1> QED
  BY <1>1, SeqMonotonic

LEMMA ListIsNotNone == ASSUME NEW n \in Nat, NEW s \in Seq(1 .. n) PROVE s # None
<1>1. 1 .. n \subseteq Nat
  OBVIOUS
<1>2. s \in Seq(Nat)
  BY <1>1, SeqMonotonic
<1> QED
  BY <1>2, NoneAssumption

(* The largest of some bounded numbers is one of them, and no less than any. *)
LEMMA MaxIsIn ==
    ASSUME NEW bound \in Nat, NEW S \in SUBSET (0 .. bound), S # {}
    PROVE  Max(S) \in S /\ \A x \in S : x <= Max(S)
<1> DEFINE T == {bound - t : t \in S}
           R == OpToRel(<, Nat)
<1>1. \A t \in S : t \in Nat /\ t <= bound
  OBVIOUS
<1>2. T \subseteq Nat /\ T # {}
  <2>1. \A t \in S : bound - t \in Nat
    BY <1>1
  <2> QED
    BY <2>1
<1>3. \A x, y \in Nat : x < y => <<x, y>> \in R
  BY DEF OpToRel
<1>4. PICK n \in T : \A k \in T : ~(<<k, n>> \in R)
  <2> HIDE DEF T, R
  <2>1. IsWellFoundedOn(R, Nat)
    BY NatLessThanWellFounded DEF R
  <2> QED
    BY <1>2, <2>1, WFMin
<1>5. \A k \in T : ~(k < n)
  <2> HIDE DEF R
  <2> QED
    BY <1>2, <1>3, <1>4
<1>6. PICK t \in S : n = bound - t
  BY <1>4
<1>7. ASSUME NEW u \in S PROVE t >= u
  <2>1. bound - u \in T
    OBVIOUS
  <2>2. ~(bound - u < bound - t)
    BY <1>5, <1>6, <2>1
  <2> HIDE DEF T, R
  <2> QED
    BY <1>1, <2>2
<1>8. Max(S) \in S /\ \A x \in S : Max(S) >= x
  BY <1>7 DEF Max
<1> QED
  BY <1>1, <1>8

(* The same of ticks. *)
LEMMA MaxTick ==
    ASSUME NEW S \in SUBSET Tick, S # {} PROVE Max(S) \in S /\ \A x \in S : x <= Max(S)
<1>1. Ticks + 1 \in Nat /\ Tick \subseteq 0 .. Ticks + 1
  BY SizeAssumption DEF Tick
<1> QED
  BY <1>1, MaxIsIn

-----------------------------------------------------------------------------
(* The checkpoint that is loaded is one of those saved. *)
LEMMA LatestTyped ==
    ASSUME TypeOK PROVE LatestCheckpoint \in EventList /\ Range(LatestCheckpoint) \subseteq 1 .. Len(log)
<1>1. Len(log) \in Nat
  BY LenProperties DEF TypeOK
<1>2. CASE CheckpointTicks = {}
  <2>1. LatestCheckpoint = <<>>
    BY <1>2 DEF LatestCheckpoint
  <2> QED
    BY <2>1, EmptySeq, RangeOfSeq DEF EventList
<1>3. CASE CheckpointTicks # {}
  <2>1. Max(CheckpointTicks) \in Tick
    BY <1>3, MaxTick DEF CheckpointTicks
  <2>2. LatestCheckpoint \in EventList
    BY <1>3, <2>1 DEF LatestCheckpoint, TypeOK
  <2> QED
    BY <2>2, RangeOfSeq DEF EventList
<1> QED
  BY <1>2, <1>3

LEMMA RememberedTyped ==
    ASSUME TypeOK PROVE Remembered \in EventList /\ Range(Remembered) \subseteq 1 .. Len(log)
<1>1. Remembered \in EventList
  BY LatestTyped DEF Remembered, TypeOK
<1> QED
  BY <1>1, RangeOfSeq DEF EventList

(* Only what is in memory and the checkpoints decide what is remembered. *)
LEMMA RememberedStays ==
    ASSUME UNCHANGED <<held, saved>> PROVE Remembered' = Remembered
BY DEF Remembered, LatestCheckpoint, CheckpointTicks

LEMMA InitInvariant == Init => IInv
<1> SUFFICES ASSUME Init PROVE IInv
  OBVIOUS
<1>1. LogOK
  BY SizeAssumption, EmptySeq, LenProperties DEF Init, LogOK
<1>2. Len(log) = 0
  BY DEF Init
<1>3. OffsetsOK /\ FaultsOK
  BY <1>2, SizeAssumption DEF Init, OffsetsOK, FaultsOK
<1>4. EventsOK
  BY EmptySeq DEF Init, EventsOK, EventList
<1>5. SavingHolds /\ OnlyCrashesLoseEvents
  BY DEF Init, SavingHolds, OnlyCrashesLoseEvents
<1>6. PolledIsRemembered
  BY DEF Init, PolledIsRemembered
<1> QED
  BY <1>1, <1>3, <1>4, <1>5, <1>6, TypeParts DEF IInv

-----------------------------------------------------------------------------
(* One lemma per step. *)

LEMMA PublishStep == ASSUME IInv, NEW t \in Tick, Publish(t) PROVE IInv'
<1> USE SizeAssumption
<1> DEFINE e == [match |-> ends + 1, tick |-> t]
<1>1. /\ log \in Seq(Event) /\ Len(log) \in Nat
      /\ log' = Append(log, e) /\ UNCHANGED <<ends, pc, read, readEnds, kept, keptEnds, held, saved, archive, since>>
      /\ UNCHANGED <<excused, faults>>
  BY LenProperties DEF IInv, TypeOK, Publish, NoFault, offsets
<1>2. e \in Event
  BY DEF Publish, IInv, TypeOK, Event, Match
<1>3. log' \in Seq(Event) /\ Len(log') = Len(log) + 1
  BY <1>1, <1>2, AppendProperties
<1>4. EventList \subseteq EventList' /\ 1 .. Len(log) \subseteq 1 .. Len(log') /\ 0 .. Len(log) \subseteq 0 .. Len(log')
  BY <1>1, <1>3, ListsGrow DEF EventList
<1>5. LogOK'
  BY <1>1, <1>3 DEF LogOK, IInv, TypeOK, Publish
<1>6. OffsetsOK' /\ FaultsOK'
  BY <1>1, <1>4 DEF OffsetsOK, FaultsOK, IInv, TypeOK
<1>7. EventsOK'
  BY <1>1, <1>4 DEF EventsOK, IInv, TypeOK
<1>8. SavingHolds' /\ PolledIsRemembered' /\ OnlyCrashesLoseEvents'
  BY <1>1, RememberedStays DEF IInv, SavingHolds, PolledIsRemembered, OnlyCrashesLoseEvents
<1> QED
  BY <1>5, <1>6, <1>7, <1>8, TypeParts DEF IInv

LEMMA EndMatchStep == ASSUME IInv, EndMatch PROVE IInv'
<1> USE SizeAssumption
<1>1. UNCHANGED <<log, pc, read, readEnds, kept, keptEnds, held, saved, archive, since, excused, faults>>
  BY DEF EndMatch, NoFault, offsets
<1>2. ends + 1 \in 0 .. MaxMatches
  <2>2. PICK p \in 1 .. Len(log) : log[p].match = ends + 1
    BY DEF EndMatch
  <2>3. log[p] \in Event
    BY ElementOfSeq DEF IInv, TypeOK
  <2> QED
    BY <2>2, <2>3 DEF Event, Match, IInv, TypeOK
<1>3. LogOK' /\ OffsetsOK'
  BY <1>1, <1>2 DEF EndMatch, LogOK, OffsetsOK, IInv, TypeOK
<1>4. EventsOK' /\ FaultsOK'
  BY <1>1 DEF EventsOK, FaultsOK, IInv, TypeOK, EventList
<1>5. SavingHolds' /\ PolledIsRemembered' /\ OnlyCrashesLoseEvents'
  BY <1>1, RememberedStays DEF IInv, SavingHolds, PolledIsRemembered, OnlyCrashesLoseEvents
<1> QED
  BY <1>3, <1>4, <1>5, TypeParts DEF IInv

(* An event is polled, and appended to what is in memory then. *)
LEMMA TakeStep ==
    ASSUME IInv, TakeEvent \/ TakeEventLoadFails PROVE IInv'
<1> USE SizeAssumption
<1>1. /\ read \in Nat /\ read < Len(log) /\ read' = read + 1 /\ Len(log) \in Nat
      /\ UNCHANGED <<log, ends, readEnds, kept, keptEnds, saved, archive, since>>
      /\ pc' \in {"poll", "save"}
  BY LenProperties DEF IInv, TypeOK, TakeEvent, TakeEventLoadFails, AfterAppend, topics
<1>2. read + 1 \in 1 .. Len(log)
  BY <1>1
<1>3. FaultsOK' /\ excused \subseteq excused'
  <2>1. CASE TakeEvent
    BY <1>1, <2>1 DEF TakeEvent, NoFault, FaultsOK, IInv, TypeOK
  <2>2. CASE TakeEventLoadFails
    BY <1>1, <2>2, LatestTyped DEF TakeEventLoadFails, Fault, FaultsOK, IInv, TypeOK
  <2> QED
    BY <2>1, <2>2
<1>4. held' \in EventList /\ (since + 1) .. read + 1 \subseteq Range(held') \cup excused'
  <2>0. (since + 1) .. read + 1 \subseteq ((since + 1) .. read) \cup {read + 1}
    BY <1>1 DEF IInv, TypeOK
  <2>1. CASE TakeEvent
    <3>1. held' = Append(Remembered, read + 1)
      BY <2>1, <1>1 DEF TakeEvent
    <3>2. held' \in EventList /\ Range(held') = Range(Remembered) \cup {read + 1}
      BY <3>1, <1>2, AppendRange, RememberedTyped DEF EventList, IInv
    <3> QED
      BY <2>0, <3>2, <1>3 DEF IInv, PolledIsRemembered
  <2>2. CASE TakeEventLoadFails
    <3>1. held' = Append(<<>>, read + 1) /\ held = None
      BY <2>2, <1>1 DEF TakeEventLoadFails
    <3>2. held' \in EventList /\ Range(held') = Range(<<>>) \cup {read + 1}
      BY <3>1, <1>2, AppendRange, EmptySeq DEF EventList
    <3>3. Remembered = LatestCheckpoint
      BY <3>1 DEF Remembered
    <3>4. excused' = excused \cup Range(LatestCheckpoint)
      BY <2>2 DEF TakeEventLoadFails
    <3> QED
      BY <2>0, <3>2, <3>3, <3>4 DEF IInv, PolledIsRemembered
  <2> QED
    BY <2>1, <2>2
<1>5. held' # None /\ Remembered' = held'
  BY <1>1, <1>4, ListIsNotNone DEF EventList, Remembered
<1>6. LogOK' /\ OffsetsOK'
  BY <1>1, <1>2 DEF LogOK, OffsetsOK, IInv, TypeOK
<1>7. EventsOK'
  BY <1>1, <1>4 DEF EventsOK, IInv, TypeOK, EventList
<1>8. SavingHolds' /\ PolledIsRemembered' /\ OnlyCrashesLoseEvents'
  BY <1>1, <1>3, <1>4, <1>5 DEF IInv, SavingHolds, PolledIsRemembered, OnlyCrashesLoseEvents
<1> QED
  BY <1>3, <1>6, <1>7, <1>8, TypeParts DEF IInv

LEMMA SaveStep == ASSUME IInv, SaveCheckpoint \/ SaveFails PROVE IInv'
<1> USE SizeAssumption
<1>1. /\ pc = "save" /\ pc' = "poll" /\ held # None
      /\ UNCHANGED <<log, ends, read, readEnds, kept, keptEnds, held, archive, since, excused>>
      /\ saved' = [saved EXCEPT ![EventTick] = held] \/ saved' = saved
      /\ faults' \in 0 .. MaxFaults
  BY DEF SaveCheckpoint, SaveFails, Fault, NoFault, topics, offsets, IInv, TypeOK, SavingHolds
<1>2. held \in EventList /\ saved' \in [Tick -> EventList]
  BY <1>1 DEF IInv, TypeOK
<1>3. LogOK' /\ OffsetsOK' /\ FaultsOK'
  BY <1>1 DEF LogOK, OffsetsOK, FaultsOK, IInv, TypeOK
<1>4. EventsOK'
  BY <1>1, <1>2 DEF EventsOK, IInv, TypeOK, EventList
<1>5. Remembered = held /\ Remembered' = held
  BY <1>1 DEF Remembered
<1>6. SavingHolds' /\ PolledIsRemembered' /\ OnlyCrashesLoseEvents'
  BY <1>1, <1>5 DEF IInv, SavingHolds, PolledIsRemembered, OnlyCrashesLoseEvents
<1> QED
  BY <1>3, <1>4, <1>6, TypeParts DEF IInv

LEMMA FinalizeStep == ASSUME IInv, Finalize PROVE IInv'
<1> USE SizeAssumption
<1> DEFINE a == [match |-> readEnds + 1, from |-> since, upto |-> read, events |-> held]
<1>1. /\ UNCHANGED <<log, ends, pc, read, kept, keptEnds, saved, excused>>
      /\ pc = "poll" /\ readEnds < ends /\ readEnds' = readEnds + 1
      /\ held' = None /\ since' = read
      /\ archive' = archive \/ (held # None /\ archive' = a)
      /\ faults' \in 0 .. MaxFaults
  BY DEF Finalize, Fault, NoFault, topics, IInv, TypeOK
<1>2. held # None => a \in [match : Match, from : 0 .. Len(log), upto : 0 .. Len(log), events : EventList]
  BY <1>1, LenProperties DEF IInv, TypeOK, Match
<1>3. LogOK' /\ OffsetsOK' /\ FaultsOK'
  BY <1>1, LenProperties DEF LogOK, OffsetsOK, FaultsOK, IInv, TypeOK
<1>4. EventsOK'
  BY <1>1, <1>2 DEF EventsOK, IInv, TypeOK, EventList
<1>5. SavingHolds' /\ PolledIsRemembered'
  BY <1>1 DEF SavingHolds, PolledIsRemembered, IInv, TypeOK
<1>6. held # None => (a.from + 1) .. a.upto \subseteq Range(a.events) \cup excused
  BY DEF IInv, PolledIsRemembered, Remembered
<1>7. OnlyCrashesLoseEvents'
  <2> HIDE DEF a
  <2> QED
    BY <1>1, <1>6 DEF IInv, OnlyCrashesLoseEvents
<1> QED
  BY <1>3, <1>4, <1>5, <1>7, TypeParts DEF IInv

LEMMA CrashStep == ASSUME IInv, Crash PROVE IInv'
<1> USE SizeAssumption
<1>1. /\ UNCHANGED <<log, ends, saved, archive>>
      /\ kept' \in kept .. read /\ keptEnds' \in keptEnds .. readEnds
      /\ read' = kept' /\ readEnds' = keptEnds'
      /\ pc' = "poll" /\ held' = None /\ since' = 0
      /\ excused' = excused \cup ((1 .. kept') \ Range(LatestCheckpoint))
      /\ faults' \in 0 .. MaxFaults
  BY DEF Crash, Fault, topics, IInv, TypeOK
<1>2. kept' \in 0 .. Len(log) /\ keptEnds' \in 0 .. ends /\ Len(log) \in Nat
  BY <1>1, LenProperties DEF IInv, TypeOK
<1>3. LogOK' /\ OffsetsOK' /\ FaultsOK'
  BY <1>1, <1>2 DEF LogOK, OffsetsOK, FaultsOK, IInv, TypeOK
<1>4. EventsOK'
  BY <1>1 DEF EventsOK, IInv, TypeOK, EventList
<1>5. Remembered' = LatestCheckpoint
  BY <1>1 DEF Remembered, LatestCheckpoint, CheckpointTicks
<1>6. SavingHolds' /\ PolledIsRemembered' /\ OnlyCrashesLoseEvents'
  BY <1>1, <1>5 DEF IInv, SavingHolds, PolledIsRemembered, OnlyCrashesLoseEvents
<1> QED
  BY <1>3, <1>4, <1>6, TypeParts DEF IInv

LEMMA NextInvariant == ASSUME IInv, [Next]_vars PROVE IInv'
<1>1. CASE UNCHANGED vars
  <2>1. UNCHANGED <<log, ends, pc, read, readEnds, kept, keptEnds, held, saved, archive, since, excused, faults>>
    BY <1>1 DEF vars, topics, offsets
  <2>2. TypeOK'
    BY <2>1 DEF IInv, TypeOK, EventList
  <2>3. SavingHolds' /\ PolledIsRemembered' /\ OnlyCrashesLoseEvents'
    BY <2>1, RememberedStays DEF IInv, SavingHolds, PolledIsRemembered, OnlyCrashesLoseEvents
  <2> QED
    BY <2>2, <2>3 DEF IInv
<1> QED
  BY <1>1, PublishStep, EndMatchStep, TakeStep, SaveStep, FinalizeStep, CrashStep DEF Next

-----------------------------------------------------------------------------
(* Results                                                                  *)

(* What the replay service polled is in memory, in the checkpoint it would  *)
(* load, or left out by a crash or a failed load.                           *)
THEOREM ReplayInvariant == Spec => []IInv
BY InitInvariant, NextInvariant, PTL DEF Spec

(* Offsets stay within the topics and behind each other, checkpoints and    *)
(* archives are of events of the log.                                       *)
THEOREM ReplayTypeCorrect == Spec => []TypeOK
<1>1. IInv => TypeOK
  BY DEF IInv
<1> QED
  BY ReplayInvariant, <1>1, PTL

(* An archive lacks no event polled for it, except those that a crash or a  *)
(* failed load left out, for any length and number of matches, any          *)
(* checkpoint interval and any number of faults.                            *)
THEOREM ArchiveLosesOnlyByCrashes == Spec => []OnlyCrashesLoseEvents
<1>1. IInv => OnlyCrashesLoseEvents
  BY DEF IInv
<1> QED
  BY ReplayInvariant, <1>1, PTL

-----------------------------------------------------------------------------
(* Cold starts: what is saved at a tick ends with an event of that tick.    *)

(* What is about to be saved ends with the last event polled. *)
SavesLastRead == pc = "save" => held # None /\ held # <<>> /\ held[Len(held)] = read

CheckpointsEndAtTick ==
    \A t \in Tick : saved[t] # <<>> => log[saved[t][Len(saved[t])]].tick = t

KInv == SavesLastRead /\ CheckpointsEndAtTick

LEMMA InitCheckpoints == Init => KInv
<1> SUFFICES ASSUME Init PROVE KInv
  OBVIOUS
<1>1. Len(log) = 0
  BY DEF Init
<1> QED
  BY <1>1 DEF Init, KInv, SavesLastRead, CheckpointsEndAtTick

(* The last element of a list of events is an event of the log. *)
LEMMA LastOfList ==
    ASSUME NEW n \in Nat, NEW s \in Seq(1 .. n), s # <<>> PROVE s[Len(s)] \in 1 .. n
BY EmptySeq, LenProperties, ElementOfSeq

LEMMA SavesStep == ASSUME IInv, KInv, [Next]_vars PROVE SavesLastRead'
<1>1. CASE TakeEvent \/ TakeEventLoadFails
  <2>1. read' = read + 1 /\ read + 1 \in 1 .. Len(log) /\ Len(log) \in Nat
    BY <1>1, LenProperties DEF IInv, TypeOK, TakeEvent, TakeEventLoadFails
  <2>2. PICK s \in EventList : held' = Append(s, read + 1)
    <3>1. <<>> \in EventList /\ <<read + 1>> = Append(<<>>, read + 1)
      BY <2>1, EmptySeq DEF EventList
    <3>2. Remembered \in EventList
      BY RememberedTyped DEF IInv
    <3> QED
      BY <1>1, <2>1, <3>1, <3>2 DEF TakeEvent, TakeEventLoadFails
  <2>3. /\ held' \in EventList /\ held' # <<>>
        /\ Len(held') = Len(s) + 1 /\ held'[Len(s) + 1] = read + 1
    BY <2>1, <2>2, AppendProperties, LenProperties DEF EventList
  <2>4. held' # None
    BY <2>1, <2>3, ListIsNotNone DEF EventList
  <2> QED
    BY <2>1, <2>3, <2>4 DEF SavesLastRead
<1>2. CASE pc' # "save"
  BY <1>2 DEF SavesLastRead
<1>3. CASE UNCHANGED <<pc, held, read>>
  BY <1>3 DEF KInv, SavesLastRead
<1> QED
  BY <1>1, <1>2, <1>3
  DEF Next, Publish, EndMatch, SaveCheckpoint, SaveFails, Finalize, Crash, offsets, vars

LEMMA CheckpointsStep == ASSUME IInv, KInv, [Next]_vars PROVE CheckpointsEndAtTick'
<1>1. log \in Seq(Event) /\ Len(log) \in Nat
  BY LenProperties DEF IInv, TypeOK
<1>2. ASSUME NEW t \in Tick, saved[t] # <<>> PROVE saved[t][Len(saved[t])] \in 1 .. Len(log)
  <2>1. saved[t] \in Seq(1 .. Len(log))
    BY DEF IInv, TypeOK, EventList
  <2> QED
    BY <1>1, <1>2, <2>1, LastOfList
<1>3. CASE SaveCheckpoint
  <2>1. saved' = [saved EXCEPT ![log[read].tick] = held] /\ log' = log /\ pc = "save"
    BY <1>3 DEF SaveCheckpoint, EventTick, topics
  <2>2. held[Len(held)] = read
    BY <2>1 DEF KInv, SavesLastRead
  <2> SUFFICES ASSUME NEW t \in Tick, saved'[t] # <<>>
               PROVE  log[saved'[t][Len(saved'[t])]].tick = t
    BY <2>1 DEF CheckpointsEndAtTick
  <2>3. CASE t = log[read].tick
    <3>1. saved'[t] = held
      BY <2>1, <2>3 DEF IInv, TypeOK
    <3> QED
      BY <2>2, <2>3, <3>1
  <2>4. CASE t # log[read].tick
    <3>1. saved'[t] = saved[t]
      BY <2>1, <2>4 DEF IInv, TypeOK
    <3> QED
      BY <3>1 DEF KInv, CheckpointsEndAtTick
  <2> QED
    BY <2>3, <2>4
<1>4. ASSUME NEW u \in Tick, Publish(u) PROVE CheckpointsEndAtTick'
  <2>1. saved' = saved
    BY <1>4 DEF Publish
  <2>2. \A p \in 1 .. Len(log) : log'[p] = log[p]
    <3>1. [match |-> ends + 1, tick |-> u] \in Event
      BY <1>4, SizeAssumption DEF Publish, Event, Match, IInv, TypeOK
    <3> QED
      BY <1>1, <1>4, <3>1, AppendProperties DEF Publish
  <2> QED
    BY <1>2, <2>1, <2>2 DEF KInv, CheckpointsEndAtTick
<1>5. CASE UNCHANGED <<log, saved>>
  BY <1>5 DEF KInv, CheckpointsEndAtTick
<1> QED
  BY <1>3, <1>4, <1>5
  DEF Next, EndMatch, TakeEvent, TakeEventLoadFails, SaveFails, Finalize, Crash, topics, vars

LEMMA CheckpointInvariant == IInv /\ KInv /\ [Next]_vars => KInv'
BY SavesStep, CheckpointsStep DEF KInv

LEMMA TickOfEvent ==
    ASSUME IInv
    PROVE  \A p \in 1 .. Len(log) : log[p].tick \in 1 .. Ticks + 1 /\ log[p].tick \in Nat /\ log[p].tick > 0
<1>1. \A p \in 1 .. Len(log) : log[p] \in Event
  BY ElementOfSeq DEF IInv, TypeOK
<1>2. \A p \in 1 .. Len(log) : log[p].tick \in 1 .. Ticks + 1
  BY <1>1 DEF Event, Tick
<1> QED
  BY <1>2, SizeAssumption

(* The highest tick of some events is that of one of them, or 0. *)
LEMMA HighestIs ==
    ASSUME IInv, NEW events \in SUBSET (1 .. Len(log))
    PROVE  /\ Highest(TicksOf(events)) \in Nat
           /\ \A p \in events : log[p].tick <= Highest(TicksOf(events))
           /\ Highest(TicksOf(events)) = 0 \/ \E p \in events : log[p].tick = Highest(TicksOf(events))
<1> DEFINE S == {0} \cup TicksOf(events)
<1>1. \A p \in events : log[p].tick \in 1 .. Ticks + 1
  BY TickOfEvent
<1>2. Ticks + 1 \in Nat /\ S \in SUBSET (0 .. Ticks + 1) /\ S # {}
  BY <1>1, SizeAssumption DEF TicksOf
<1>3. Max(S) \in S /\ \A x \in S : x <= Max(S)
  <2> HIDE DEF S
  <2> QED
    BY <1>2, MaxIsIn
<1>4. Max(S) = Highest(TicksOf(events))
  BY DEF Highest
<1>5. \A p \in events : log[p].tick \in S
  BY DEF TicksOf
<1>6. \A x \in S : x \in Nat /\ (x = 0 \/ \E p \in events : log[p].tick = x)
  BY <1>1, SizeAssumption DEF TicksOf
<1> HIDE DEF S
<1> QED
  BY <1>3, <1>4, <1>5, <1>6

(* A list of events that ends at tick c, and is saved as such. *)
EndsAt(events, c) == IF events = <<>> THEN c = 0 ELSE log[events[Len(events)]].tick = c

(* From such a list, and the whole log, the highest tick of the log is reached. *)
LEMMA WholeLog ==
    ASSUME IInv, NEW c \in Nat, NEW events \in EventList, EndsAt(events, c)
    PROVE  Applied(c, events, Len(log)).tick = Highest(TicksOf(1 .. Len(log)))
<1> DEFINE all == 1 .. Len(log)
           rest == {p \in all : log[p].tick > c}
           some == rest \cup Range(events)
           high == Highest(TicksOf(all))
<1>1. Len(log) \in Nat /\ some \in SUBSET all /\ all \in SUBSET all
  BY LenProperties, RangeOfSeq DEF IInv, TypeOK, EventList
<1>2. Applied(c, events, Len(log)).tick = Highest(TicksOf(some))
  BY DEF Applied
<1>3. \A p \in all : log[p].tick \in Nat /\ log[p].tick > 0
  BY TickOfEvent
<1>4. /\ high \in Nat /\ \A p \in all : log[p].tick <= high
      /\ high = 0 \/ \E p \in all : log[p].tick = high
  BY <1>1, HighestIs
<1>5. /\ Highest(TicksOf(some)) \in Nat /\ \A p \in some : log[p].tick <= Highest(TicksOf(some))
      /\ Highest(TicksOf(some)) = 0 \/ \E p \in some : log[p].tick = Highest(TicksOf(some))
  BY <1>1, HighestIs
<1>6. Highest(TicksOf(some)) <= high
  <2> HIDE DEF some, high
  <2> QED
    BY <1>1, <1>4, <1>5
<1>7. high <= Highest(TicksOf(some))
  <2>1. CASE high = 0
    BY <1>5, <2>1
  <2>2. ASSUME NEW p \in all, log[p].tick = high PROVE high <= Highest(TicksOf(some))
    <3>1. CASE log[p].tick > c
      <4>1. p \in some
        BY <3>1
      <4> QED
        BY <1>5, <2>2, <4>1
    <3>2. CASE ~(log[p].tick > c)
      <4>1. events # <<>> /\ log[events[Len(events)]].tick = c
        BY <1>3, <3>2 DEF EndsAt
      <4>2. events[Len(events)] \in Range(events)
        BY <4>1, EmptySeq, LenProperties DEF Range, EventList
      <4>3. c <= Highest(TicksOf(some))
        BY <1>5, <4>1, <4>2
      <4> HIDE DEF some, high
      <4> QED
        BY <1>3, <1>5, <2>2, <3>2, <4>3
    <3> QED
      BY <3>1, <3>2
  <2> QED
    BY <1>4, <2>1, <2>2
<1> QED
  <2> HIDE DEF some, high
  <2> QED
    BY <1>2, <1>4, <1>5, <1>6, <1>7 DEF high

(* However much of the log was read, nothing older than the list is reached. *)
LEMMA PartOfLog ==
    ASSUME IInv, NEW c \in Nat, NEW events \in EventList, events # <<>>, EndsAt(events, c),
           NEW count \in 0 .. Len(log)
    PROVE  /\ Applied(c, events, count).tick >= c
           /\ log[Applied(c, events, count).last].tick >= c
<1> DEFINE rest == {p \in 1 .. count : log[p].tick > c}
           some == rest \cup Range(events)
           last == events[Len(events)]
<1>1. Len(log) \in Nat /\ some \in SUBSET (1 .. Len(log))
  BY LenProperties, RangeOfSeq DEF IInv, TypeOK, EventList
<1>2. last \in some /\ log[last].tick = c
  BY EmptySeq, LenProperties DEF Range, EventList, EndsAt
<1>3. /\ Applied(c, events, count).tick = Highest(TicksOf(some))
      /\ Applied(c, events, count).last = IF rest # {} THEN Max(rest) ELSE last
  BY DEF Applied
<1>4. Highest(TicksOf(some)) \in Nat /\ \A p \in some : log[p].tick <= Highest(TicksOf(some))
  BY <1>1, HighestIs
<1>5. c <= Highest(TicksOf(some))
  BY <1>2, <1>4
<1>6. rest # {} => log[Max(rest)].tick > c
  <2>1. rest \in SUBSET (0 .. Len(log))
    BY <1>1
  <2>2. rest # {} => Max(rest) \in rest
    <3> HIDE DEF rest
    <3> QED
      BY <1>1, <2>1, MaxIsIn
  <2> QED
    BY <2>2
<1>7. rest # {} => log[Max(rest)].tick \in Nat
  <2>1. rest \in SUBSET (0 .. Len(log))
    BY <1>1
  <2>2. rest # {} => Max(rest) \in rest
    <3> HIDE DEF rest
    <3> QED
      BY <1>1, <2>1, MaxIsIn
  <2>3. \A p \in 1 .. Len(log) : log[p].tick \in Nat
    BY TickOfEvent
  <2> QED
    BY <1>1, <2>2, <2>3
<1> QED
  <2> HIDE DEF rest, some
  <2> QED
    BY <1>2, <1>3, <1>4, <1>5, <1>6, <1>7

LEMMA CheckpointShortens == IInv /\ KInv => CheckpointOnlyShortens
<1> SUFFICES ASSUME IInv, KInv PROVE CheckpointOnlyShortens
  OBVIOUS
<1>0. <<>> \in EventList /\ LatestCheckpoint \in EventList
  BY EmptySeq, LatestTyped DEF EventList, IInv
<1>1. ColdStart(<<>>, Len(log)).tick = Highest(TicksOf(1 .. Len(log)))
  BY <1>0, WholeLog DEF ColdStart, EndsAt
<1>2. CASE CheckpointTicks = {}
  BY <1>2 DEF LatestCheckpoint, CheckpointOnlyShortens, SameTick
<1>3. CASE CheckpointTicks # {}
  <2> DEFINE c == Max(CheckpointTicks)
  <2>1. c \in CheckpointTicks
    BY <1>3, MaxTick DEF CheckpointTicks
  <2>2. LatestCheckpoint = saved[c] /\ LatestCheckpoint # <<>>
    BY <1>3, <2>1 DEF LatestCheckpoint, CheckpointTicks
  <2>3. c \in Nat /\ EndsAt(LatestCheckpoint, c)
    BY <2>1, <2>2, SizeAssumption DEF CheckpointTicks, KInv, CheckpointsEndAtTick, Tick, EndsAt
  <2>4. \A count : ColdStart(LatestCheckpoint, count) = Applied(c, LatestCheckpoint, count)
    BY <2>2 DEF ColdStart
  <2>5. SameTick
    <3> HIDE DEF c
    <3>1. ColdStart(LatestCheckpoint, Len(log)).tick = Highest(TicksOf(1 .. Len(log)))
      BY <1>0, <2>3, <2>4, WholeLog
    <3> QED
      BY <1>1, <3>1 DEF SameTick
  <2>6. NotBeforeCheckpoint
    <3>1. ASSUME NEW count \in 0 .. Len(log)
          PROVE  /\ ColdStart(LatestCheckpoint, count).tick >= c
                 /\ log[ColdStart(LatestCheckpoint, count).last].tick >= c
      <4> HIDE DEF c
      <4> QED
        BY <1>0, <2>2, <2>3, <2>4, PartOfLog
    <3> QED
      BY <3>1 DEF NotBeforeCheckpoint
  <2> QED
    BY <2>5, <2>6 DEF CheckpointOnlyShortens
<1> QED
  BY <1>2, <1>3

(* A cold start from the newest checkpoint comes to the tick of one that    *)
(* reads the whole log, and is never before the checkpoint when it cannot:  *)
(* in every match of a room, whatever was lost, saved late, polled twice or *)
(* published again before.                                                  *)
THEOREM ColdStartsAgree == Spec => []CheckpointOnlyShortens
BY ReplayInvariant, InitCheckpoints, CheckpointInvariant, CheckpointShortens, PTL DEF Spec
=============================================================================
