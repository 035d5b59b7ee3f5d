------------------------ MODULE RoomLifecycleProofs ------------------------
(***************************************************************************)
(* Theorems about RoomLifecycle for any number of tasks, elections and     *)
(* faults, with as many loops as EnoughLoops asks for.  A step sets one    *)
(* task and a table of loops, of which those that nothing names any more   *)
(* become as new: StepForm says so of every step of a task, and StepKeeps  *)
(* that a sound step of that form keeps IInv.  What RInv adds holds only   *)
(* when no match ends while a task loads the state (~SlowLoads): with a    *)
(* slower load TLC finds RefusalIsJustified and LeaderPlays violated.      *)
(***************************************************************************)
EXTENDS RoomLifecycle, SequenceTheorems, FiniteSetTheorems, TLAPS

TaskState == [pc : PC, loop : Loop \cup {NoLoop}]

\* A task that waits for its turn has something to do.
QueuedHaveWork == \A i \in DOMAIN ready : task[ready[i]] # Idle

\* Callbacks have no loop, and what loads or plays has one.
TaskLoops == \A t \in Task :
                /\ task[t].pc \in {"idle", "onElected", "onLost", "gained", "lost", "closing"}
                       => task[t].loop = NoLoop
                /\ task[t].pc \in InMatch \cup {"loading"} => task[t].loop \in Loop

\* A loop that nothing refers to is as new.
Named(l) == l = gameLoop \/ \E t \in Task : task[t].loop = l
OthersAreNew == \A l \in Loop : loops[l] # NewLoop => Named(l)

\* Whoever is in a match has started its loop.
LoopsAreStarted == \A t \in Task :
    task[t].pc \in InMatch => loops[task[t].loop].running \/ loops[task[t].loop].ended

\* While the process is up, the current loop ends with its match only.
CurrentEndsOver ==
    phase = "up" /\ gameLoop # NoLoop => (loops[gameLoop].ended => loops[gameLoop].over)

IInv == /\ TypeOK /\ QueuedHaveWork
        /\ TaskLoops /\ OthersAreNew /\ LoopsAreStarted
        /\ CurrentEndsOver /\ ErasesOnlyFinishedMatch

-----------------------------------------------------------------------------
(* The queue of the event loop *)

\* Behind the others, a task that is not among them.
LEMMA AppendNew ==
    ASSUME NEW q \in Seq(Task), IsInjective(q), NEW t \in Task, \A i \in DOMAIN q : q[i] # t
    PROVE  /\ Append(q, t) \in Seq(Task) /\ IsInjective(Append(q, t))
           /\ \A i \in DOMAIN Append(q, t) : Append(q, t)[i] = t \/ \E j \in DOMAIN q : Append(q, t)[i] = q[j]
<1>1. /\ Append(q, t) \in Seq(Task) /\ Len(Append(q, t)) = Len(q) + 1 /\ Len(q) \in Nat
      /\ \A i \in 1 .. Len(q) : Append(q, t)[i] = q[i]
      /\ Append(q, t)[Len(q) + 1] = t
  BY AppendProperties, LenProperties
<1>2. DOMAIN q = 1 .. Len(q) /\ DOMAIN Append(q, t) = 1 .. Len(q) + 1
  BY <1>1, LenProperties
<1>3. \A i \in 1 .. Len(q) + 1 : i \in 1 .. Len(q) \/ i = Len(q) + 1
  BY <1>1
<1>4. ASSUME NEW i \in 1 .. Len(q) + 1, NEW j \in 1 .. Len(q) + 1, Append(q, t)[i] = Append(q, t)[j]
      PROVE  i = j
  BY <1>1, <1>2, <1>3, <1>4 DEF IsInjective
<1> QED BY <1>1, <1>2, <1>3, <1>4 DEF IsInjective

\* Without its head.
LEMMA TailOthers ==
    ASSUME NEW q \in Seq(Task), IsInjective(q), q # <<>>
    PROVE  /\ Head(q) \in Task /\ Tail(q) \in Seq(Task) /\ IsInjective(Tail(q))
           /\ \A i \in DOMAIN Tail(q) : Tail(q)[i] # Head(q) /\ \E j \in DOMAIN q : Tail(q)[i] = q[j]
<1>1. /\ Head(q) \in Task /\ Tail(q) \in Seq(Task) /\ Len(Tail(q)) = Len(q) - 1
      /\ \A i \in 1 .. Len(Tail(q)) : Tail(q)[i] = q[i + 1]
      /\ Head(q) = q[1] /\ Len(q) \in Nat \ {0}
  BY HeadTailProperties, EmptySeq, LenProperties
<1>2. DOMAIN q = 1 .. Len(q) /\ DOMAIN Tail(q) = 1 .. Len(q) - 1
  BY <1>1, LenProperties
<1>3. \A i \in 1 .. Len(q) - 1 : i + 1 \in 1 .. Len(q) /\ i + 1 # 1
  BY <1>1
<1>4. ASSUME NEW i \in 1 .. Len(q) - 1, NEW j \in 1 .. Len(q) - 1, Tail(q)[i] = Tail(q)[j]
      PROVE  i = j
  <2>1. q[i + 1] = q[j + 1]
    BY <1>1, <1>4
  <2>2. i + 1 = j + 1
    BY <1>2, <1>3, <2>1 DEF IsInjective
  <2> QED BY <2>2
<1>5. ASSUME NEW i \in 1 .. Len(q) - 1
      PROVE  Tail(q)[i] # Head(q) /\ \E j \in DOMAIN q : Tail(q)[i] = q[j]
  <2>1. Tail(q)[i] = q[i + 1] /\ i + 1 \in 1 .. Len(q) /\ 1 \in 1 .. Len(q) /\ i + 1 # 1
    BY <1>1, <1>3
  <2> QED BY <1>1, <1>2, <2>1 DEF IsInjective
<1> QED BY <1>1, <1>2, <1>4, <1>5 DEF IsInjective

\* What a step of one task does to the queue and to the tasks.
Turn(t, x) == /\ task' = [task EXCEPT ![t] = x]
              /\ ready # <<>> /\ Head(ready) = t
              /\ \/ ready' = Tail(ready)
                 \/ ready' = Append(Tail(ready), t) /\ x # Idle

QueueTyped == ready \in Seq(Task) /\ IsInjective(ready)

LEMMA TurnKeepsQueue ==
    ASSUME TypeOK, QueuedHaveWork, NEW t \in Task, NEW x \in TaskState, Turn(t, x)
    PROVE  /\ task' \in [Task -> TaskState] /\ QueueTyped' /\ QueuedHaveWork'
<1>1. ready \in Seq(Task) /\ IsInjective(ready) /\ task \in [Task -> TaskState]
  BY DEF TypeOK, TaskState
<1>2. task' \in [Task -> TaskState] /\ task'[t] = x /\ \A u \in Task : u # t => task'[u] = task[u]
  BY <1>1 DEF Turn
<1> DEFINE q == Tail(ready)
<1>3. /\ q \in Seq(Task) /\ IsInjective(q)
      /\ \A i \in DOMAIN q : q[i] # t /\ \E j \in DOMAIN ready : q[i] = ready[j]
  BY <1>1, TailOthers DEF Turn
<1>4. \A i \in DOMAIN q : q[i] \in Task /\ q[i] # t /\ task[q[i]] # Idle
  BY <1>3, LenProperties, ElementOfSeq DEF QueuedHaveWork
<1> HIDE DEF q
<1>5. CASE ready' = q
  <2>1. \A i \in DOMAIN ready' : task'[ready'[i]] # Idle
    BY <1>2, <1>4, <1>5
  <2> QED BY <1>2, <1>3, <1>5, <2>1 DEF QueueTyped, QueuedHaveWork
<1>6. CASE ready' = Append(q, t) /\ x # Idle
  <2>1. /\ ready' \in Seq(Task) /\ IsInjective(ready')
        /\ \A i \in DOMAIN ready' : ready'[i] = t \/ \E j \in DOMAIN q : ready'[i] = q[j]
    BY <1>3, <1>6, AppendNew
  <2>2. \A i \in DOMAIN ready' : task'[ready'[i]] # Idle
    BY <1>2, <1>4, <1>6, <2>1
  <2> QED BY <1>2, <2>1, <2>2 DEF QueueTyped, QueuedHaveWork
<1> QED BY <1>5, <1>6 DEF Turn, q

\* A task comes to the queue: one that is woken, or an idle one that is given work.
LEMMA ArrivalKeepsQueue ==
    ASSUME TypeOK, QueuedHaveWork, NEW t \in Task, NEW x \in TaskState,
           task' = [task EXCEPT ![t] = x], x # Idle,
           ready' = Append(ready, t), ~Queued(t)
    PROVE  /\ task' \in [Task -> TaskState] /\ QueueTyped' /\ QueuedHaveWork'
<1>1. ready \in Seq(Task) /\ IsInjective(ready) /\ task \in [Task -> TaskState]
  BY DEF TypeOK, TaskState
<1>2. task' \in [Task -> TaskState] /\ task'[t] = x /\ \A u \in Task : u # t => task'[u] = task[u]
  BY <1>1
<1>3. \A i \in DOMAIN ready : ready[i] \in Task /\ ready[i] # t /\ task[ready[i]] # Idle
  BY <1>1, LenProperties, ElementOfSeq DEF QueuedHaveWork, Queued
<1>4. /\ ready' \in Seq(Task) /\ IsInjective(ready')
      /\ \A i \in DOMAIN ready' : ready'[i] = t \/ \E j \in DOMAIN ready : ready'[i] = ready[j]
  BY <1>1, <1>3, AppendNew
<1>5. \A i \in DOMAIN ready' : task'[ready'[i]] # Idle
  BY <1>2, <1>3, <1>4
<1> QED BY <1>2, <1>4, <1>5 DEF QueueTyped, QueuedHaveWork

-----------------------------------------------------------------------------
(* Loops *)

\* There is a loop that nothing refers to, and it is as new.
LEMMA FreeLoopIsNew ==
    ASSUME TypeOK, OthersAreNew
    PROVE  /\ FreeLoop \in Loop /\ FreeLoop # gameLoop /\ FreeLoop # NoLoop
           /\ \A t \in Task : task[t].loop # FreeLoop
           /\ loops[FreeLoop] = NewLoop
<1> DEFINE f == [t \in Task |-> task[t].loop]
           used == {f[t] : t \in Task} \cup {gameLoop}
<1>1. IsFiniteSet(Task) /\ IsFiniteSet(Loop) /\ Cardinality(Loop) >= Cardinality(Task) + 2
  BY EnoughLoops
<1>2. Cardinality(Loop) \in Nat /\ Cardinality(Task) \in Nat
  BY <1>1, FS_CardinalityType
<1>3. IsFiniteSet({f[t] : t \in Task}) /\ Cardinality({f[t] : t \in Task}) <= Cardinality(Task)
  <2> DEFINE T == {f[t] : t \in Task}
  <2>1. f \in [Task -> T] /\ \A y \in T : \E t \in Task : f[t] = y
    OBVIOUS
  <2> HIDE DEF f, T
  <2>2. f \in Surjection(Task, T)
    BY <2>1 DEF Surjection
  <2>4. IsFiniteSet(T) /\ Cardinality(T) <= Cardinality(Task)
    BY <1>1, <2>2, FS_Surjection
  <2> QED BY <2>4 DEF T
<1>4. IsFiniteSet(used) /\ Cardinality(used) <= Cardinality(Task) + 1
  <2> DEFINE S == {f[t] : t \in Task}
  <2>1. IsFiniteSet(S) /\ Cardinality(S) <= Cardinality(Task) /\ Cardinality(S) \in Nat
    BY <1>3, FS_CardinalityType
  <2> HIDE DEF S
  <2>2. /\ IsFiniteSet(S \cup {gameLoop})
        /\ Cardinality(S \cup {gameLoop}) = Cardinality(S) \/ Cardinality(S \cup {gameLoop}) = Cardinality(S) + 1
    BY <2>1, FS_AddElement
  <2>3. IsFiniteSet(S \cup {gameLoop}) /\ Cardinality(S \cup {gameLoop}) <= Cardinality(Task) + 1
    BY <1>2, <2>1, <2>2
  <2> QED BY <2>3 DEF S
<1>5. Cardinality(used) \in Nat
  BY <1>4, FS_CardinalityType
<1>6. ~(Loop \subseteq used)
  BY <1>1, <1>2, <1>4, <1>5, FS_Subset
<1>7. \E l \in Loop : l # gameLoop /\ \A t \in Task : task[t].loop # l
  BY <1>6
<1>8. FreeLoop \in Loop /\ FreeLoop # gameLoop /\ \A t \in Task : task[t].loop # FreeLoop
  BY <1>7 DEF FreeLoop
<1> QED BY <1>8, NoneAssumption DEF OthersAreNew, Named, NoLoop

LEMMA NewLoopTyped == NewLoop \in LoopState /\ ~NewLoop.running /\ ~NewLoop.ended /\ ~NewLoop.over
  BY DEF NewLoop, LoopState

\* Loops that are referred to are kept, and others become as new.
LEMMA CollectKeeps ==
    ASSUME NEW table \in [Loop -> LoopState], Collect(table)
    PROVE  /\ loops' \in [Loop -> LoopState]
           /\ \A l \in Loop : loops'[l] = IF l = gameLoop' \/ \E t \in Task : task'[t].loop = l
                                          THEN table[l] ELSE NewLoop
           /\ OthersAreNew'
<1>1. loops' = [l \in Loop |-> IF l = gameLoop' \/ \E t \in Task : task'[t].loop = l
                               THEN table[l] ELSE NewLoop]
  BY DEF Collect
<1>2. loops' \in [Loop -> LoopState]
  BY <1>1, NewLoopTyped
<1>3. OthersAreNew'
  BY <1>1 DEF OthersAreNew, Named
<1> QED BY <1>1, <1>2, <1>3

LEMMA StoppedTyped ==
    ASSUME TypeOK
    PROVE  /\ Stopped(gameLoop) \in [Loop -> LoopState]
           /\ \A l \in Loop : /\ l # gameLoop => Stopped(gameLoop)[l] = loops[l]
                              /\ l = gameLoop => /\ Stopped(gameLoop)[l].ended /\ ~Stopped(gameLoop)[l].running
                                                 /\ Stopped(gameLoop)[l].over = loops[l].over
<1>1. loops \in [Loop -> LoopState] /\ gameLoop \in Loop \cup {NoLoop}
  BY DEF TypeOK, LoopState
<1>2. CASE gameLoop = NoLoop
  BY <1>1, <1>2, NoneAssumption DEF Stopped, NoLoop
<1>3. CASE gameLoop # NoLoop
  <2>1. gameLoop \in Loop
    BY <1>1, <1>3
  <2> DEFINE stopped == [loops[gameLoop] EXCEPT !.running = FALSE, !.ended = TRUE, !.polled = FALSE]
  <2>2. loops[gameLoop] \in LoopState
    BY <1>1, <2>1
  <2>3. stopped \in LoopState /\ stopped.ended /\ ~stopped.running /\ stopped.over = loops[gameLoop].over
    BY <2>2 DEF LoopState
  <2>4. Stopped(gameLoop) = [loops EXCEPT ![gameLoop] = stopped]
    BY <1>1, <1>3, <2>1, <2>2 DEF Stopped, LoopState
  <2> HIDE DEF stopped
  <2> QED BY <1>1, <2>1, <2>3, <2>4
<1> QED BY <1>2, <1>3

-----------------------------------------------------------------------------
(* The steps of a task *)

\* What a task may be left at.
Callbacks == {"idle", "onElected", "onLost", "gained", "lost", "closing"}
Placed(x) == /\ x.pc \in Callbacks => x.loop = NoLoop
             /\ x.pc \in InMatch \cup {"loading"} => x.loop \in Loop

\* The part of the state that the tasks do not touch, up to the count of faults.
Frame == UNCHANGED <<holder, isLeader, told, terms, phase>> /\ faults' \in 0 .. MaxFaults

\* A step sets one task, and the loops to those of a table or what is named of it.
StepTo(t, x, table) ==
    /\ Turn(t, x) /\ Placed(x) /\ Frame
    /\ gameLoop' \in Loop \cup {NoLoop}
    /\ \/ Collect(table)
       \/ /\ loops' = table /\ gameLoop' = gameLoop /\ x.loop = task[t].loop
          /\ \A l \in Loop : table[l] # loops[l] => l = x.loop

\* A table that says of every loop what the invariant needs.
Sound(x, table) ==
    /\ \A l \in Loop : /\ loops[l].running \/ loops[l].ended => table[l].running \/ table[l].ended
                       /\ loops[l].over => table[l].over
    /\ x.pc \in InMatch => table[x.loop].running \/ table[x.loop].ended
    /\ phase = "up" => /\ gameLoop' # NoLoop => (table[gameLoop'].ended => table[gameLoop'].over)
                       /\ x.pc = "deleting" => table[x.loop].over

LEMMA TaskLoopsPlaced == TaskLoops <=> \A t \in Task : Placed(task[t])
  BY DEF TaskLoops, Placed, Callbacks

LEMMA TaskLoopsPlacedNext == TaskLoops' <=> \A t \in Task : Placed(task'[t])
  BY DEF TaskLoops, Placed, Callbacks

LEMMA StepKeeps ==
    ASSUME IInv, NEW t \in Task, NEW x \in TaskState, NEW table \in [Loop -> LoopState],
           StepTo(t, x, table), Sound(x, table)
    PROVE  IInv'
<1>1. task' \in [Task -> TaskState] /\ QueueTyped' /\ QueuedHaveWork'
  BY TurnKeepsQueue DEF IInv, StepTo
<1>2. \A u \in Task : task'[u] = IF u = t THEN x ELSE task[u]
  BY DEF IInv, TypeOK, StepTo, Turn
<1>3. TaskLoops'
  BY <1>2, TaskLoopsPlaced, TaskLoopsPlacedNext DEF IInv, StepTo
<1>4. /\ loops' \in [Loop -> LoopState] /\ OthersAreNew'
      /\ \A l \in Loop : l = gameLoop' \/ (\E u \in Task : task'[u].loop = l) => loops'[l] = table[l]
  <2>1. CASE Collect(table)
    BY <2>1, CollectKeeps
  <2>2. CASE /\ loops' = table /\ gameLoop' = gameLoop /\ x.loop = task[t].loop
             /\ \A l \in Loop : table[l] # loops[l] => l = x.loop
    <3>1. \A l \in Loop : Named(l) => Named(l)'
      BY <1>2, <2>2 DEF Named
    <3>2. \A l \in Loop : l = x.loop => Named(l)'
      BY <1>2 DEF Named
    <3> QED BY <2>2, <3>1, <3>2 DEF OthersAreNew, IInv
  <2> QED BY <2>1, <2>2 DEF StepTo
<1>5. TypeOK'
  BY <1>1, <1>4 DEF IInv, TypeOK, StepTo, Frame, TaskState, LoopState, QueueTyped, Election!TypeOK
<1>6. ASSUME NEW u \in Task, task'[u].pc \in InMatch
      PROVE  /\ task'[u].loop \in Loop
             /\ loops'[task'[u].loop] = table[task'[u].loop]
             /\ table[task'[u].loop].running \/ table[task'[u].loop].ended
  <2>1. task'[u].loop \in Loop
    BY <1>6, <1>3, TaskLoopsPlacedNext DEF Placed
  <2>2. CASE u = t
    BY <1>2, <1>4, <1>6, <2>1, <2>2 DEF Sound
  <2>3. CASE u # t
    BY <1>2, <1>4, <1>6, <2>1, <2>3 DEF Sound, IInv, LoopsAreStarted
  <2> QED BY <2>2, <2>3
<1>7. LoopsAreStarted'
  BY <1>6 DEF LoopsAreStarted
<1>8. CurrentEndsOver'
  BY <1>4 DEF CurrentEndsOver, Sound, StepTo, Frame
<1>9. ErasesOnlyFinishedMatch'
  <2> SUFFICES ASSUME phase = "up", NEW u \in Task, task'[u].pc = "deleting"
               PROVE  loops'[task'[u].loop].over
    BY DEF ErasesOnlyFinishedMatch, StepTo, Frame
  <2>1. task'[u].loop \in Loop /\ loops'[task'[u].loop] = table[task'[u].loop]
    BY <1>6 DEF InMatch
  <2>2. table[task'[u].loop].over
    <3>1. CASE u = t
      BY <1>2, <3>1 DEF Sound
    <3>2. CASE u # t
      BY <1>2, <2>1, <3>2 DEF Sound, IInv, ErasesOnlyFinishedMatch
    <3> QED BY <3>1, <3>2
  <2> QED BY <2>1, <2>2
<1> QED BY <1>1, <1>3, <1>4, <1>5, <1>7, <1>8, <1>9 DEF IInv

LEMMA AtTyped == ASSUME NEW pc \in PC, NEW l \in Loop \cup {NoLoop}
                 PROVE  /\ At(pc, l) \in TaskState /\ At(pc, l).pc = pc /\ At(pc, l).loop = l
                        /\ pc # "idle" => At(pc, l) # Idle
  BY DEF At, TaskState, Idle

LEMMA IdleTyped == Idle \in TaskState /\ Idle.pc = "idle" /\ Idle.loop = NoLoop
  BY DEF At, TaskState, Idle, PC

\* Every step of a task is of this form.
LEMMA StepForm ==
    ASSUME IInv, NEW t \in Task, Step(t)
    PROVE  \E x \in TaskState, table \in [Loop -> LoopState] : StepTo(t, x, table) /\ Sound(x, table)
<1> DEFINE Goal == \E x \in TaskState, table \in [Loop -> LoopState] : StepTo(t, x, table) /\ Sound(x, table)
<1>t. /\ loops \in [Loop -> LoopState] /\ gameLoop \in Loop \cup {NoLoop} /\ task[t] \in TaskState
      /\ faults \in 0 .. MaxFaults /\ NoLoop \notin Loop
      /\ NoFault \/ Fault => faults' \in 0 .. MaxFaults
  BY NoneAssumption, BoundAssumption DEF IInv, TypeOK, TaskState, LoopState, NoLoop, NoFault, Fault
<1>p. Placed(task[t])
  BY TaskLoopsPlaced DEF IInv
<1>s. /\ \A l \in Loop : loops[l].running \/ loops[l].ended => loops[l].running \/ loops[l].ended
      /\ task[t].pc \in InMatch => task[t].loop \in Loop /\ (loops[task[t].loop].running \/ loops[task[t].loop].ended)
      /\ phase = "up" /\ gameLoop # NoLoop => (loops[gameLoop].ended => loops[gameLoop].over)
      /\ phase = "up" /\ task[t].pc = "deleting" => loops[task[t].loop].over
  BY <1>p DEF IInv, LoopsAreStarted, CurrentEndsOver, ErasesOnlyFinishedMatch, Placed
<1>f. /\ FreeLoop \in Loop /\ FreeLoop # gameLoop /\ loops[FreeLoop] = NewLoop
      /\ ~NewLoop.running /\ ~NewLoop.ended /\ ~NewLoop.over
  BY FreeLoopIsNew, NewLoopTyped DEF IInv
\* Steps that leave the loops and the global alone, apart from what becomes unnamed.
<1>1. ASSUME NEW pc \in PC, NEW l \in Loop \cup {NoLoop}, Turn(t, At(pc, l)), Frame,
             gameLoop' = gameLoop, Placed(At(pc, l)),
             Collect(loops) \/ (UNCHANGED loops /\ l = task[t].loop),
             pc \in InMatch => loops[l].running \/ loops[l].ended,
             phase = "up" /\ pc = "deleting" => loops[l].over
      PROVE  Goal
  <2>1. At(pc, l) \in TaskState /\ At(pc, l).pc = pc /\ At(pc, l).loop = l
    BY AtTyped
  <2>2. StepTo(t, At(pc, l), loops)
    BY <1>1, <1>t, <2>1 DEF StepTo
  <2>3. Sound(At(pc, l), loops)
    BY <1>1, <1>s, <2>1 DEF Sound
  <2> QED BY <1>t, <2>1, <2>2, <2>3
<1>2. ASSUME ScheduleCallback(t) PROVE Goal
  <2>1. task[t].pc \in {"onElected", "onLost"} /\ task[t].loop = NoLoop
    BY <1>2, <1>p DEF ScheduleCallback, Creates, IsNext, Placed, Callbacks
  <2>2. PICK pc \in {"gained", "lost"} : task' = [task EXCEPT ![t] = At(pc, NoLoop)]
    BY <1>2 DEF ScheduleCallback, Suspend
  <2>3. pc \in PC /\ pc \notin InMatch /\ pc # "deleting" /\ Placed(At(pc, NoLoop)) /\ At(pc, NoLoop) # Idle
    BY DEF PC, InMatch, Placed, Callbacks, At, Idle
  <2>4. Turn(t, At(pc, NoLoop))
    BY <1>2, <2>2, <2>3 DEF ScheduleCallback, Creates, IsNext, Turn
  <2>5. Frame /\ gameLoop' = gameLoop /\ UNCHANGED loops
    BY <1>2, <1>t DEF ScheduleCallback, Frame, election
  <2> QED BY <1>1, <2>1, <2>3, <2>4, <2>5
\* Steps that end the task.
<1>3. ASSUME task' = [task EXCEPT ![t] = Idle], ready # <<>>, Head(ready) = t, ready' = Tail(ready),
             Frame, gameLoop' = gameLoop,
             Collect(loops) \/ (UNCHANGED loops /\ task[t].loop = NoLoop)
      PROVE  Goal
  <2>1. /\ Idle = At("idle", NoLoop) /\ "idle" \in PC /\ "idle" \notin InMatch /\ "idle" # "deleting"
        /\ Placed(At("idle", NoLoop))
    BY DEF Idle, PC, InMatch, Placed, Callbacks, At
  <2>2. Turn(t, At("idle", NoLoop))
    BY <1>3, <2>1 DEF Turn
  <2> QED BY <1>1, <1>3, <2>1, <2>2
<1>4. ASSUME Gained(t) PROVE Goal
  <2>0. ready # <<>> /\ Head(ready) = t /\ ready' = Tail(ready) /\ Frame /\ task[t].loop = NoLoop
    BY <1>4, <1>t, <1>p DEF Gained, Runs, IsNext, Frame, election, Placed, Callbacks
  <2>1. CASE AlreadyRunning
    BY <1>3, <1>4, <2>0, <2>1 DEF Gained, Finish
  <2>2. CASE ~AlreadyRunning
    <3> DEFINE x == At("loading", FreeLoop)
    <3>1. /\ x \in TaskState /\ x.pc = "loading" /\ x.loop = FreeLoop
      BY <1>f, AtTyped DEF PC
    <3>2. task' = [task EXCEPT ![t] = x] /\ gameLoop' = FreeLoop /\ Collect(loops)
      BY <1>4, <2>2 DEF Gained, Suspend
    <3> HIDE DEF x
    <3>3. StepTo(t, x, loops)
      BY <1>f, <2>0, <3>1, <3>2 DEF StepTo, Turn, Placed, Callbacks
    <3>4. Sound(x, loops)
      BY <1>f, <3>1, <3>2 DEF Sound, InMatch
    <3> QED BY <1>t, <3>1, <3>3, <3>4
  <2> QED BY <2>1, <2>2
<1>5. ASSUME Loaded(t) PROVE Goal
  <2>1. Placed(At("match", gameLoop)) /\ "match" \in PC /\ "match" \notin InMatch /\ At("match", gameLoop) # Idle
    BY DEF Placed, Callbacks, InMatch, PC, At, Idle
  <2>2. Turn(t, At("match", gameLoop)) /\ Frame /\ gameLoop' = gameLoop /\ Collect(loops)
    BY <1>5, <1>t, <2>1 DEF Loaded, Creates, IsNext, Suspend, Turn, Frame, election
  <2> QED BY <1>1, <1>t, <2>1, <2>2
<1>6. ASSUME LoadFails(t) \/ DeleteFails(t) \/ Closed(t) PROVE Goal
  <2>1. /\ task' = [task EXCEPT ![t] = Idle] /\ ready # <<>> /\ Head(ready) = t /\ ready' = Tail(ready)
        /\ Frame /\ gameLoop' = gameLoop
    BY <1>6, <1>t DEF LoadFails, DeleteFails, Closed, Runs, IsNext, Finish, Frame, election
  <2>2. Collect(loops) \/ (UNCHANGED loops /\ task[t].loop = NoLoop)
    BY <1>6, <1>p DEF LoadFails, DeleteFails, Closed, Runs, IsNext, Placed, Callbacks
  <2> QED BY <1>3, <2>1, <2>2
<1>7. ASSUME Lost(t) PROVE Goal
  <2> DEFINE x == At("closing", NoLoop)
             table == Stopped(gameLoop)
  <2>1. x \in TaskState /\ x.pc = "closing" /\ x.loop = NoLoop
    BY AtTyped DEF PC
  <2>2. /\ task' = [task EXCEPT ![t] = x] /\ ready # <<>> /\ Head(ready) = t /\ ready' = Tail(ready)
        /\ gameLoop' = NoLoop /\ Collect(table) /\ Frame
    BY <1>7, <1>t DEF Lost, Runs, IsNext, Suspend, Frame, election
  <2>3. /\ table \in [Loop -> LoopState]
        /\ \A l \in Loop : /\ l # gameLoop => table[l] = loops[l]
                           /\ l = gameLoop => /\ table[l].ended /\ ~table[l].running
                                              /\ table[l].over = loops[l].over
    BY StoppedTyped DEF IInv
  <2> HIDE DEF x, table
  <2>4. StepTo(t, x, table)
    BY <2>1, <2>2 DEF StepTo, Turn, Placed, InMatch
  <2>5. Sound(x, table)
    BY <2>1, <2>2, <2>3 DEF Sound, InMatch
  <2> QED BY <2>1, <2>3, <2>4, <2>5
\* Whoever starts a loop that has not ended otherwise.
<1>8. ASSUME NEW l \in Loop, task' = [task EXCEPT ![t] = At("announce", l)],
             Collect([loops EXCEPT ![l].running = TRUE]),
             ready # <<>>, Head(ready) = t, ready' = Tail(ready), Frame,
             gameLoop' = gameLoop \/ gameLoop' = FreeLoop
      PROVE  Goal
  <2> DEFINE x == At("announce", l)
             table == [loops EXCEPT ![l].running = TRUE]
  <2>1. x \in TaskState /\ x.pc = "announce" /\ x.loop = l
    BY AtTyped DEF PC, InMatch
  <2>2. /\ table \in [Loop -> LoopState] /\ table[l].running
        /\ \A k \in Loop : table[k].ended = loops[k].ended /\ table[k].over = loops[k].over
                           /\ (k # l => table[k].running = loops[k].running)
    <3> DEFINE started == [loops[l] EXCEPT !.running = TRUE]
    <3>1. started \in LoopState /\ started.running /\ started.ended = loops[l].ended /\ started.over = loops[l].over
      BY <1>t DEF LoopState
    <3>2. table = [loops EXCEPT ![l] = started]
      OBVIOUS
    <3> HIDE DEF started, table
    <3> QED BY <1>t, <3>1, <3>2
  <2>3. task' = [task EXCEPT ![t] = x] /\ Collect(table)
    BY <1>8
  <2> HIDE DEF x, table
  <2>4. StepTo(t, x, table)
    BY <1>8, <1>t, <1>f, <2>1, <2>3 DEF StepTo, Turn, Placed, Callbacks
  <2>5. Sound(x, table)
    <3>1. phase = "up" /\ gameLoop' # NoLoop => (table[gameLoop'].ended => table[gameLoop'].over)
      BY <1>8, <1>t, <1>f, <1>s, <2>2
    <3> QED BY <2>1, <2>2, <3>1 DEF Sound
  <2> QED BY <2>1, <2>2, <2>4, <2>5
<1>9. ASSUME Match(t) \/ NextMatch(t) PROVE Goal
  <2>1. ready # <<>> /\ Head(ready) = t /\ ready' = Tail(ready) /\ Frame
    BY <1>9, <1>t DEF Match, NextMatch, Runs, IsNext, Frame, election
  <2>2. CASE Match(t)
    <3>1. Run(t, task[t].loop) /\ gameLoop' = gameLoop /\ task[t].loop \in Loop \cup {NoLoop}
      BY <1>t, <2>2 DEF Match, TaskState
    <3>2. CASE task[t].loop = NoLoop
      BY <1>3, <2>1, <3>1, <3>2 DEF Run, Finish
    <3>3. CASE task[t].loop # NoLoop
      BY <1>8, <2>1, <3>1, <3>3 DEF Run, Suspend
    <3> QED BY <3>2, <3>3
  <2>3. CASE NextMatch(t)
    <3>1. Run(t, FreeLoop) /\ gameLoop' = FreeLoop /\ FreeLoop # NoLoop
      BY <1>t, <1>f, <2>3 DEF NextMatch
    <3> QED BY <1>8, <1>f, <2>1, <3>1 DEF Run, Suspend
  <2> QED BY <1>9, <2>2, <2>3
<1>10. ASSUME BeginTick(t) \/ EndTick(t) \/ Recorded(t) PROVE Goal
  <2>1. /\ ready # <<>> /\ Head(ready) = t /\ ready' = Tail(ready) /\ Frame
        /\ task[t].pc \in InMatch /\ gameLoop' = gameLoop /\ UNCHANGED loops
    BY <1>10, <1>t DEF BeginTick, EndTick, Recorded, Runs, IsNext, Frame, election, InMatch
  <2>2. PICK pc \in {"tick", "sleep"} : task' = [task EXCEPT ![t] = At(pc, task[t].loop)]
    BY <1>10 DEF BeginTick, EndTick, Recorded, Suspend
  <2>3. pc \in PC /\ pc \in InMatch /\ pc # "deleting"
    BY DEF PC, InMatch
  <2>4. task[t].loop \in Loop /\ (loops[task[t].loop].running \/ loops[task[t].loop].ended)
    BY <1>s, <2>1
  <2>5. Placed(At(pc, task[t].loop))
    BY <2>3, <2>4 DEF Placed, Callbacks, At
  <2>6. Turn(t, At(pc, task[t].loop))
    BY <2>1, <2>2 DEF Turn
  <2> QED BY <1>1, <2>1, <2>3, <2>4, <2>5, <2>6
<1>11. ASSUME LastTick(t) PROVE Goal
  <2> DEFINE l == task[t].loop
             x == At("ending", l)
             last == [loops[l] EXCEPT !.running = FALSE, !.ended = TRUE, !.over = TRUE]
             table == [loops EXCEPT ![l] = last]
  <2>1. /\ ready # <<>> /\ Head(ready) = t /\ ready' = Tail(ready) /\ Frame
        /\ task[t].pc \in InMatch /\ gameLoop' = gameLoop
        /\ loops' = table /\ task' = [task EXCEPT ![t] = x]
    BY <1>11, <1>t DEF LastTick, Runs, IsNext, Frame, election, InMatch, Suspend
  <2>2. l \in Loop
    BY <1>s, <2>1
  <2>3. x \in TaskState /\ x.pc = "ending" /\ x.loop = l
    BY <2>2, AtTyped DEF PC, InMatch
  <2>4. table \in [Loop -> LoopState] /\ table[l] = last /\ \A k \in Loop : k # l => table[k] = loops[k]
    <3>1. loops[l] \in LoopState
      BY <1>t, <2>2
    <3>2. last \in LoopState
      BY <3>1 DEF LoopState
    <3> HIDE DEF last
    <3> QED BY <1>t, <2>2, <3>2
  <2>5. last.ended /\ last.over
    BY <1>t, <2>2 DEF LoopState
  <2> HIDE DEF x, table, last
  <2>6. StepTo(t, x, table)
    BY <1>t, <2>1, <2>2, <2>3, <2>4 DEF StepTo, Turn, Placed, Callbacks
  <2>7. Sound(x, table)
    <3>1. phase = "up" /\ gameLoop' # NoLoop => (table[gameLoop'].ended => table[gameLoop'].over)
      BY <1>t, <1>s, <2>1, <2>4, <2>5
    <3> QED BY <1>s, <2>1, <2>3, <2>4, <2>5, <3>1 DEF Sound
  <2> QED BY <2>3, <2>4, <2>6, <2>7
<1>12. ASSUME RunReturns(t) PROVE Goal
  <2>1. /\ ready # <<>> /\ Head(ready) = t /\ ready' = Tail(ready) /\ Frame
        /\ task[t].pc \in InMatch /\ gameLoop' = gameLoop /\ Collect(loops)
        /\ ~KeepsRunning(task[t].loop)
    BY <1>12, <1>t DEF RunReturns, Runs, IsNext, Frame, election, InMatch
  <2>2. CASE Continues(task[t].loop)
    <3> DEFINE l == task[t].loop
    <3>1. l \in Loop /\ gameLoop = l /\ loops[l].ended
      BY <1>s, <2>1, <2>2 DEF KeepsRunning, Continues
    <3>2. phase = "up" => loops[l].over
      BY <1>t, <1>s, <3>1
    <3>3. "deleting" \in PC /\ "deleting" \in InMatch /\ Placed(At("deleting", l))
      BY <3>1 DEF PC, InMatch, Placed, Callbacks, At
    <3>4. Turn(t, At("deleting", l))
      BY <1>12, <2>1, <2>2 DEF RunReturns, Suspend, Turn
    <3> HIDE DEF l
    <3> QED BY <1>1, <2>1, <3>1, <3>2, <3>3, <3>4
  <2>3. CASE ~Continues(task[t].loop)
    BY <1>3, <1>12, <2>1, <2>3 DEF RunReturns, Finish
  <2> QED BY <2>2, <2>3
<1> QED
  BY <1>2, <1>4, <1>5, <1>6, <1>7, <1>9, <1>10, <1>11, <1>12 DEF Step

-----------------------------------------------------------------------------
(* The other steps *)

LEMMA InitInvariant == Init => IInv
<1> SUFFICES ASSUME Init PROVE IInv
  OBVIOUS
<1>1. task \in [Task -> TaskState] /\ \A t \in Task : task[t].pc = "idle" /\ task[t].loop = NoLoop
  BY IdleTyped DEF Init
<1>2. loops \in [Loop -> LoopState] /\ \A l \in Loop : loops[l] = NewLoop
  BY NewLoopTyped DEF Init
<1>3. ready \in Seq(Task) /\ Len(ready) = 0 /\ DOMAIN ready = {}
  BY EmptySeq, LenProperties DEF Init
<1>4. Election!TypeOK
  BY DEF Init, Election!Init, Election!TypeOK, Election!Callback
<1>5. 0 \in 0 .. MaxTerms /\ 0 \in 0 .. MaxFaults
  BY BoundAssumption
<1>6. TypeOK
  BY <1>1, <1>2, <1>3, <1>4, <1>5 DEF Init, TypeOK, TaskState, LoopState, IsInjective
<1>7. TaskLoops /\ LoopsAreStarted /\ ErasesOnlyFinishedMatch
  BY <1>1 DEF TaskLoops, LoopsAreStarted, ErasesOnlyFinishedMatch, InMatch
<1>8. QueuedHaveWork /\ OthersAreNew /\ CurrentEndsOver
  BY <1>2, <1>3 DEF Init, QueuedHaveWork, OthersAreNew, CurrentEndsOver
<1> QED BY <1>6, <1>7, <1>8 DEF IInv

\* The steps of the election, seen from here.
LEMMA ElectionTyped ==
    ASSUME Election!TypeOK,
           \/ Election!Acquire(Self) \/ Election!Release \/ Election!Resign(Self)
           \/ Election!TellElected(Self) \/ Election!TellLost(Self) \/ Election!Quit(Self)
    PROVE  Election!TypeOK'
  BY DEF Election!TypeOK, Election!Callback, Election!Acquire, Election!Release, Election!Resign,
         Election!TellElected, Election!TellLost, Election!Quit

LEMMA ElectionStep ==
    ASSUME IInv, Elect \/ Release \/ Resign PROVE IInv'
<1>1. UNCHANGED room /\ Election!TypeOK' /\ terms' \in 0 .. MaxTerms
  BY BoundAssumption, ElectionTyped DEF IInv, TypeOK, Elect, Release, Resign
<1>2. UNCHANGED <<phase, gameLoop, loops, task, ready, faults>>
  BY <1>1 DEF room
<1>3. TypeOK'
  BY <1>1, <1>2 DEF IInv, TypeOK
<1> QED
  BY <1>2, <1>3 DEF IInv, QueuedHaveWork, TaskLoops, OthersAreNew, Named, LoopsAreStarted,
                    CurrentEndsOver, ErasesOnlyFinishedMatch

\* A callback is queued, in a task of its own.
LEMMA AnnounceStep == ASSUME IInv, Announce PROVE IInv'
<1>1. PICK pc \in {"onElected", "onLost"} : Dispatch(pc)
  BY DEF Announce, OnElected, OnLost
<1>2. UNCHANGED <<phase, gameLoop, loops, terms, faults>> /\ Election!TypeOK'
  BY ElectionTyped DEF Announce, OnElected, OnLost, IInv, TypeOK
<1> DEFINE t == CHOOSE t \in FreeTask : TRUE
           x == At(pc, NoLoop)
<1>3. t \in Task /\ task[t] = Idle /\ task' = [task EXCEPT ![t] = x] /\ ready' = Append(ready, t)
  BY <1>1 DEF Dispatch, FreeTask
<1>4. pc \in PC /\ pc \in Callbacks /\ pc \notin InMatch \cup {"loading"} /\ pc # "idle" /\ pc # "deleting"
  BY DEF PC, Callbacks, InMatch
<1>5. x \in TaskState /\ x # Idle /\ x.pc = pc /\ x.loop = NoLoop
  BY <1>4, AtTyped
<1> HIDE DEF t, x
<1>6. ~Queued(t)
  BY <1>3 DEF IInv, QueuedHaveWork, Queued
<1>7. task' \in [Task -> TaskState] /\ QueueTyped' /\ QueuedHaveWork'
  BY <1>3, <1>5, <1>6, ArrivalKeepsQueue DEF IInv
<1>8. \A u \in Task : task'[u] = IF u = t THEN x ELSE task[u]
  BY <1>3 DEF IInv, TypeOK
<1>9. TypeOK'
  BY <1>2, <1>7 DEF IInv, TypeOK, TaskState, QueueTyped
<1>10. TaskLoops'
  BY <1>4, <1>5, <1>8, TaskLoopsPlaced, TaskLoopsPlacedNext DEF IInv, Placed
<1>11. OthersAreNew'
  <2>1. \A l \in Loop : Named(l) => Named(l)'
    BY <1>2, <1>3, <1>8, NoneAssumption, IdleTyped DEF Named, NoLoop
  <2> QED BY <1>2, <2>1 DEF IInv, OthersAreNew
<1>12. LoopsAreStarted' /\ ErasesOnlyFinishedMatch'
  BY <1>2, <1>4, <1>5, <1>8 DEF IInv, LoopsAreStarted, ErasesOnlyFinishedMatch
<1>13. CurrentEndsOver'
  BY <1>2 DEF IInv, CurrentEndsOver
<1> QED BY <1>7, <1>9, <1>10, <1>11, <1>12, <1>13 DEF IInv

LEMMA WakeStep == ASSUME IInv, NEW t \in Task, Wake(t) PROVE IInv'
<1>1. /\ UNCHANGED <<holder, isLeader, told, terms, phase, gameLoop, loops, task, faults>>
      /\ task[t] # Idle /\ ~Queued(t) /\ ready' = Append(ready, t)
  BY DEF Wake, election
<1>2. task[t] \in TaskState /\ task' = [task EXCEPT ![t] = task[t]]
  BY <1>1 DEF IInv, TypeOK, TaskState
<1>3. QueueTyped' /\ QueuedHaveWork'
  BY <1>1, <1>2, ArrivalKeepsQueue DEF IInv
<1>4. TypeOK'
  BY <1>1, <1>3 DEF IInv, TypeOK, QueueTyped, Election!TypeOK
<1> QED
  BY <1>1, <1>3, <1>4 DEF IInv, TaskLoops, OthersAreNew, Named, LoopsAreStarted,
                          CurrentEndsOver, ErasesOnlyFinishedMatch

LEMMA ShutdownStep == ASSUME IInv, Shutdown PROVE IInv'
<1> DEFINE table == Stopped(gameLoop)
<1>1. /\ UNCHANGED <<holder, isLeader, told, terms, gameLoop, task, ready>>
      /\ phase' = "stopping" /\ loops' = table /\ faults' \in 0 .. MaxFaults
  BY BoundAssumption DEF Shutdown, election, Fault, IInv, TypeOK
<1>2. /\ table \in [Loop -> LoopState]
      /\ \A l \in Loop : /\ l # gameLoop => table[l] = loops[l]
                         /\ l = gameLoop => table[l].ended /\ ~table[l].running /\ table[l].over = loops[l].over
  BY StoppedTyped DEF IInv
<1> HIDE DEF table
<1>3. TypeOK'
  BY <1>1, <1>2 DEF IInv, TypeOK, LoopState, Election!TypeOK
<1>4. OthersAreNew'
  BY <1>1, <1>2 DEF IInv, OthersAreNew, Named
<1>5. LoopsAreStarted'
  BY <1>1, <1>2 DEF IInv, LoopsAreStarted, TaskLoops
<1> QED
  BY <1>1, <1>3, <1>4, <1>5
  DEF IInv, QueuedHaveWork, TaskLoops, CurrentEndsOver, ErasesOnlyFinishedMatch

LEMMA ExitStep == ASSUME IInv, Exit PROVE IInv'
<1>1. /\ phase' = "down" /\ gameLoop' = NoLoop /\ loops' = [l \in Loop |-> NewLoop]
      /\ task' = [t \in Task |-> Idle] /\ ready' = <<>> /\ UNCHANGED <<terms, faults>>
      /\ Election!TypeOK'
  BY ElectionTyped DEF Exit, IInv, TypeOK
<1>2. /\ task' \in [Task -> TaskState] /\ loops' \in [Loop -> LoopState]
      /\ \A t \in Task : task'[t].pc = "idle" /\ task'[t].loop = NoLoop
  BY <1>1, IdleTyped, NewLoopTyped
<1>3. ready' \in Seq(Task) /\ DOMAIN ready' = {}
  BY <1>1, EmptySeq, LenProperties
<1>4. TypeOK'
  BY <1>1, <1>2, <1>3 DEF IInv, TypeOK, TaskState, LoopState, IsInjective
<1>5. TaskLoops' /\ LoopsAreStarted' /\ ErasesOnlyFinishedMatch' /\ CurrentEndsOver'
  BY <1>1, <1>2 DEF TaskLoops, LoopsAreStarted, ErasesOnlyFinishedMatch, CurrentEndsOver, InMatch
<1>6. QueuedHaveWork' /\ OthersAreNew'
  BY <1>1, <1>3 DEF QueuedHaveWork, OthersAreNew
<1> QED BY <1>4, <1>5, <1>6 DEF IInv

LEMMA NextInvariant == IInv /\ [Next]_vars => IInv'
<1> SUFFICES ASSUME IInv, [Next]_vars PROVE IInv'
  OBVIOUS
<1>1. ASSUME NEW t \in Task, Step(t) PROVE IInv'
  BY <1>1, StepForm, StepKeeps
<1>2. CASE UNCHANGED vars
  BY <1>2 DEF vars, IInv, TypeOK, Election!TypeOK, QueuedHaveWork, TaskLoops, OthersAreNew, Named,
              LoopsAreStarted, CurrentEndsOver, ErasesOnlyFinishedMatch
<1> QED
  BY <1>1, <1>2, ElectionStep, AnnounceStep, WakeStep, ShutdownStep, ExitStep DEF Next

(***************************************************************************)
(* Throughout: types, a queue of tasks that have work, loops that are kept *)
(* as long as they are named, and no saved match erased before its end.    *)
(***************************************************************************)
THEOREM RoomInvariant == Spec => []IInv
  BY InitInvariant, NextInvariant, PTL DEF Spec

(***************************************************************************)
(* The state keeps its types: among them, no task is queued twice.         *)
(***************************************************************************)
THEOREM TypeCorrect == Spec => []TypeOK
<1>1. IInv => TypeOK BY DEF IInv
<1> QED BY <1>1, RoomInvariant, PTL

(***************************************************************************)
(* run_matches deletes the keys of a match only when that match reached    *)
(* its end, for any number of tasks and of elections, however slow a load. *)
(***************************************************************************)
THEOREM ErasesFinished == Spec => []ErasesOnlyFinishedMatch
<1>1. IInv => ErasesOnlyFinishedMatch BY DEF IInv
<1> QED BY <1>1, RoomInvariant, PTL

-----------------------------------------------------------------------------
(* When a match outlasts every load *)

Player(t) == task[t].pc \in {"announce", "sleep", "tick"}
HasCurrent == phase = "up" /\ gameLoop # NoLoop

\* A current loop that says it runs has not ended, and a task plays it.
RunningIsPlayed ==
    HasCurrent /\ loops[gameLoop].running
        => ~loops[gameLoop].ended /\ \E t \in Task : task[t].loop = gameLoop /\ Player(t)

\* Nobody is about to play a current loop that has ended.
EndedIsLeft ==
    HasCurrent /\ loops[gameLoop].ended
        => \A t \in Task : task[t].pc # "loading" /\ (task[t].pc = "match" => task[t].loop # gameLoop)

RInv == RunningIsPlayed /\ EndedIsLeft

\* A step that leaves the current loop as it is, and its players their match.
LEMMA SameCurrent ==
    ASSUME IInv, RInv, NEW t \in Task, phase' = phase, gameLoop' = gameLoop,
           HasCurrent => loops'[gameLoop] = loops[gameLoop],
           \A u \in Task : u # t => task'[u] = task[u],
           task'[t].pc # "loading",
           task'[t].pc = "match" => task[t].pc = "loading",
           HasCurrent /\ Player(t) /\ task[t].loop = gameLoop
               => \/ ~loops[gameLoop].running \/ loops[gameLoop].ended
                  \/ task'[t].loop = gameLoop /\ task'[t].pc \in {"announce", "sleep", "tick"}
    PROVE  RInv'
<1>1. RunningIsPlayed'
  <2> SUFFICES ASSUME HasCurrent, loops[gameLoop].running
               PROVE  ~loops[gameLoop].ended
                      /\ \E u \in Task : task'[u].loop = gameLoop /\ task'[u].pc \in {"announce", "sleep", "tick"}
    BY DEF RunningIsPlayed, HasCurrent, Player
  <2>1. PICK u \in Task : task[u].loop = gameLoop /\ Player(u) /\ ~loops[gameLoop].ended
    BY DEF RInv, RunningIsPlayed
  <2>2. CASE u = t
    BY <2>1, <2>2
  <2>3. CASE u # t
    BY <2>1, <2>3 DEF Player
  <2> QED BY <2>1, <2>2, <2>3
<1>2. EndedIsLeft'
  BY DEF RInv, EndedIsLeft, HasCurrent
<1> QED BY <1>1, <1>2 DEF RInv

\* A new loop becomes the current one: if it runs, the task that made it plays it.
LEMMA NewCurrent ==
    ASSUME NEW t \in Task, ~loops'[gameLoop'].ended,
           loops'[gameLoop'].running => task'[t].loop = gameLoop' /\ task'[t].pc = "announce"
    PROVE  RInv'
  BY DEF RInv, RunningIsPlayed, EndedIsLeft, Player

LEMMA OneTaskMoves ==
    ASSUME IInv, NEW t \in Task, NEW x, task' = [task EXCEPT ![t] = x]
    PROVE  task'[t] = x /\ \A u \in Task : u # t => task'[u] = task[u]
  BY DEF IInv, TypeOK

\* The current loop is always kept.
LEMMA CollectKeepsCurrent ==
    ASSUME NEW table, Collect(table), gameLoop' \in Loop
    PROVE  loops'[gameLoop'] = table[gameLoop']
  BY DEF Collect

\* A loop is started: it ends no sooner, and the others stay.
LEMMA StartKeepsCurrent ==
    ASSUME loops \in [Loop -> LoopState], NEW l \in Loop, gameLoop' \in Loop,
           Collect([loops EXCEPT ![l].running = TRUE])
    PROVE  /\ gameLoop' # l => loops'[gameLoop'] = loops[gameLoop']
           /\ loops'[gameLoop'].ended = loops[gameLoop'].ended
<1> DEFINE started == [loops[l] EXCEPT !.running = TRUE]
           table == [loops EXCEPT ![l] = started]
<1>1. started.ended = loops[l].ended
  BY DEF LoopState
<1>2. loops'[gameLoop'] = table[gameLoop']
  <2>1. Collect(table)
    OBVIOUS
  <2> HIDE DEF table
  <2> QED BY <2>1, CollectKeepsCurrent
<1> HIDE DEF started
<1> QED BY <1>1, <1>2

LEMMA StepRefusal ==
    ASSUME ~SlowLoads, IInv, RInv, NEW t \in Task, Step(t)
    PROVE  RInv'
<1>g. gameLoop \in Loop \cup {NoLoop} /\ loops \in [Loop -> LoopState] /\ task \in [Task -> TaskState]
  BY DEF IInv, TypeOK, TaskState, LoopState
<1>c. HasCurrent => gameLoop \in Loop
  BY <1>g DEF HasCurrent
<1>f. FreeLoop \in Loop /\ FreeLoop # gameLoop /\ ~loops[FreeLoop].running /\ ~loops[FreeLoop].ended
  BY FreeLoopIsNew, NewLoopTyped DEF IInv
<1>i. Idle.pc = "idle"
  BY IdleTyped
<1>a. ASSUME NEW pc, NEW l, task' = [task EXCEPT ![t] = At(pc, l)]
      PROVE  task'[t].pc = pc /\ task'[t].loop = l /\ \A u \in Task : u # t => task'[u] = task[u]
  <2>1. At(pc, l).pc = pc /\ At(pc, l).loop = l
    BY DEF At
  <2> DEFINE x == At(pc, l)
  <2>2. task' = [task EXCEPT ![t] = x] /\ x.pc = pc /\ x.loop = l
    BY <1>a, <2>1
  <2> HIDE DEF x
  <2> QED BY <2>2, OneTaskMoves
\* A task that was not playing becomes something that does not load.
<1>1. ASSUME NEW pc, NEW l, task' = [task EXCEPT ![t] = At(pc, l)],
             phase' = phase, gameLoop' = gameLoop, Collect(loops) \/ UNCHANGED loops,
             pc # "loading", pc = "match" => task[t].pc = "loading",
             HasCurrent /\ Player(t) /\ task[t].loop = gameLoop
                 => \/ ~loops[gameLoop].running \/ loops[gameLoop].ended
                    \/ l = gameLoop /\ pc \in {"announce", "sleep", "tick"}
      PROVE  RInv'
  <2>2. task'[t].pc = pc /\ task'[t].loop = l /\ \A u \in Task : u # t => task'[u] = task[u]
    BY <1>1, <1>a
  <2>3. HasCurrent => loops'[gameLoop] = loops[gameLoop]
    BY <1>1, <1>c, CollectKeepsCurrent
  <2> QED BY <1>1, <2>2, <2>3, SameCurrent
<1>2. ASSUME ScheduleCallback(t) PROVE RInv'
  <2>1. PICK pc \in {"gained", "lost"} : task' = [task EXCEPT ![t] = At(pc, NoLoop)]
    BY <1>2 DEF ScheduleCallback, Suspend
  <2>2. phase' = phase /\ gameLoop' = gameLoop /\ UNCHANGED loops /\ ~Player(t)
    BY <1>2 DEF ScheduleCallback, Creates, IsNext, Player
  <2> QED BY <1>1, <2>1, <2>2
<1>3. ASSUME Gained(t) PROVE RInv'
  <2>1. CASE AlreadyRunning
    BY <1>1, <1>3, <2>1 DEF Gained, Finish, Idle, Runs, IsNext, Player
  <2>2. CASE ~AlreadyRunning
    <3>1. gameLoop' = FreeLoop /\ Collect(loops)
      BY <1>3, <2>2 DEF Gained
    <3>2. loops'[gameLoop'] = loops[FreeLoop]
      BY <1>f, <3>1, CollectKeepsCurrent
    <3> QED BY <1>f, <3>2, NewCurrent
  <2> QED BY <2>1, <2>2
<1>4. ASSUME Loaded(t) PROVE RInv'
  <2>1. task' = [task EXCEPT ![t] = At("match", gameLoop)] /\ task[t].pc = "loading" /\ ~Player(t)
    BY <1>4 DEF Loaded, Creates, IsNext, Suspend, Player
  <2> QED BY <1>1, <1>4, <2>1 DEF Loaded
<1>5. ASSUME LoadFails(t) \/ Closed(t) \/ DeleteFails(t) PROVE RInv'
  <2>1. /\ task' = [task EXCEPT ![t] = At("idle", NoLoop)] /\ ~Player(t)
        /\ phase' = phase /\ gameLoop' = gameLoop /\ (Collect(loops) \/ UNCHANGED loops)
    BY <1>5 DEF LoadFails, Closed, DeleteFails, Runs, IsNext, Finish, Idle, Player
  <2> QED BY <1>1, <2>1
<1>6. ASSUME Lost(t) PROVE RInv'
  BY <1>6 DEF Lost, RInv, RunningIsPlayed, EndedIsLeft, HasCurrent
\* The loop that starts, if it is the current one, had not ended.
<1>7. ASSUME Match(t) PROVE RInv'
  <2> DEFINE l == task[t].loop
  <2>1. l \in Loop \cup {NoLoop} /\ Run(t, l) /\ phase' = phase /\ gameLoop' = gameLoop /\ task[t].pc = "match"
    BY <1>7, <1>g DEF Match, Runs, IsNext, TaskState
  <2>2. CASE l = NoLoop
    BY <1>1, <2>1, <2>2 DEF Run, Finish, Idle, Player
  <2>3. CASE l # NoLoop
    <3>1. /\ task' = [task EXCEPT ![t] = At("announce", l)]
          /\ Collect([loops EXCEPT ![l].running = TRUE]) /\ l \in Loop
      BY <2>1, <2>3 DEF Run, Suspend
    <3>2. task'[t].pc = "announce" /\ task'[t].loop = l /\ \A u \in Task : u # t => task'[u] = task[u]
      BY <1>a, <3>1
    <3>3. CASE l = gameLoop /\ phase = "up"
      <4>1. ~loops[gameLoop].ended
        BY <2>1, <2>3, <3>3 DEF RInv, EndedIsLeft, HasCurrent
      <4>2. loops'[gameLoop'].ended = loops[gameLoop].ended
        BY <1>g, <2>1, <3>1, <3>3, StartKeepsCurrent
      <4> QED BY <2>1, <3>2, <3>3, <4>1, <4>2, NewCurrent
    <3>4. CASE l # gameLoop
      <4>1. HasCurrent => loops'[gameLoop] = loops[gameLoop]
        BY <1>g, <1>c, <2>1, <3>1, <3>4, StartKeepsCurrent
      <4>2. ~Player(t)
        BY <2>1 DEF Player
      <4> QED BY <2>1, <3>2, <4>1, <4>2, SameCurrent
    <3>5. CASE phase # "up"
      BY <2>1, <3>5 DEF RInv, RunningIsPlayed, EndedIsLeft, HasCurrent
    <3> QED BY <3>3, <3>4, <3>5
  <2> QED BY <2>2, <2>3
<1>8. ASSUME BeginTick(t) \/ EndTick(t) \/ Recorded(t) PROVE RInv'
  <2>1. PICK pc \in {"tick", "sleep"} : task' = [task EXCEPT ![t] = At(pc, task[t].loop)]
    BY <1>8 DEF BeginTick, EndTick, Recorded, Suspend
  <2>2. phase' = phase /\ gameLoop' = gameLoop /\ UNCHANGED loops
    BY <1>8 DEF BeginTick, EndTick, Recorded
  <2> QED BY <1>1, <2>1, <2>2
\* A match that ends finds nobody on the way to a loop.
<1>9. ASSUME LastTick(t) PROVE RInv'
  <2> DEFINE l == task[t].loop
             last == [loops[l] EXCEPT !.running = FALSE, !.ended = TRUE, !.over = TRUE]
  <2>1. /\ task' = [task EXCEPT ![t] = At("ending", l)] /\ loops' = [loops EXCEPT ![l] = last]
        /\ phase' = phase /\ gameLoop' = gameLoop
        /\ \A u \in Task : task[u].pc \notin {"loading", "match"}
    BY <1>9 DEF LastTick, Suspend
  <2>2. task'[t].pc = "ending" /\ task'[t].loop = l /\ \A u \in Task : u # t => task'[u] = task[u]
    BY <1>a, <2>1
  <2>3. CASE HasCurrent /\ l = gameLoop
    <3>1. loops'[gameLoop'] = last /\ ~last.running
      BY <1>g, <1>c, <2>1, <2>3
    <3>2. \A u \in Task : task'[u].pc \notin {"loading", "match"}
      BY <2>1, <2>2
    <3> QED BY <3>1, <3>2 DEF RInv, RunningIsPlayed, EndedIsLeft
  <2>4. CASE ~(HasCurrent /\ l = gameLoop)
    <3>1. HasCurrent => loops'[gameLoop] = loops[gameLoop]
      BY <1>g, <1>c, <2>1, <2>4
    <3> QED BY <2>1, <2>2, <2>4, <3>1, SameCurrent
  <2> QED BY <2>3, <2>4
\* run() returns only on a loop that does not run, or has ended.
<1>10. ASSUME RunReturns(t) PROVE RInv'
  <2>1. /\ phase' = phase /\ gameLoop' = gameLoop /\ Collect(loops)
        /\ ~loops[task[t].loop].running \/ loops[task[t].loop].ended
    BY <1>10 DEF RunReturns, KeepsRunning
  <2>2. \/ task' = [task EXCEPT ![t] = At("deleting", task[t].loop)]
        \/ task' = [task EXCEPT ![t] = At("idle", NoLoop)]
    BY <1>10 DEF RunReturns, Suspend, Finish, Idle
  <2> QED BY <1>1, <2>1, <2>2
<1>11. ASSUME NextMatch(t) PROVE RInv'
  <2>1. /\ task' = [task EXCEPT ![t] = At("announce", FreeLoop)] /\ gameLoop' = FreeLoop
        /\ Collect([loops EXCEPT ![FreeLoop].running = TRUE])
    BY <1>11, FreeLoopIsNew DEF NextMatch, Run, Suspend, IInv
  <2>2. task'[t].pc = "announce" /\ task'[t].loop = FreeLoop
    BY <1>a, <2>1
  <2>3. loops'[gameLoop'].ended = loops[FreeLoop].ended
    BY <1>f, <1>g, <2>1, StartKeepsCurrent
  <2> QED BY <1>f, <2>1, <2>2, <2>3, NewCurrent
<1> QED
  BY <1>2, <1>3, <1>4, <1>5, <1>6, <1>7, <1>8, <1>9, <1>10, <1>11 DEF Step

LEMMA NextRefusal == ~SlowLoads /\ IInv /\ RInv /\ [Next]_vars => RInv'
<1> SUFFICES ASSUME ~SlowLoads, IInv, RInv, [Next]_vars PROVE RInv'
  OBVIOUS
<1>1. CASE \E t \in Task : Step(t)
  BY <1>1, StepRefusal
<1>2. CASE UNCHANGED vars \/ Elect \/ Release \/ Resign \/ \E t \in Task : Wake(t)
  BY <1>2 DEF Elect, Release, Resign, room, Wake, vars,
              RInv, RunningIsPlayed, EndedIsLeft, HasCurrent, Player
<1>3. CASE Announce
  <2>1. PICK pc \in {"onElected", "onLost"} : Dispatch(pc) /\ UNCHANGED <<phase, gameLoop, loops>>
    BY <1>3 DEF Announce, OnElected, OnLost
  <2> DEFINE t == CHOOSE t \in FreeTask : TRUE
             x == At(pc, NoLoop)
  <2>2. t \in Task /\ task[t] = Idle /\ task' = [task EXCEPT ![t] = x]
    BY <2>1 DEF Dispatch, FreeTask
  <2> HIDE DEF t
  <2>3. task'[t] = x /\ x.pc = pc /\ \A u \in Task : u # t => task'[u] = task[u]
    BY <2>2, OneTaskMoves DEF At
  <2>4. ~Player(t)
    BY <2>2, IdleTyped DEF Player
  <2> HIDE DEF x
  <2> QED BY <2>1, <2>2, <2>3, <2>4, SameCurrent
<1>4. CASE Shutdown \/ Exit
  BY <1>4 DEF Shutdown, Exit, RInv, RunningIsPlayed, EndedIsLeft, HasCurrent
<1> QED BY <1>1, <1>2, <1>3, <1>4 DEF Next

(***************************************************************************)
(* If no match ends while a task loads, or comes to play, a state, then a  *)
(* leader that handle_leadership_gained refuses to start again is playing, *)
(* for any number of tasks, elections, failures and shutdowns.             *)
(***************************************************************************)
THEOREM RefusalJustified == ASSUME ~SlowLoads PROVE Spec => []RefusalIsJustified
<1>1. Init => RInv
  BY DEF Init, RInv, RunningIsPlayed, EndedIsLeft, HasCurrent
<1>2. IInv /\ RInv /\ [Next]_vars => RInv'
  BY NextRefusal
<1>3. RInv => RefusalIsJustified
  BY DEF RInv, RunningIsPlayed, HasCurrent, Player, RefusalIsJustified, AlreadyRunning, Playing, KeepsRunning
<1> QED BY <1>1, <1>2, <1>3, RoomInvariant, PTL DEF Spec
=============================================================================
