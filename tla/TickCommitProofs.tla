-------------------------- MODULE TickCommitProofs --------------------------
(***************************************************************************)
(* Proofs about TickCommit.tla: types, Redis never ahead of the log and    *)
(* results of whole matches, for any terms, duration, log and faults; and  *)
(* for one match that no tick is skipped, and that its clock is not taken  *)
(* back while terms do not overlap and no replay is cut short.             *)
(***************************************************************************)
EXTENDS TickCommit, SequenceTheorems, TLAPS

\* The event a term waits for, once in the log, is the tick after its state.
SentIsLogged == \A t \in Term : pc[t] = "sent" /\ at[t] # 0 =>
                    at[t] \in DOMAIN log /\ log[at[t]] = NextEvent(t)

\* What a term is about to write to Redis is in the log.
WriteIsLogged == \A t \in Term : pc[t] \in Writing =>
                     /\ mem[t].at \in DOMAIN log
                     /\ log[mem[t].at] = [tick |-> mem[t].tick, match |-> mem[t].match]
                     /\ mem[t].offset <= Len(log)

IInv == TypeOK /\ RedisNeverAheadOfLog /\ SentIsLogged /\ WriteIsLogged

-----------------------------------------------------------------------------
(* Types *)

\* The initial state is well typed.
LEMMA InitTyped == Init => TypeOK
<1> SUFFICES ASSUME Init PROVE TypeOK OBVIOUS
<1>1. LogOK /\ RedisOK BY DEF Init, LogOK, RedisOK, NoRedis
<1>2. TermOK BY DEF Init, TermOK, Role, PC
<1>3. MemOK BY DEF Init, MemOK, Memory
<1>4. CountersOK BY ConstantAssumption DEF Init, CountersOK
<1> QED BY <1>1, <1>2, <1>3, <1>4 DEF TypeOK

\* The length of the log is one of the counts a replay may stop at.
LEMMA LogLength == TypeOK => Len(log) \in 0 .. Len(log)
BY DEF TypeOK, LogOK

\* Every action keeps role, pc, flying and at well typed.
LEMMA TermTyped == ASSUME TypeOK, Next PROVE TermOK'
<1> USE DEF TypeOK, TermOK, LogOK
<1>1. CASE KeyGone BY <1>1 DEF KeyGone, kafka
<1>2. CASE RedisLoss BY <1>2 DEF RedisLoss, leadership, kafka
<1>0. ASSUME NEW event \in stray, ArriveLate(event) PROVE TermOK' BY <1>0 DEF ArriveLate, leadership
<1>3. ASSUME NEW t \in Term, Step(t) PROVE TermOK'
  <2>1. CASE Elect(t) \/ Resign(t) \/ Stop(t) \/ Crash(t)
    <3>1. role' \in [Term -> Role] BY <2>1 DEF Elect, Resign, Stop, Crash, Becomes, Role, leadership
    <3>2. pc' \in [Term -> PC] BY <2>1 DEF Elect, Resign, Stop, Crash, Goes, PC, Loading
    <3>3. UNCHANGED kafka BY <2>1 DEF Elect, Resign, Stop, Crash
    <3> QED BY <3>1, <3>2, <3>3 DEF kafka
  <2>2. CASE GetState(t) \/ GetOffset(t) \/ Replay(t) \/ LoadFails(t)
    <3>1. pc' \in [Term -> PC] BY <2>2 DEF GetState, GetOffset, Replay, LoadFails, Goes, Loaded, PC, Loading
    <3>2. UNCHANGED <<leadership, kafka>> BY <2>2 DEF GetState, GetOffset, Replay, LoadFails
    <3> QED BY <3>1, <3>2 DEF kafka, leadership
  <2>3. CASE Send(t) \/ Ack(t) \/ Nack(t)
    <3>1. pc' \in [Term -> PC] BY <2>3 DEF Send, Ack, Nack, Goes, PC, Writing
    <3>2. flying' \in [Term -> BOOLEAN]
      <4>1. CASE Send(t) BY <4>1 DEF Send
      <4>2. CASE Ack(t) BY <4>2 DEF Ack, kafka
      <4>3. CASE Nack(t) BY <4>3 DEF Nack
      <4> QED BY <2>3, <4>1, <4>2, <4>3
    <3>3. at' \in [Term -> Nat]
      <4>1. CASE Send(t) BY <4>1 DEF Send
      <4>2. CASE Ack(t) \/ Nack(t) BY <4>2 DEF Ack, Nack, kafka
      <4> QED BY <2>3, <4>1, <4>2
    <3>4. UNCHANGED leadership BY <2>3 DEF Send, Ack, Nack
    <3> QED BY <3>1, <3>2, <3>3, <3>4 DEF leadership
  <2>4. CASE Arrive(t)
    <3>1. Len(log') \in Nat BY <2>4 DEF Arrive
    <3> QED BY <2>4, <3>1 DEF Arrive, leadership
  <2>5. CASE SetState(t) \/ SetOffset(t) \/ RedisFails(t)
    <3>1. pc' \in [Term -> PC] BY <2>5 DEF SetState, SetOffset, RedisFails, Goes, PC, Writing
    <3>2. UNCHANGED <<leadership, kafka>> BY <2>5 DEF SetState, SetOffset, RedisFails
    <3> QED BY <3>1, <3>2 DEF kafka, leadership
  <2>6. CASE EndMatch(t) \/ RunReturns(t) \/ NextMatch(t) \/ EraseFails(t)
    <3>1. pc' \in [Term -> PC] BY <2>6 DEF EndMatch, RunReturns, NextMatch, EraseFails, Goes, PC
    <3>2. role' \in [Term -> Role] /\ UNCHANGED kafka
      BY <2>6 DEF EndMatch, RunReturns, NextMatch, EraseFails, Becomes, Role, leadership
    <3> QED BY <3>1, <3>2 DEF kafka
  <2> QED BY <1>3, <2>1, <2>2, <2>3, <2>4, <2>5, <2>6 DEF Step
<1> QED BY <1>0, <1>1, <1>2, <1>3 DEF Next

\* What a term remembers is a state: fresh, read from Redis, replayed or advanced.
LEMMA MemTyped == ASSUME TypeOK, Next PROVE MemOK'
<1> USE DEF TypeOK, MemOK
<1>1. CASE KeyGone BY <1>1 DEF KeyGone
<1>2. CASE RedisLoss BY <1>2 DEF RedisLoss
<1>0. ASSUME NEW event \in stray, ArriveLate(event) PROVE MemOK' BY <1>0 DEF ArriveLate
<1>3. ASSUME NEW t \in Term, Step(t) PROVE MemOK'
  <2>1. ASSUME NEW m \in Memory, Remembers(t, m) PROVE MemOK' BY <2>1 DEF Remembers
  <2>2. CASE Elect(t)
    <3>1. Fresh(matches) \in Memory BY DEF Fresh, Memory, CountersOK
    <3> QED BY <2>1, <2>2, <3>1 DEF Elect
  <2>3. CASE GetState(t)
    <3>1. CASE redis.state = None BY <2>3, <3>1 DEF GetState
    <3>2. CASE redis.state # None
      <4>1. redis.state \in Snapshot BY <3>2 DEF RedisOK
      <4>2. [mem[t] EXCEPT !.tick = redis.state.tick, !.at = redis.state.at,
                           !.match = redis.state.match] \in Memory BY <4>1 DEF Snapshot, Memory
      <4> QED BY <2>1, <2>3, <3>2, <4>2 DEF GetState
    <3> QED BY <3>1, <3>2
  <2>4. CASE GetOffset(t)
    <3>1. CASE redis.offset = None BY <2>4, <3>1 DEF GetOffset
    <3>2. CASE redis.offset # None
      <4>1. redis.offset \in Nat BY <3>2 DEF RedisOK
      <4>2. [mem[t] EXCEPT !.offset = redis.offset] \in Memory BY <4>1 DEF Memory
      <4> QED BY <2>1, <2>4, <3>2, <4>2 DEF GetOffset
    <3> QED BY <3>1, <3>2
  <2>5. CASE Replay(t)
    <3>1. [Fresh(matches) EXCEPT !.startedAt = mem[t].startedAt] \in Memory
      BY DEF Fresh, Memory, CountersOK
    <3>2. ASSUME NEW count \in 0 .. Len(log), NEW i \in 1 .. count
          PROVE  [tick |-> log[i].tick, match |-> log[count].match, at |-> count,
                  offset |-> count, startedAt |-> mem[t].startedAt] \in Memory
      <4>1. Len(log) \in Nat /\ count \in 1 .. Len(log) /\ i \in 1 .. Len(log) BY DEF LogOK
      <4>2. log[i] \in Event /\ log[count] \in Event BY <4>1 DEF LogOK
      <4>3. mem[t].startedAt \in Nat BY DEF Memory
      <4> QED BY <4>1, <4>2, <4>3 DEF Event, Memory
    <3>3. PICK count \in 0 .. Len(log) : Applied(t, count) BY <2>5, LogLength DEF Replay
    <3> QED BY <2>1, <3>1, <3>2, <3>3 DEF Applied
  <2>6. CASE Ack(t)
    <3>1. mem[t] \in Memory /\ at[t] \in Nat BY DEF TermOK
    <3>2. Advanced(t) \in Memory BY <3>1 DEF Advanced, Memory
    <3> QED BY <2>1, <2>6, <3>2 DEF Ack
  <2>7. CASE NextMatch(t)
    <3>1. Fresh(matches') \in Memory BY <2>7 DEF NextMatch, Fresh, Memory, CountersOK
    <3> QED BY <2>1, <2>7, <3>1 DEF NextMatch
  <2>8. CASE Resign(t) \/ Stop(t) \/ Crash(t) \/ LoadFails(t) BY <2>8 DEF Resign, Stop, Crash, LoadFails
  <2>9. CASE Send(t) \/ Arrive(t) \/ Nack(t) BY <2>9 DEF Send, Arrive, Nack
  <2>10. CASE SetState(t) \/ SetOffset(t) \/ RedisFails(t) BY <2>10 DEF SetState, SetOffset, RedisFails
  <2>11. CASE EndMatch(t) \/ RunReturns(t) \/ EraseFails(t) BY <2>11 DEF EndMatch, RunReturns, EraseFails
  <2> QED BY <1>3, <2>2, <2>3, <2>4, <2>5, <2>6, <2>7, <2>8, <2>9, <2>10, <2>11 DEF Step
<1> QED BY <1>0, <1>1, <1>2, <1>3 DEF Next

\* The log, the results and what was shown.
LEMMA LogTyped == ASSUME TypeOK, Next PROVE LogOK'
<1> USE DEF TypeOK, LogOK
<1>1. CASE KeyGone BY <1>1 DEF KeyGone, kafka
<1>2. CASE RedisLoss BY <1>2 DEF RedisLoss, kafka
<1>0. ASSUME NEW event \in stray, ArriveLate(event) PROVE LogOK' BY <1>0 DEF ArriveLate
<1>3. ASSUME NEW t \in Term, Step(t) PROVE LogOK'
  <2> mem[t] \in Memory BY DEF MemOK
  <2>0. NextEvent(t) \in Event BY DEF NextEvent, Event, Memory
  <2>9. ASSUME NEW event \in Event, MayComeAgain(event) PROVE stray' \subseteq Event
    BY <2>9 DEF MayComeAgain
  <2>1. CASE Arrive(t)
    <3>1. log' \in Seq(Event) BY <2>0, <2>1 DEF Arrive
    <3>2. stray' \subseteq Event BY <2>0, <2>1, <2>9 DEF Arrive
    <3> QED BY <2>1, <3>1, <3>2 DEF Arrive
  <2>10. CASE Nack(t)
    <3>1. stray' \subseteq Event BY <2>0, <2>9, <2>10 DEF Nack
    <3> QED BY <2>10, <3>1 DEF Nack
  <2>2. CASE SetOffset(t) BY <2>2 DEF SetOffset, Memory, kafka
  <2>3. CASE EndMatch(t) BY <2>3 DEF EndMatch, Memory, kafka
  <2>4. CASE Elect(t) \/ Resign(t) \/ Stop(t) \/ Crash(t) BY <2>4 DEF Elect, Resign, Stop, Crash, kafka
  <2>5. CASE GetState(t) \/ GetOffset(t) \/ Replay(t) \/ LoadFails(t)
    BY <2>5 DEF GetState, GetOffset, Replay, LoadFails, kafka
  <2>6. CASE Send(t) \/ Ack(t) BY <2>6 DEF Send, Ack, kafka
  <2>7. CASE SetState(t) \/ RedisFails(t) BY <2>7 DEF SetState, RedisFails, kafka
  <2>8. CASE RunReturns(t) \/ NextMatch(t) \/ EraseFails(t) BY <2>8 DEF RunReturns, NextMatch, EraseFails, kafka
  <2> QED BY <1>3, <2>1, <2>2, <2>3, <2>4, <2>5, <2>6, <2>7, <2>8, <2>10 DEF Step
<1> QED BY <1>0, <1>1, <1>2, <1>3 DEF Next

\* Redis holds a state and an offset, or lacks them.
LEMMA RedisTyped == ASSUME TypeOK, Next PROVE RedisOK'
<1> USE DEF TypeOK, RedisOK
<1>1. CASE KeyGone BY <1>1 DEF KeyGone
<1>2. CASE RedisLoss BY <1>2 DEF RedisLoss, NoRedis
<1>0. ASSUME NEW event \in stray, ArriveLate(event) PROVE RedisOK' BY <1>0 DEF ArriveLate
<1>3. ASSUME NEW t \in Term, Step(t) PROVE RedisOK'
  <2>1. StateSet(t) \in [state : Snapshot \cup {None}, offset : Nat \cup {None}]
    BY DEF StateSet, StateOf, Snapshot, MemOK, Memory
  <2>2. OffsetSet(t) \in [state : Snapshot \cup {None}, offset : Nat \cup {None}]
    BY DEF OffsetSet, MemOK, Memory
  <2>3. CASE SetState(t) \/ SetOffset(t) \/ RedisFails(t) BY <2>1, <2>2, <2>3 DEF SetState, SetOffset, RedisFails
  <2>4. CASE NextMatch(t) BY <2>4 DEF NextMatch, NoRedis
  <2>5. CASE Elect(t) \/ Resign(t) \/ Stop(t) \/ Crash(t) BY <2>5 DEF Elect, Resign, Stop, Crash
  <2>6. CASE GetState(t) \/ GetOffset(t) \/ Replay(t) \/ LoadFails(t)
    BY <2>6 DEF GetState, GetOffset, Replay, LoadFails
  <2>7. CASE Send(t) \/ Arrive(t) \/ Ack(t) \/ Nack(t) BY <2>7 DEF Send, Arrive, Ack, Nack
  <2>8. CASE EndMatch(t) \/ RunReturns(t) \/ EraseFails(t) BY <2>8 DEF EndMatch, RunReturns, EraseFails
  <2> QED BY <1>3, <2>3, <2>4, <2>5, <2>6, <2>7, <2>8 DEF Step
<1> QED BY <1>0, <1>1, <1>2, <1>3 DEF Next

\* The leader key and the counters.
LEMMA CountersTyped == ASSUME TypeOK, Next PROVE CountersOK'
<1> USE DEF TypeOK, CountersOK
<1>1. ASSUME NEW kind, Fault(kind) \/ NoFault PROVE faults' \in 0 .. MaxFaults
  BY <1>1, ConstantAssumption DEF Fault, NoFault
<1>2. CASE KeyGone BY <1>1, <1>2 DEF KeyGone, counters
<1>3. CASE RedisLoss BY <1>1, <1>3 DEF RedisLoss, leadership, counters
<1>0. ASSUME NEW event \in stray, ArriveLate(event) PROVE CountersOK'
  BY <1>0, <1>1 DEF ArriveLate, leadership, counters
<1>4. ASSUME NEW t \in Term, Step(t) PROVE CountersOK'
  <2>1. CASE Elect(t) \/ Resign(t) \/ Stop(t) \/ Crash(t)
    BY <1>1, <2>1 DEF Elect, Resign, Stop, Crash, leadership, counters
  <2>2. CASE GetState(t) \/ GetOffset(t) \/ Replay(t) \/ LoadFails(t)
    BY <1>1, <2>2 DEF GetState, GetOffset, Replay, LoadFails, leadership, counters
  <2>3. CASE Send(t) \/ Arrive(t) \/ Ack(t) \/ Nack(t)
    BY <1>1, <2>3 DEF Send, Arrive, Ack, Nack, leadership, counters
  <2>4. CASE SetState(t) \/ SetOffset(t) \/ RedisFails(t)
    BY <1>1, <2>4 DEF SetState, SetOffset, RedisFails, leadership, counters
  <2>5. CASE EndMatch(t) \/ RunReturns(t) \/ NextMatch(t) \/ EraseFails(t)
    BY <1>1, <2>5 DEF EndMatch, RunReturns, NextMatch, EraseFails, leadership, counters
  <2> QED BY <1>4, <2>1, <2>2, <2>3, <2>4, <2>5 DEF Step
<1> QED BY <1>0, <1>2, <1>3, <1>4 DEF Next

-----------------------------------------------------------------------------
(* The log only grows, and keeps what it has *)

\* Every step leaves the log as it is or appends one event to it.
LEMMA LogGrows ==
    ASSUME TypeOK, Next
    PROVE  /\ Len(log) \in Nat /\ Len(log') \in Nat /\ Len(log) <= Len(log')
           /\ DOMAIN log = 1 .. Len(log) /\ DOMAIN log' = 1 .. Len(log')
           /\ \A i \in DOMAIN log : i \in DOMAIN log' /\ log'[i] = log[i]
<1> USE DEF TypeOK, LogOK
<1>1. CASE UNCHANGED log BY <1>1
<1>2. ASSUME NEW t \in Term, Arrive(t)
      PROVE  /\ Len(log) \in Nat /\ Len(log') \in Nat /\ Len(log) <= Len(log')
             /\ DOMAIN log = 1 .. Len(log) /\ DOMAIN log' = 1 .. Len(log')
             /\ \A i \in DOMAIN log : i \in DOMAIN log' /\ log'[i] = log[i]
  <2>1. NextEvent(t) \in Event BY DEF NextEvent, Event, MemOK, Memory
  <2> QED BY <1>2, <2>1 DEF Arrive
<1>0. ASSUME NEW event \in stray, ArriveLate(event)
      PROVE  /\ Len(log) \in Nat /\ Len(log') \in Nat /\ Len(log) <= Len(log')
             /\ DOMAIN log = 1 .. Len(log) /\ DOMAIN log' = 1 .. Len(log')
             /\ \A i \in DOMAIN log : i \in DOMAIN log' /\ log'[i] = log[i]
  BY <1>0 DEF ArriveLate
<1>3. ASSUME NEW t \in Term, Step(t), ~Arrive(t) PROVE UNCHANGED log
  <2>1. CASE Elect(t) \/ Resign(t) \/ Stop(t) \/ Crash(t) BY <2>1 DEF Elect, Resign, Stop, Crash, kafka
  <2>2. CASE GetState(t) \/ GetOffset(t) \/ Replay(t) \/ LoadFails(t)
    BY <2>2 DEF GetState, GetOffset, Replay, LoadFails, kafka
  <2>3. CASE Send(t) \/ Ack(t) \/ Nack(t) BY <2>3 DEF Send, Ack, Nack, kafka
  <2>4. CASE SetState(t) \/ SetOffset(t) \/ RedisFails(t) BY <2>4 DEF SetState, SetOffset, RedisFails, kafka
  <2>5. CASE EndMatch(t) \/ RunReturns(t) \/ NextMatch(t) \/ EraseFails(t)
    BY <2>5 DEF EndMatch, RunReturns, NextMatch, EraseFails, kafka
  <2> QED BY <1>3, <2>1, <2>2, <2>3, <2>4, <2>5 DEF Step
<1>4. CASE KeyGone BY <1>1, <1>4 DEF KeyGone, kafka
<1>5. CASE RedisLoss BY <1>1, <1>5 DEF RedisLoss, kafka
<1> QED BY <1>0, <1>1, <1>2, <1>3, <1>4, <1>5 DEF Next

-----------------------------------------------------------------------------
(* Steps, by what they do to an event under way and to a pending write *)

\* A term that waits for its event did so before, or has just had it appended.
LEMMA SentStep ==
    ASSUME TypeOK, Next, NEW u \in Term, pc'[u] = "sent", at'[u] # 0
    PROVE  /\ mem'[u] = mem[u]
           /\ \/ pc[u] = "sent" /\ at'[u] = at[u]
              \/ at'[u] = Len(log') /\ log' = Append(log, NextEvent(u))
<1> USE DEF TypeOK, TermOK, MemOK
<1>1. CASE KeyGone BY <1>1 DEF KeyGone, kafka
<1>2. CASE RedisLoss BY <1>2 DEF RedisLoss, kafka
<1>0. ASSUME NEW event \in stray, ArriveLate(event)
      PROVE  mem'[u] = mem[u] /\ pc[u] = "sent" /\ at'[u] = at[u]
  BY <1>0 DEF ArriveLate
<1>3. ASSUME NEW t \in Term, Step(t)
      PROVE  /\ mem'[u] = mem[u]
             /\ \/ pc[u] = "sent" /\ at'[u] = at[u]
                \/ at'[u] = Len(log') /\ log' = Append(log, NextEvent(u))
  <2>1. CASE Elect(t) BY <2>1 DEF Elect, Goes, Remembers, kafka
  <2>2. CASE Resign(t) \/ Stop(t) \/ Crash(t) BY <2>2 DEF Resign, Stop, Crash, kafka
  <2>3. CASE GetState(t) \/ GetOffset(t) BY <2>3 DEF GetState, GetOffset, Goes, Remembers, Loaded, kafka
  <2>4. CASE Replay(t) BY <2>4 DEF Replay, Applied, Goes, Remembers, Loaded, kafka
  <2>5. CASE LoadFails(t) BY <2>5 DEF LoadFails, kafka
  <2>6. CASE Send(t) BY <2>6 DEF Send, Goes
  <2>7. CASE Arrive(t) BY <2>7 DEF Arrive
  <2>8. CASE Ack(t) \/ Nack(t) BY <2>8 DEF Ack, Nack, Goes, Remembers, kafka
  <2>9. CASE SetState(t) \/ SetOffset(t) \/ RedisFails(t) BY <2>9 DEF SetState, SetOffset, RedisFails, Goes, kafka
  <2>10. CASE EndMatch(t) \/ RunReturns(t) \/ EraseFails(t) BY <2>10 DEF EndMatch, RunReturns, EraseFails, Goes, kafka
  <2>11. CASE NextMatch(t) BY <2>11 DEF NextMatch, Goes, Remembers, kafka
  <2> QED BY <1>3, <2>1, <2>2, <2>3, <2>4, <2>5, <2>6, <2>7, <2>8, <2>9, <2>10, <2>11 DEF Step
<1> QED BY <1>0, <1>1, <1>2, <1>3 DEF Next

\* A term that is about to write was so before, or has just had its acknowledgement.
LEMMA WriteStep ==
    ASSUME TypeOK, Next, NEW u \in Term, pc'[u] \in Writing
    PROVE  \/ pc[u] \in Writing /\ mem'[u] = mem[u]
           \/ pc[u] = "sent" /\ at[u] # 0 /\ mem'[u] = Advanced(u)
<1> USE DEF TypeOK, TermOK, MemOK, Writing
<1>1. CASE KeyGone BY <1>1 DEF KeyGone
<1>2. CASE RedisLoss BY <1>2 DEF RedisLoss
<1>0. ASSUME NEW event \in stray, ArriveLate(event) PROVE pc[u] \in Writing /\ mem'[u] = mem[u]
  BY <1>0 DEF ArriveLate
<1>3. ASSUME NEW t \in Term, Step(t)
      PROVE  \/ pc[u] \in Writing /\ mem'[u] = mem[u]
             \/ pc[u] = "sent" /\ at[u] # 0 /\ mem'[u] = Advanced(u)
  <2>1. CASE Elect(t) BY <2>1 DEF Elect, Goes, Remembers
  <2>2. CASE Resign(t) \/ Stop(t) \/ Crash(t) BY <2>2 DEF Resign, Stop, Crash
  <2>3. CASE GetState(t) \/ GetOffset(t) BY <2>3 DEF GetState, GetOffset, Goes, Remembers, Loaded
  <2>4. CASE Replay(t) BY <2>4 DEF Replay, Applied, Goes, Remembers, Loaded
  <2>5. CASE LoadFails(t) BY <2>5 DEF LoadFails
  <2>6. CASE Send(t) \/ Arrive(t) \/ Nack(t) BY <2>6 DEF Send, Arrive, Nack, Goes
  <2>7. CASE Ack(t) BY <2>7 DEF Ack, Goes, Remembers
  <2>8. CASE SetState(t) \/ SetOffset(t) \/ RedisFails(t) BY <2>8 DEF SetState, SetOffset, RedisFails, Goes
  <2>9. CASE EndMatch(t) \/ RunReturns(t) \/ EraseFails(t) BY <2>9 DEF EndMatch, RunReturns, EraseFails, Goes
  <2>10. CASE NextMatch(t) BY <2>10 DEF NextMatch, Goes, Remembers
  <2> QED BY <1>3, <2>1, <2>2, <2>3, <2>4, <2>5, <2>6, <2>7, <2>8, <2>9, <2>10 DEF Step
<1> QED BY <1>0, <1>1, <1>2, <1>3 DEF Next

\* Redis loses what it has, keeps it, or gets what a writing term remembers.
LEMMA RedisStep ==
    ASSUME TypeOK, Next
    PROVE  /\ redis'.state \in {None, redis.state}
                                 \cup {StateOf(t) : t \in {t \in Term : pc[t] \in Writing}}
           /\ redis'.offset \in {None, redis.offset}
                                 \cup {mem[t].offset : t \in {t \in Term : pc[t] \in Writing}}
<1> USE DEF TypeOK, RedisOK
<1>1. CASE KeyGone BY <1>1 DEF KeyGone
<1>2. CASE RedisLoss BY <1>2 DEF RedisLoss, NoRedis
<1>0. ASSUME NEW event \in stray, ArriveLate(event) PROVE redis' = redis BY <1>0 DEF ArriveLate
<1>3. ASSUME NEW t \in Term, Step(t)
      PROVE  /\ redis'.state \in {None, redis.state}
                                   \cup {StateOf(u) : u \in {u \in Term : pc[u] \in Writing}}
             /\ redis'.offset \in {None, redis.offset}
                                   \cup {mem[u].offset : u \in {u \in Term : pc[u] \in Writing}}
  <2>1. CASE SetState(t) \/ SetOffset(t) \/ RedisFails(t)
    <3>1. pc[t] \in Writing BY <2>1 DEF SetState, SetOffset, RedisFails, Goes, Writing
    <3>2. redis' \in {redis, StateSet(t), OffsetSet(t)} BY <2>1 DEF SetState, SetOffset, RedisFails
    <3> QED BY <3>1, <3>2 DEF StateSet, OffsetSet
  <2>2. CASE NextMatch(t) BY <2>2 DEF NextMatch, NoRedis
  <2>3. CASE Elect(t) \/ Resign(t) \/ Stop(t) \/ Crash(t) BY <2>3 DEF Elect, Resign, Stop, Crash
  <2>4. CASE GetState(t) \/ GetOffset(t) \/ Replay(t) \/ LoadFails(t)
    BY <2>4 DEF GetState, GetOffset, Replay, LoadFails
  <2>5. CASE Send(t) \/ Arrive(t) \/ Ack(t) \/ Nack(t) BY <2>5 DEF Send, Arrive, Ack, Nack
  <2>6. CASE EndMatch(t) \/ RunReturns(t) \/ EraseFails(t) BY <2>6 DEF EndMatch, RunReturns, EraseFails
  <2> QED BY <1>3, <2>1, <2>2, <2>3, <2>4, <2>5, <2>6 DEF Step
<1> QED BY <1>0, <1>1, <1>2, <1>3 DEF Next

-----------------------------------------------------------------------------
(* The invariant *)

\* Nothing has been sent or written at the start.
LEMMA InitInvariant == Init => IInv
<1> SUFFICES ASSUME Init PROVE IInv OBVIOUS
<1>1. RedisNeverAheadOfLog BY DEF Init, NoRedis, RedisNeverAheadOfLog, StateIsLogged, OffsetIsLogged
<1>2. SentIsLogged /\ WriteIsLogged BY DEF Init, SentIsLogged, WriteIsLogged, Writing
<1> QED BY <1>1, <1>2, InitTyped DEF IInv

\* Every step keeps the four conjuncts.
LEMMA NextInvariant == ASSUME IInv, Next PROVE IInv'
<1> USE DEF IInv
<1>1. TypeOK' BY TermTyped, MemTyped, LogTyped, RedisTyped, CountersTyped DEF TypeOK
<1>2. SentIsLogged'
  <2> SUFFICES ASSUME NEW u \in Term, pc'[u] = "sent", at'[u] # 0
               PROVE  at'[u] \in DOMAIN log' /\ log'[at'[u]] = NextEvent(u)'
    BY DEF SentIsLogged
  <2>1. NextEvent(u)' = NextEvent(u) BY SentStep DEF NextEvent
  <2>2. CASE pc[u] = "sent" /\ at'[u] = at[u] BY <2>1, <2>2, LogGrows DEF SentIsLogged
  <2>3. CASE at'[u] = Len(log') /\ log' = Append(log, NextEvent(u))
    <3>1. log \in Seq(Event) /\ NextEvent(u) \in Event
      BY DEF TypeOK, LogOK, MemOK, Memory, NextEvent, Event
    <3> QED BY <2>1, <2>3, <3>1
  <2> QED BY <2>2, <2>3, SentStep
<1>3. WriteIsLogged'
  <2> SUFFICES ASSUME NEW u \in Term, pc'[u] \in Writing
               PROVE  /\ mem'[u].at \in DOMAIN log'
                      /\ log'[mem'[u].at] = [tick |-> mem'[u].tick, match |-> mem'[u].match]
                      /\ mem'[u].offset <= Len(log')
    BY DEF WriteIsLogged
  <2> mem[u] \in Memory BY DEF TypeOK, MemOK
  <2>1. CASE pc[u] \in Writing /\ mem'[u] = mem[u] BY <2>1, LogGrows DEF WriteIsLogged, Memory
  <2>2. CASE pc[u] = "sent" /\ at[u] # 0 /\ mem'[u] = Advanced(u)
    <3>1. at[u] \in DOMAIN log /\ log[at[u]] = NextEvent(u) BY <2>2 DEF SentIsLogged
    <3>2. mem'[u].at = at[u] /\ mem'[u].offset = at[u]
            /\ [tick |-> mem'[u].tick, match |-> mem'[u].match] = NextEvent(u)
      BY <2>2 DEF Advanced, NextEvent
    <3>3. at[u] \in DOMAIN log' /\ log'[at[u]] = NextEvent(u) BY <3>1, LogGrows
    <3>4. at[u] <= Len(log') BY <3>3, LogGrows
    <3> QED BY <3>2, <3>3, <3>4
  <2> QED BY <2>1, <2>2, WriteStep
<1>4. StateIsLogged'
  <2> SUFFICES ASSUME redis'.state # None
               PROVE  /\ redis'.state.at \in DOMAIN log'
                      /\ log'[redis'.state.at].tick = redis'.state.tick
                      /\ log'[redis'.state.at].match = redis'.state.match
    BY DEF StateIsLogged
  <2>1. CASE redis'.state = redis.state
    BY <2>1, LogGrows DEF RedisNeverAheadOfLog, StateIsLogged
  <2>2. ASSUME NEW t \in Term, pc[t] \in Writing, redis'.state = StateOf(t)
        PROVE  /\ redis'.state.at \in DOMAIN log'
               /\ log'[redis'.state.at].tick = redis'.state.tick
               /\ log'[redis'.state.at].match = redis'.state.match
    <3>1. /\ mem[t].at \in DOMAIN log
          /\ log[mem[t].at] = [tick |-> mem[t].tick, match |-> mem[t].match]
      BY <2>2 DEF WriteIsLogged
    <3>2. log'[mem[t].at] = log[mem[t].at] /\ mem[t].at \in DOMAIN log' BY <3>1, LogGrows
    <3> QED BY <2>2, <3>1, <3>2 DEF StateOf
  <2> QED BY <2>1, <2>2, RedisStep
<1>5. OffsetIsLogged'
  <2> SUFFICES ASSUME redis'.offset # None PROVE redis'.offset <= Len(log')
    BY DEF OffsetIsLogged
  <2>1. CASE redis'.offset = redis.offset
    <3>1. redis.offset \in Nat /\ redis.offset <= Len(log)
      BY <2>1 DEF TypeOK, RedisOK, RedisNeverAheadOfLog, OffsetIsLogged
    <3> QED BY <2>1, <3>1, LogGrows
  <2>2. ASSUME NEW t \in Term, pc[t] \in Writing, redis'.offset = mem[t].offset
        PROVE  redis'.offset <= Len(log')
    <3>1. mem[t].offset \in Nat /\ mem[t].offset <= Len(log)
      BY <2>2 DEF TypeOK, MemOK, Memory, WriteIsLogged
    <3> QED BY <2>2, <3>1, LogGrows
  <2> QED BY <2>1, <2>2, RedisStep
<1> QED BY <1>1, <1>2, <1>3, <1>4, <1>5 DEF RedisNeverAheadOfLog

(***************************************************************************)
(* Throughout: types, Redis, and what is sent and about to be written.     *)
(***************************************************************************)
THEOREM CommitInvariant == Spec => []IInv
<1>1. ASSUME IInv, [Next]_vars PROVE IInv'
  <2>1. CASE Next BY <1>1, <2>1, NextInvariant
  <2>2. CASE UNCHANGED vars
    <3>1. TypeOK' BY <1>1, <2>2 DEF IInv, vars, TypeOK, LogOK, RedisOK, TermOK, MemOK, CountersOK
    <3>2. RedisNeverAheadOfLog' BY <1>1, <2>2 DEF IInv, vars, RedisNeverAheadOfLog, StateIsLogged, OffsetIsLogged
    <3>3. SentIsLogged' BY <1>1, <2>2 DEF IInv, vars, SentIsLogged, NextEvent
    <3>4. WriteIsLogged' BY <1>1, <2>2 DEF IInv, vars, WriteIsLogged
    <3> QED BY <3>1, <3>2, <3>3, <3>4 DEF IInv
  <2> QED BY <1>1, <2>1, <2>2
<1> QED BY <1>1, InitInvariant, PTL DEF Spec

(***************************************************************************)
(* The state keeps its types, for any terms and any bounds.                *)
(***************************************************************************)
THEOREM TypeCorrect == Spec => []TypeOK
<1>1. IInv => TypeOK BY DEF IInv
<1> QED BY <1>1, CommitInvariant, PTL

(***************************************************************************)
(* What Redis holds is in the log: _process_tick writes it only after the  *)
(* acknowledgement, and no crash, overlap of leaders, failed write, lost   *)
(* key or unreported delivery changes that.                                *)
(***************************************************************************)
THEOREM RedisBehindLog == Spec => []RedisNeverAheadOfLog
<1>1. IInv => RedisNeverAheadOfLog BY DEF IInv
<1> QED BY <1>1, CommitInvariant, PTL

-----------------------------------------------------------------------------
(* Results *)

\* A match that is about to be reported has lasted, and its last tick is in the log.
EndIsLogged == \A t \in Term : pc[t] = "ending" =>
                   /\ mem[t].tick >= Duration
                   /\ mem[t].at \in DOMAIN log
                   /\ log[mem[t].at] = [tick |-> mem[t].tick, match |-> mem[t].match]

\* A term is about to report since before, or has just shown its last tick.
LEMMA EndStep ==
    ASSUME TypeOK, Next, NEW u \in Term, pc'[u] = "ending"
    PROVE  /\ mem'[u] = mem[u]
           /\ pc[u] = "ending" \/ (pc[u] = "setOffset" /\ mem[u].tick >= Duration)
<1> DEFINE Goal == /\ mem'[u] = mem[u]
                   /\ pc[u] = "ending" \/ (pc[u] = "setOffset" /\ mem[u].tick >= Duration)
<1> USE DEF TypeOK, TermOK, MemOK, Goes, Remembers
<1>1. CASE KeyGone BY <1>1 DEF KeyGone
<1>2. CASE RedisLoss BY <1>2 DEF RedisLoss
<1>0. ASSUME NEW event \in stray, ArriveLate(event) PROVE Goal BY <1>0 DEF ArriveLate
<1>3. ASSUME NEW t \in Term, Step(t) PROVE Goal
  <2>1. CASE Elect(t) BY <2>1 DEF Elect
  <2>2. CASE Resign(t) \/ Stop(t) \/ Crash(t) BY <2>2 DEF Resign, Stop, Crash
  <2>3. CASE GetState(t) \/ GetOffset(t) BY <2>3 DEF GetState, GetOffset, Loaded
  <2>4. CASE Replay(t) BY <2>4 DEF Replay, Applied, Loaded
  <2>5. CASE LoadFails(t) BY <2>5 DEF LoadFails
  <2>6. CASE Send(t) \/ Arrive(t) \/ Nack(t) BY <2>6 DEF Send, Arrive, Nack
  <2>7. CASE Ack(t) BY <2>7 DEF Ack
  <2>8. CASE SetState(t) \/ RedisFails(t) BY <2>8 DEF SetState, RedisFails
  <2>9. CASE SetOffset(t) BY <2>9 DEF SetOffset, Ends
  <2>10. CASE EndMatch(t) \/ RunReturns(t) \/ EraseFails(t) BY <2>10 DEF EndMatch, RunReturns, EraseFails
  <2>11. CASE NextMatch(t) BY <2>11 DEF NextMatch
  <2> QED BY <1>3, <2>1, <2>2, <2>3, <2>4, <2>5, <2>6, <2>7, <2>8, <2>9, <2>10, <2>11 DEF Step
<1> QED BY <1>0, <1>1, <1>2, <1>3 DEF Next

LEMMA EndIsLoggedStep == ASSUME IInv, EndIsLogged, Next PROVE EndIsLogged'
<1> USE DEF IInv
<1> SUFFICES ASSUME NEW u \in Term, pc'[u] = "ending"
             PROVE  /\ mem'[u].tick >= Duration
                    /\ mem'[u].at \in DOMAIN log'
                    /\ log'[mem'[u].at] = [tick |-> mem'[u].tick, match |-> mem'[u].match]
  BY DEF EndIsLogged
<1>1. /\ mem[u].tick >= Duration
      /\ mem[u].at \in DOMAIN log
      /\ log[mem[u].at] = [tick |-> mem[u].tick, match |-> mem[u].match]
  BY EndStep DEF EndIsLogged, WriteIsLogged, Writing
<1> QED BY <1>1, EndStep, LogGrows

\* What is published comes from a term about to report.
LEMMA ResultsStep ==
    ASSUME TypeOK, Next, NEW r \in results', r \notin results
    PROVE  \E t \in Term : pc[t] = "ending" /\ r.match = mem[t].match /\ r.tick = mem[t].tick
<1> USE DEF TypeOK, LogOK
<1>1. ASSUME NEW t \in Term, EndMatch(t)
      PROVE  pc[t] = "ending" /\ r.match = mem[t].match /\ r.tick = mem[t].tick
  BY <1>1 DEF EndMatch, Goes
<1>2. ASSUME NEW t \in Term, Step(t), ~EndMatch(t) PROVE UNCHANGED results
  BY <1>2 DEF Step, Elect, Resign, Stop, Crash, GetState, GetOffset, Replay, LoadFails,
         Send, Arrive, Ack, Nack, SetState, SetOffset, RedisFails, EndMatch, RunReturns, NextMatch, EraseFails
<1> QED BY <1>1, <1>2 DEF Next, KeyGone, RedisLoss, ArriveLate

LEMMA ResultsAreLoggedStep ==
    ASSUME IInv, EndIsLogged, ResultsAreLogged, Next
    PROVE  ResultsAreLogged'
<1> SUFFICES ASSUME NEW r \in results'
             PROVE  /\ r.tick >= Duration
                    /\ \E i \in DOMAIN log' : log'[i].tick = r.tick /\ log'[i].match = r.match
  BY DEF ResultsAreLogged
<1> USE DEF IInv
<1>1. CASE r \in results BY <1>1, LogGrows DEF ResultsAreLogged
<1>2. CASE r \notin results
  <2>1. PICK t \in Term : pc[t] = "ending" /\ r.match = mem[t].match /\ r.tick = mem[t].tick
    BY <1>2, ResultsStep
  <2>2. mem[t].tick >= Duration /\ mem[t].at \in DOMAIN log
          /\ log[mem[t].at] = [tick |-> mem[t].tick, match |-> mem[t].match]
    BY <2>1 DEF EndIsLogged
  <2>3. log'[mem[t].at].tick = r.tick /\ log'[mem[t].at].match = r.match
    BY <2>1, <2>2, LogGrows
  <2> QED BY <2>1, <2>2, <2>3, LogGrows
<1> QED BY <1>1, <1>2

(***************************************************************************)
(* A match.end tells of a match whose last tick is in the log and that     *)
(* lasted match_duration_ticks, from whatever leaders, however many        *)
(* overlap, and whatever fails (end_match).                                *)
(***************************************************************************)
THEOREM ResultsTrue == Spec => []ResultsAreLogged
<1>1. Init => EndIsLogged /\ ResultsAreLogged BY DEF Init, EndIsLogged, ResultsAreLogged
<1>2. ASSUME IInv, EndIsLogged, ResultsAreLogged, [Next]_vars PROVE EndIsLogged' /\ ResultsAreLogged'
  <2>1. CASE Next BY <1>2, <2>1, EndIsLoggedStep, ResultsAreLoggedStep
  <2>2. CASE UNCHANGED vars BY <1>2, <2>2 DEF vars, EndIsLogged, ResultsAreLogged
  <2> QED BY <1>2, <2>1, <2>2
<1> QED BY <1>1, <1>2, CommitInvariant, PTL DEF Spec

-----------------------------------------------------------------------------
(* One match: no tick is skipped *)

OneMatch == MaxMatches <= 1

\* Everything is of the first match.
OnlyFirst == /\ matches = 1
             /\ \A t \in Term : mem[t].match = 1
             /\ \A i \in DOMAIN log : log[i].match = 1
             /\ \A event \in stray : event.match = 1

IsLogged(tick) == \E j \in DOMAIN log : log[j].tick = tick

\* The tick a term would go on from is in the log, and the tick before a late event.
MemInLog == /\ \A t \in Term : mem[t].tick # 0 => IsLogged(mem[t].tick)
            /\ \A event \in stray : event.tick # 1 => IsLogged(event.tick - 1)

\* Where what a term remembers comes from.
LEMMA MemStep ==
    ASSUME TypeOK, Next, NEW u \in Term
    PROVE  \/ mem'[u] = mem[u]
           \/ Elect(u) \/ GetState(u) \/ GetOffset(u) \/ Replay(u) \/ Ack(u) \/ NextMatch(u)
<1> USE DEF TypeOK, MemOK
<1>1. ASSUME NEW t \in Term, Step(t), t # u PROVE mem'[u] = mem[u]
  BY <1>1 DEF Remembers, Step, Elect, Resign, Stop, Crash, GetState, GetOffset, Replay, LoadFails,
         Send, Arrive, Ack, Nack, SetState, SetOffset, RedisFails, EndMatch, RunReturns, NextMatch, EraseFails, Applied
<1>2. ASSUME Step(u), mem'[u] # mem[u]
      PROVE  Elect(u) \/ GetState(u) \/ GetOffset(u) \/ Replay(u) \/ Ack(u) \/ NextMatch(u)
  BY <1>2 DEF Step, Resign, Stop, Crash, LoadFails, Send, Arrive, Nack, SetState, SetOffset,
         RedisFails, EndMatch, RunReturns, EraseFails
<1> QED BY <1>1, <1>2 DEF Next, KeyGone, RedisLoss, ArriveLate

\* What the log gains is the next event of a term, or one that arrives late.
LEMMA LogStep ==
    ASSUME TypeOK, Next
    PROVE  \/ log' = log
           \/ \E event \in Event : /\ event \in stray \cup {NextEvent(t) : t \in Term}
                                 /\ Len(log') = Len(log) + 1
                                 /\ log'[Len(log')] = event
<1> USE DEF TypeOK, LogOK
<1>1. ASSUME NEW event \in Event, log' = Append(log, event)
      PROVE  Len(log') = Len(log) + 1 /\ log'[Len(log')] = event
  BY <1>1
<1>2. ASSUME NEW t \in Term, Arrive(t)
      PROVE  NextEvent(t) \in Event /\ log' = Append(log, NextEvent(t))
  BY <1>2 DEF NextEvent, Event, MemOK, Memory, Arrive
<1>3. ASSUME NEW event \in stray, ArriveLate(event)
      PROVE  event \in Event /\ log' = Append(log, event)
  BY <1>3 DEF ArriveLate
<1>4. ASSUME NEW t \in Term, Step(t), ~Arrive(t) PROVE log' = log
  BY <1>4 DEF kafka, Step, Elect, Resign, Stop, Crash, GetState, GetOffset, Replay, LoadFails,
         Send, Arrive, Ack, Nack, SetState, SetOffset, RedisFails, EndMatch, RunReturns, NextMatch, EraseFails
<1>5. CASE KeyGone \/ RedisLoss BY <1>5 DEF KeyGone, RedisLoss, kafka
<1> QED BY <1>1, <1>2, <1>3, <1>4, <1>5 DEF Next

\* What may arrive late is the next event of a term.
LEMMA StrayStep ==
    ASSUME Next, NEW event \in stray', event \notin stray
    PROVE  \E t \in Term : event = NextEvent(t)
<1>1. ASSUME NEW t \in Term, Arrive(t) \/ Nack(t) PROVE event = NextEvent(t)
  BY <1>1 DEF Arrive, Nack, MayComeAgain
<1>2. ASSUME NEW t \in Term, Step(t), ~Arrive(t), ~Nack(t) PROVE stray' = stray
  BY <1>2 DEF kafka, Step, Elect, Resign, Stop, Crash, GetState, GetOffset, Replay, LoadFails,
         Send, Arrive, Ack, Nack, SetState, SetOffset, RedisFails, EndMatch, RunReturns, NextMatch, EraseFails
<1>3. CASE KeyGone \/ RedisLoss BY <1>3 DEF KeyGone, RedisLoss, kafka
<1>4. ASSUME NEW e \in stray, ArriveLate(e) PROVE stray' = stray BY <1>4 DEF ArriveLate
<1> QED BY <1>1, <1>2, <1>3, <1>4 DEF Next

LEMMA OnlyFirstStep == ASSUME OneMatch, IInv, OnlyFirst, Next PROVE OnlyFirst'
<1> USE DEF IInv, TypeOK, OnlyFirst
<1>0. \A t \in Term : ~NextMatch(t)
  BY ConstantAssumption DEF OneMatch, NextMatch
<1>1. matches' = 1
  BY <1>0 DEF Next, counters, KeyGone, RedisLoss, ArriveLate, Step, Elect, Resign, Stop, Crash, GetState, GetOffset, Replay, LoadFails,
         Send, Arrive, Ack, Nack, SetState, SetOffset, RedisFails, EndMatch, RunReturns, NextMatch, EraseFails
<1>2. ASSUME NEW u \in Term PROVE mem'[u].match = 1
  <2> USE DEF MemOK
  <2>1. CASE mem'[u] = mem[u] BY <2>1
  <2>2. CASE Elect(u) BY <2>2 DEF Elect, Remembers, Fresh
  <2>3. CASE GetState(u)
    <3>1. CASE redis.state = None BY <2>3, <3>1 DEF GetState
    <3>2. CASE redis.state # None
      <4>1. redis.state.match = 1 BY <3>2 DEF RedisNeverAheadOfLog, StateIsLogged
      <4> QED BY <2>3, <3>2, <4>1 DEF GetState, Remembers, Memory
    <3> QED BY <3>1, <3>2
  <2>4. CASE GetOffset(u) BY <2>4 DEF GetOffset, Remembers, Memory
  <2>5. CASE Replay(u)
    <3>1. PICK count \in 0 .. Len(log) : Applied(u, count) BY <2>5, LogLength DEF Replay
    <3>2. CASE count = 0 BY <3>1, <3>2 DEF Applied, Remembers, Fresh
    <3>3. CASE count # 0
      <4>1. count \in DOMAIN log BY <3>3 DEF LogOK
      <4>2. log[count].match = 1 BY <4>1
      <4> QED BY <3>1, <3>3, <4>2 DEF Applied, Remembers
    <3> QED BY <3>2, <3>3
  <2>6. CASE Ack(u) BY <2>6 DEF Ack, Remembers, Advanced
  <2> QED BY <1>0, <2>1, <2>2, <2>3, <2>4, <2>5, <2>6, MemStep
<1>3. ASSUME NEW i \in DOMAIN log' PROVE log'[i].match = 1
  <2>1. CASE log' = log BY <2>1
  <2>2. ASSUME NEW event \in stray \cup {NextEvent(t) : t \in Term},
               Len(log') = Len(log) + 1, log'[Len(log')] = event
        PROVE  log'[i].match = 1
    <3>1. CASE i \in DOMAIN log BY <3>1, LogGrows
    <3>2. CASE i \notin DOMAIN log
      <4>1. i = Len(log') BY <2>2, <3>2, LogGrows
      <4> QED BY <2>2, <4>1 DEF NextEvent
    <3> QED BY <3>1, <3>2
  <2> QED BY <2>1, <2>2, LogStep
<1>4. ASSUME NEW event \in stray' PROVE event.match = 1
  BY <1>4, StrayStep DEF NextEvent
<1> QED BY <1>1, <1>2, <1>3, <1>4

\* A tick a term remembers, now or after a step, was in the log before that step.
LEMMA MemInLogStep ==
    ASSUME OneMatch, IInv, OnlyFirst, MemInLog, Next, NEW u \in Term, mem'[u].tick # 0
    PROVE  IsLogged(mem'[u].tick)
<1> USE DEF IInv, TypeOK, MemOK, IsLogged
<1>1. CASE mem'[u] = mem[u] BY <1>1 DEF MemInLog
<1>2. CASE Elect(u) BY <1>2 DEF Elect, Remembers, Fresh
<1>3. CASE GetState(u)
  <2>1. CASE redis.state = None BY <1>3, <2>1 DEF GetState, MemInLog
  <2>2. CASE redis.state # None
    <3>1. mem'[u].tick = redis.state.tick BY <1>3, <2>2 DEF GetState, Remembers, Memory
    <3> QED BY <2>2, <3>1 DEF RedisNeverAheadOfLog, StateIsLogged
  <2> QED BY <2>1, <2>2
<1>4. CASE GetOffset(u)
  <2>1. mem'[u].tick = mem[u].tick BY <1>4 DEF GetOffset, Remembers, Memory
  <2> QED BY <2>1 DEF MemInLog
<1>5. CASE Replay(u)
  <2>1. PICK count \in 0 .. Len(log) : Applied(u, count) BY <1>5, LogLength DEF Replay
  <2>2. CASE count = 0 BY <2>1, <2>2 DEF Applied, Remembers, Fresh
  <2>3. CASE count # 0
    <3>1. PICK i \in 1 .. count : mem'[u].tick = log[i].tick BY <2>1, <2>3 DEF Applied, Remembers
    <3>2. i \in DOMAIN log BY <2>3 DEF LogOK
    <3> QED BY <3>1, <3>2
  <2> QED BY <2>2, <2>3
<1>6. CASE Ack(u)
  <2>1. at[u] \in DOMAIN log /\ log[at[u]] = NextEvent(u) BY <1>6 DEF Ack, Goes, SentIsLogged
  <2>2. mem'[u].tick = log[at[u]].tick BY <1>6, <2>1 DEF Ack, Remembers, Advanced, NextEvent
  <2> QED BY <2>1, <2>2
<1>7. ~NextMatch(u) BY ConstantAssumption DEF OneMatch, NextMatch, OnlyFirst
<1> QED BY <1>1, <1>2, <1>3, <1>4, <1>5, <1>6, <1>7, MemStep

\* What was logged stays logged.
LEMMA LoggedStays == ASSUME TypeOK, Next, NEW tick, IsLogged(tick) PROVE IsLogged(tick)'
<1>1. PICK j \in DOMAIN log : log[j].tick = tick BY DEF IsLogged
<1>2. j \in DOMAIN log' /\ log'[j].tick = tick BY <1>1, LogGrows
<1> QED BY <1>2 DEF IsLogged

LEMMA MemInLogKept == ASSUME OneMatch, IInv, OnlyFirst, MemInLog, Next PROVE MemInLog'
<1> USE DEF IInv
<1>0. \A tick : IsLogged(tick) => \E j \in DOMAIN log' : log'[j].tick = tick
  BY LoggedStays DEF IsLogged
<1>1. ASSUME NEW u \in Term, mem'[u].tick # 0 PROVE \E j \in DOMAIN log' : log'[j].tick = mem'[u].tick
  BY <1>0, <1>1, MemInLogStep
<1>2. ASSUME NEW event \in stray', event.tick # 1
      PROVE  \E j \in DOMAIN log' : log'[j].tick = event.tick - 1
  <2>1. CASE event \in stray BY <1>0, <1>2, <2>1 DEF MemInLog
  <2>2. CASE event \notin stray
    <3>1. PICK t \in Term : event = NextEvent(t) BY <2>2, StrayStep
    <3>2. mem[t].tick \in Nat /\ event.tick = mem[t].tick + 1
      BY <3>1 DEF NextEvent, TypeOK, MemOK, Memory
    <3>3. mem[t].tick # 0 /\ event.tick - 1 = mem[t].tick BY <1>2, <3>2
    <3> QED BY <1>0, <3>3 DEF MemInLog
  <2> QED BY <2>1, <2>2
<1> QED BY <1>1, <1>2 DEF MemInLog, IsLogged

LEMMA NoGapStep == ASSUME IInv, OnlyFirst, MemInLog, NoGap, Next PROVE NoGap'
<1> USE DEF IInv, TypeOK
<1>0. log \in Seq(Event) /\ Len(log) \in Nat BY DEF LogOK
<1>1. CASE log' = log BY <1>1 DEF NoGap
<1>2. ASSUME NEW event \in stray \cup {NextEvent(t) : t \in Term}, event \in Event,
             Len(log') = Len(log) + 1, log'[Len(log')] = event
      PROVE  NoGap'
  <2> SUFFICES ASSUME NEW i \in DOMAIN log', log'[i].tick # 1
               PROVE  \E j \in 1 .. i - 1 : log'[j].match = log'[i].match /\ log'[j].tick = log'[i].tick - 1
    BY DEF NoGap
  <2>1. CASE i \in DOMAIN log
    <3>1. PICK j \in 1 .. i - 1 : log[j].match = log[i].match /\ log[j].tick = log[i].tick - 1
      BY <2>1, LogGrows DEF NoGap
    <3>2. j \in DOMAIN log BY <2>1, LogGrows
    <3> QED BY <2>1, <3>1, <3>2, LogGrows
  <2>2. CASE i \notin DOMAIN log
    <3>1. i = Len(log) + 1 /\ log'[i] = event BY <1>2, <2>2, LogGrows
    <3>2. event.match = 1 BY DEF OnlyFirst, NextEvent
    <3>3. IsLogged(event.tick - 1)
      <4>1. CASE event \in stray BY <3>1, <4>1 DEF MemInLog
      <4>2. ASSUME NEW t \in Term, event = NextEvent(t) PROVE IsLogged(event.tick - 1)
        <5>1. mem[t].tick \in Nat /\ event.tick = mem[t].tick + 1
          BY <4>2 DEF NextEvent, MemOK, Memory
        <5>2. mem[t].tick # 0 /\ event.tick - 1 = mem[t].tick BY <3>1, <5>1
        <5> QED BY <5>2 DEF MemInLog
      <4> QED BY <4>1, <4>2
    <3>4. PICK j \in DOMAIN log : log[j].tick = event.tick - 1 BY <3>3 DEF IsLogged
    <3>5. log'[j] = log[j] /\ log[j].match = 1 /\ j \in 1 .. i - 1
      BY <1>0, <3>1, <3>4, LogGrows DEF OnlyFirst
    <3> QED BY <3>1, <3>2, <3>4, <3>5
  <2> QED BY <2>1, <2>2
<1> QED BY <1>1, <1>2, LogStep

(***************************************************************************)
(* Within a match no tick is skipped in the log, whatever fails, however   *)
(* many leaders write, however late or often an event arrives and wherever *)
(* a replay stops (_process_tick advances the state only at the            *)
(* acknowledgement, load_state takes an event of the log).  For the first  *)
(* match of a room: load_state applies earlier matches' events too.        *)
(***************************************************************************)
THEOREM NoTickSkipped == ASSUME OneMatch PROVE Spec => []NoGap
<1> DEFINE Inv == OnlyFirst /\ MemInLog /\ NoGap
<1>1. Init => Inv BY DEF Init, OnlyFirst, MemInLog, NoGap
<1>2. ASSUME IInv, Inv, [Next]_vars PROVE Inv'
  <2>1. CASE Next BY <1>2, <2>1, OnlyFirstStep, MemInLogKept, NoGapStep
  <2>2. CASE UNCHANGED vars BY <1>2, <2>2 DEF vars, OnlyFirst, MemInLog, IsLogged, NoGap
  <2> QED BY <1>2, <2>1, <2>2
<1>3. Inv => NoGap OBVIOUS
<1> HIDE DEF Inv
<1> QED BY <1>1, <1>2, <1>3, CommitInvariant, PTL DEF Spec

-----------------------------------------------------------------------------
(* Terms that do not overlap: the clock is not taken back *)

Apart == Faults \cap {"pause", "keepalive"} = {}

\* Every replay reads the log to its end.
Complete == "deadline" \notin Faults

\* A term that is under way holds the key and knows that it leads.
Alone == \A t \in Term : pc[t] \notin {"waiting", "crashed"} => holder = t /\ role[t] = "leader"

\* Nothing a leader goes on from is older than what players have seen.
Playing == {"getOffset", "ready", "sent"} \cup Writing
NothingOlder == /\ shown # 0 => \E j \in DOMAIN log : log[j].tick >= shown
                /\ redis.state # None => redis.state.tick >= shown
                /\ \A t \in Term : pc[t] \in Playing => mem[t].tick >= shown

\* Players are shown a state that Redis holds, or has lost since.
JustSaved == \A t \in Term : pc[t] = "setOffset" => redis.state \in {None, StateOf(t)}

Forward == Alone /\ NothingOlder /\ JustSaved

LEMMA AloneStep == ASSUME Apart, OneMatch, IInv, OnlyFirst, Alone, Next PROVE Alone'
<1> USE DEF IInv, TypeOK, TermOK, CountersOK, Goes, Becomes
<1> SUFFICES ASSUME NEW u \in Term, pc'[u] \notin {"waiting", "crashed"}
             PROVE  holder' = u /\ role'[u] = "leader"
  BY DEF Alone
<1> DEFINE Goal == holder' = u /\ role'[u] = "leader"
<1>1. CASE KeyGone
  <2>1. pc[holder] = "crashed" \/ role[holder] \in {"resigned", "stopped", "rogue"}
    BY <1>1 DEF KeyGone, Apart, Fault
  <2>2. holder \in Term /\ pc[u] \notin {"waiting", "crashed"}
    BY <1>1 DEF KeyGone
  <2> QED BY <2>1, <2>2 DEF Alone
<1>2. CASE RedisLoss BY <1>2 DEF RedisLoss, leadership, Alone
<1>0. ASSUME NEW event \in stray, ArriveLate(event) PROVE Goal BY <1>0 DEF ArriveLate, leadership, Alone
<1>3. ASSUME NEW t \in Term, Step(t) PROVE Goal
  <2>1. CASE Elect(t) BY <2>1, NoneAssumption DEF Elect, Alone
  <2>2. CASE Resign(t)
    <3>1. holder # t BY <2>2 DEF Resign, Apart, Fault
    <3>2. pc[u] \notin {"waiting", "crashed"} BY <2>2 DEF Resign
    <3> QED BY <2>2, <3>1, <3>2 DEF Resign, Alone
  <2>3. CASE Stop(t) BY <2>3 DEF Stop, Alone
  <2>4. CASE Crash(t) BY <2>4 DEF Crash, leadership, Alone
  <2>5. CASE GetState(t) \/ GetOffset(t) \/ Replay(t) \/ LoadFails(t)
    BY <2>5 DEF GetState, GetOffset, Replay, LoadFails, Loading, leadership, Alone
  <2>6. CASE Send(t) \/ Arrive(t) \/ Ack(t) \/ Nack(t)
    BY <2>6 DEF Send, Arrive, Ack, Nack, leadership, Alone
  <2>7. CASE SetState(t) \/ SetOffset(t) \/ RedisFails(t)
    BY <2>7 DEF SetState, SetOffset, RedisFails, leadership, Alone
  <2>8. CASE EndMatch(t) \/ RunReturns(t) \/ EraseFails(t)
    BY <2>8 DEF EndMatch, RunReturns, EraseFails, leadership, Alone
  <2>9. ~NextMatch(t) BY ConstantAssumption DEF OneMatch, NextMatch, OnlyFirst
  <2> QED BY <1>3, <2>1, <2>2, <2>3, <2>4, <2>5, <2>6, <2>7, <2>8, <2>9 DEF Step
<1> QED BY <1>0, <1>1, <1>2, <1>3 DEF Next

\* With one match, the keys are lost or written by a term under way.
LEMMA StateStep ==
    ASSUME OneMatch, IInv, OnlyFirst, Next
    PROVE  \/ redis'.state \in {None, redis.state}
           \/ \E t \in Term : /\ pc[t] = "setState" /\ redis'.state = StateOf(t)
                             /\ mem' = mem /\ shown' = shown
                             /\ \A u \in Term : u # t => pc'[u] = pc[u]
<1> DEFINE Goal == \/ redis'.state \in {None, redis.state}
                   \/ \E t \in Term : /\ pc[t] = "setState" /\ redis'.state = StateOf(t)
                                     /\ mem' = mem /\ shown' = shown
                                     /\ \A u \in Term : u # t => pc'[u] = pc[u]
<1> USE DEF IInv, TypeOK, RedisOK, TermOK, Goes
<1>1. CASE KeyGone BY <1>1 DEF KeyGone
<1>2. CASE RedisLoss BY <1>2 DEF RedisLoss, NoRedis
<1>0. ASSUME NEW event \in stray, ArriveLate(event) PROVE Goal BY <1>0 DEF ArriveLate
<1>3. ASSUME NEW t \in Term, Step(t) PROVE Goal
  <2>0. /\ StateSet(t).state = StateOf(t) /\ OffsetSet(t).state = redis.state
    BY DEF StateSet, OffsetSet
  <2>1. CASE SetState(t) BY <2>0, <2>1 DEF SetState
  <2>2. CASE SetOffset(t) BY <2>0, <2>2 DEF SetOffset
  <2>3. CASE RedisFails(t) BY <2>0, <2>3 DEF RedisFails
  <2>4. CASE UNCHANGED redis BY <2>4
  <2>5. ~NextMatch(t) BY ConstantAssumption DEF OneMatch, NextMatch, OnlyFirst
  <2> QED BY <1>3, <2>1, <2>2, <2>3, <2>4, <2>5 DEF Step, Elect, Resign, Stop, Crash, GetState, GetOffset,
       Replay, LoadFails, Send, Arrive, Ack, Nack, EndMatch, RunReturns, EraseFails
<1> QED BY <1>0, <1>1, <1>2, <1>3 DEF Next

\* What players see changes only when a term has written its state.
LEMMA ShownStep ==
    ASSUME IInv, Next
    PROVE  \/ shown' = shown
           \/ \E t \in Term : pc[t] = "setOffset" /\ pc'[t] \in {"ending", "ready"} /\ shown' = mem[t].tick
                             /\ UNCHANGED <<log, mem>> /\ redis'.state = redis.state
                             /\ \A u \in Term : u # t => pc'[u] = pc[u]
<1> USE DEF IInv, TypeOK, TermOK, RedisOK, Goes
<1>1. ASSUME NEW t \in Term, SetOffset(t)
      PROVE  pc[t] = "setOffset" /\ pc'[t] \in {"ending", "ready"} /\ shown' = mem[t].tick
             /\ UNCHANGED <<log, mem>> /\ redis'.state = redis.state
             /\ \A u \in Term : u # t => pc'[u] = pc[u]
  BY <1>1 DEF SetOffset, OffsetSet, kafka
<1>2. ASSUME NEW t \in Term, Step(t), ~SetOffset(t) PROVE shown' = shown
  BY <1>2 DEF Step, Elect, Resign, Stop, Crash, GetState, GetOffset, Replay, LoadFails,
         Send, Arrive, Ack, Nack, SetState, RedisFails, EndMatch, RunReturns, NextMatch, EraseFails
<1> QED BY <1>1, <1>2 DEF Next, KeyGone, RedisLoss, ArriveLate

LEMMA JustSavedStep ==
    ASSUME OneMatch, IInv, OnlyFirst, Alone, JustSaved, Next
    PROVE  JustSaved'
<1> USE DEF IInv, TypeOK, TermOK, MemOK, Goes
<1> SUFFICES ASSUME NEW u \in Term, pc'[u] = "setOffset"
             PROVE  redis'.state \in {None, StateOf(u)'}
  BY DEF JustSaved
<1>1. pc[u] \in Writing /\ mem'[u] = mem[u]
  BY WriteStep DEF Next, Ack, Writing, KeyGone, RedisLoss, ArriveLate, Step, Elect, Resign, Stop, Crash, GetState, GetOffset, Replay, LoadFails,
         Send, Arrive, Nack, SetState, SetOffset, RedisFails, EndMatch, RunReturns, NextMatch, EraseFails
<1>2. StateOf(u)' = StateOf(u) BY <1>1 DEF StateOf
<1>3. CASE pc[u] = "setOffset"
  <2>1. redis.state \in {None, StateOf(u)} BY <1>3 DEF JustSaved
  <2>2. ASSUME NEW t \in Term, pc[t] = "setState", redis'.state = StateOf(t) PROVE t = u
    BY <1>3, <2>2 DEF Alone
  <2> QED BY <1>2, <1>3, <2>1, <2>2, StateStep
<1>4. CASE pc[u] = "setState"
  <2>1. SetState(u)
    BY <1>4 DEF Next, KeyGone, RedisLoss, ArriveLate, Step, Loaded, Remembers, Loading, Ends, Elect, Resign, Stop, Crash, GetState, GetOffset, Replay, LoadFails,
         Send, Arrive, Ack, Nack, SetState, SetOffset, RedisFails, EndMatch, RunReturns, NextMatch, EraseFails
  <2> QED BY <1>2, <2>1 DEF SetState, StateSet, RedisOK
<1> QED BY <1>1, <1>3, <1>4 DEF Writing

\* How a term comes to play on: it did, or it has just loaded a state.
LEMMA PlayingStep ==
    ASSUME OneMatch, IInv, OnlyFirst, Next, NEW u \in Term, pc'[u] \in Playing
    PROVE  GetState(u) \/ Replay(u) \/ pc[u] \in Playing
<1> USE DEF IInv, TypeOK, TermOK, Goes, Playing, Writing
<1>1. ASSUME NEW t \in Term, Step(t), t # u PROVE pc'[u] = pc[u]
  BY <1>1 DEF Loaded, Step, Elect, Resign, Stop, Crash, GetState, GetOffset, Replay, LoadFails,
         Send, Arrive, Ack, Nack, SetState, SetOffset, RedisFails, EndMatch, RunReturns, NextMatch, EraseFails
<1>2. ASSUME Step(u) PROVE GetState(u) \/ Replay(u) \/ pc[u] \in Playing
  <2>1. ~NextMatch(u) BY ConstantAssumption DEF OneMatch, NextMatch, OnlyFirst
  <2>2. CASE Elect(u) \/ Resign(u) \/ Stop(u) \/ Crash(u) BY <2>2 DEF Elect, Resign, Stop, Crash
  <2>3. CASE GetOffset(u) \/ LoadFails(u) BY <2>3 DEF GetOffset, LoadFails
  <2>4. CASE Send(u) \/ Arrive(u) \/ Ack(u) \/ Nack(u) BY <2>4 DEF Send, Arrive, Ack, Nack
  <2>5. CASE SetState(u) \/ SetOffset(u) \/ RedisFails(u) BY <2>5 DEF SetState, SetOffset, RedisFails
  <2>6. CASE EndMatch(u) \/ RunReturns(u) \/ EraseFails(u) BY <2>6 DEF EndMatch, RunReturns, EraseFails
  <2> QED BY <1>2, <2>1, <2>2, <2>3, <2>4, <2>5, <2>6 DEF Step
<1> QED BY <1>1, <1>2 DEF Next, KeyGone, RedisLoss, ArriveLate

\* A state read from Redis, or replayed from the whole log, is not older than what was shown.
LEMMA LoadStep ==
    ASSUME Complete, IInv, NothingOlder, NEW u \in Term, pc'[u] \in Playing, GetState(u) \/ Replay(u)
    PROVE  mem'[u].tick >= shown
<1> USE DEF IInv, TypeOK
<1>0. shown \in Nat /\ Len(log) \in Nat /\ DOMAIN log = 1 .. Len(log) /\ mem[u] \in Memory
  BY DEF LogOK, MemOK
<1>1. CASE GetState(u)
  <2>1. redis.state # None BY <1>1 DEF GetState, Goes, Playing, Writing, TermOK
  <2>2. mem'[u].tick = redis.state.tick
    BY <1>0, <1>1, <2>1 DEF GetState, Remembers, MemOK, Memory
  <2> QED BY <2>1, <2>2 DEF NothingOlder
<1>2. CASE Replay(u)
  <2>1. Applied(u, Len(log)) BY <1>2 DEF Replay, Fault, Complete
  <2>2. CASE Len(log) = 0
    <3>1. shown = 0 BY <1>0, <2>2 DEF NothingOlder
    <3>2. mem'[u].tick = 0 BY <2>1, <2>2 DEF Applied, Remembers, MemOK, Fresh
    <3> QED BY <3>1, <3>2
  <2>3. CASE Len(log) # 0
    <3>1. PICK i \in 1 .. Len(log) : IsHighestTick(log[i].tick, Len(log)) /\ mem'[u].tick = log[i].tick
      BY <2>1, <2>3 DEF Applied, Remembers, MemOK
    <3>5. \A j \in 1 .. Len(log) : log[j] \in Event BY <1>0 DEF LogOK
    <3>2. \A j \in 1 .. Len(log) : log[j].tick \in Nat /\ log[j].tick <= log[i].tick
      BY <3>1, <3>5 DEF IsHighestTick, Event
    <3>3. CASE shown = 0 BY <3>1, <3>2, <3>3
    <3>4. CASE shown # 0
      <4>1. PICK j \in DOMAIN log : log[j].tick >= shown BY <3>4 DEF NothingOlder
      <4>2. log[j].tick \in Nat /\ log[i].tick \in Nat /\ log[j].tick <= log[i].tick
        BY <1>0, <3>2, <4>1
      <4> QED BY <1>0, <3>1, <4>1, <4>2
    <3> QED BY <3>3, <3>4
  <2> QED BY <2>2, <2>3
<1> QED BY <1>1, <1>2

LEMMA NothingOlderStep ==
    ASSUME OneMatch, Complete, IInv, OnlyFirst, Forward, Next
    PROVE  NothingOlder'
<1> USE DEF Forward, IInv, TypeOK
<1>0. shown \in Nat /\ \A t \in Term : mem[t] \in Memory
  BY DEF LogOK, MemOK
<1>1. CASE shown' = shown
  <2>1. ASSUME shown # 0 PROVE \E j \in DOMAIN log' : log'[j].tick >= shown
    <3>1. PICK j \in DOMAIN log : log[j].tick >= shown BY <2>1 DEF NothingOlder
    <3>2. j \in DOMAIN log' /\ log'[j] = log[j] BY <3>1, LogGrows
    <3> QED BY <3>1, <3>2
  <2>2. ASSUME redis'.state # None PROVE redis'.state.tick >= shown
    <3>1. CASE redis'.state = redis.state BY <2>2, <3>1 DEF NothingOlder
    <3>2. ASSUME NEW t \in Term, pc[t] = "setState", redis'.state = StateOf(t)
          PROVE  redis'.state.tick >= shown
      BY <3>2 DEF NothingOlder, Playing, Writing, StateOf
    <3> QED BY <2>2, <3>1, <3>2, StateStep
  <2>3. ASSUME NEW u \in Term, pc'[u] \in Playing PROVE mem'[u].tick >= shown
    <3>1. CASE GetState(u) \/ Replay(u) BY <2>3, <3>1, LoadStep
    <3>2. CASE pc[u] \in Playing /\ ~GetState(u) /\ ~Replay(u)
      <4>0. mem[u].tick \in Nat /\ mem[u].tick >= shown BY <1>0, <3>2 DEF NothingOlder, Memory
      <4>1. CASE mem'[u] = mem[u] BY <4>0, <4>1
      <4>2. CASE Ack(u)
        <5>1. mem'[u].tick = mem[u].tick + 1 BY <4>2 DEF Ack, Remembers, Advanced, MemOK
        <5> QED BY <1>0, <4>0, <5>1
      <4>3. CASE GetOffset(u)
        <5>1. mem'[u].tick = mem[u].tick BY <1>0, <4>3 DEF GetOffset, Remembers, MemOK, Memory
        <5> QED BY <4>0, <5>1
      <4>4. ~Elect(u) BY <3>2 DEF Elect, Goes, Playing, Writing
      <4>5. ~NextMatch(u) BY ConstantAssumption DEF OneMatch, NextMatch, OnlyFirst
      <4> QED BY <3>2, <4>1, <4>2, <4>3, <4>4, <4>5, MemStep
    <3> QED BY <2>3, <3>1, <3>2, PlayingStep
  <2> QED BY <1>1, <2>1, <2>2, <2>3 DEF NothingOlder
<1>2. ASSUME NEW t \in Term, pc[t] = "setOffset", pc'[t] \in {"ending", "ready"}, shown' = mem[t].tick,
             UNCHANGED <<log, mem>>, redis'.state = redis.state,
             \A u \in Term : u # t => pc'[u] = pc[u]
      PROVE  NothingOlder'
  <2>1. \E j \in DOMAIN log' : log'[j].tick >= shown'
    <3>0. pc[t] \in Writing BY <1>2 DEF Writing
    <3>3. mem[t].at \in DOMAIN log /\ log[mem[t].at] = [tick |-> mem[t].tick, match |-> mem[t].match]
      BY <3>0 DEF WriteIsLogged
    <3>1. mem[t].at \in DOMAIN log /\ log[mem[t].at].tick = mem[t].tick
      BY <3>3
    <3>2. mem[t].tick \in Nat BY <1>0 DEF Memory
    <3> QED BY <1>2, <3>1, <3>2
  <2>2. redis'.state # None => redis'.state.tick = shown'
    BY <1>2 DEF JustSaved, StateOf
  <2>3. ASSUME NEW u \in Term, pc'[u] \in Playing PROVE u = t
    BY <1>2, <2>3 DEF Alone, Playing, Writing
  <2>4. mem'[t].tick = shown' /\ shown' \in Nat BY <1>0, <1>2 DEF Memory
  <2> QED BY <2>1, <2>2, <2>3, <2>4 DEF NothingOlder
<1> QED BY <1>1, <1>2, ShownStep

(***************************************************************************)
(* A failover does not take the clock of the match back: a leader that     *)
(* plays has loaded, or advanced to, a tick no older than the last that    *)
(* was broadcast (load_state, _process_tick), for any number of crashes,   *)
(* failed calls, lost keys and late events.  It needs terms that do not    *)
(* overlap (a paused leader still writes its own, older, state) and        *)
(* replays that end before their deadline; and it is about the tick only,  *)
(* as a late event may bring the players of an older one.                  *)
(***************************************************************************)
THEOREM NoStepBack == ASSUME OneMatch, Apart, Complete PROVE Spec => []NoRollback
<1> DEFINE Inv == OnlyFirst /\ Forward
<1>1. Init => Inv
  BY DEF Init, OnlyFirst, Forward, Alone, NothingOlder, JustSaved, Playing, Writing, NoRedis
<1>2. ASSUME IInv, Inv, [Next]_vars PROVE Inv'
  <2>1. CASE Next BY <1>2, <2>1, OnlyFirstStep, AloneStep, NothingOlderStep, JustSavedStep DEF Forward
  <2>2. CASE UNCHANGED vars
    BY <1>2, <2>2 DEF vars, OnlyFirst, Forward, Alone, NothingOlder, JustSaved, StateOf
  <2> QED BY <1>2, <2>1, <2>2
<1>3. Inv => NoRollback
  BY DEF Forward, NothingOlder, Playing, NoRollback
<1> HIDE DEF Inv
<1> QED BY <1>1, <1>2, <1>3, CommitInvariant, PTL DEF Spec
=============================================================================
