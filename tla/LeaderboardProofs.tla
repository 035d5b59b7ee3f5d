------------------------- MODULE LeaderboardProofs -------------------------
(***************************************************************************)
(* Theorems about Leaderboard for any number of consumers, players,        *)
(* matches, attempts and faults.  A player's row is written from a value   *)
(* read earlier, so the statistics are right only because the row stays    *)
(* locked in between, and a match is not applied twice only because its    *)
(* insert is held until the commit: Transactions says which locks a        *)
(* consumer holds at each place, and Deliveries what the owner of the      *)
(* partition has left behind it.                                           *)
(***************************************************************************)
EXTENDS Leaderboard, FiniteSetTheorems, SequenceTheorems, TLAPS

\* A consumer has a message, and attempts left, while it works on it.
Working == {"insert", "lock"}
HasMessage == \A c \in Consumer :
                 /\ pc[c] \in Working => attempts[c] < MaxAttempts
                 /\ pc[c] \in Working \cup {"commit"} => position[c] # 0

\* The insert of a match not processed yet belongs to the consumer applying it.
InsertHeld == \A c \in Consumer : pc[c] = "lock" => /\ inserting[Current(c)] = c
                                                    /\ Current(c) \notin processed
OneInsert == \A m \in Match, c \in Consumer : inserting[m] = c => pc[c] = "lock" /\ m = Current(c)

\* What a consumer read of a row it has locked is what the row holds.
ReadIsFresh == \A p \in Player, c \in Consumer :
                  rowLock[p] = c => /\ pc[c] = "lock"
                                    /\ p \in Rows(Current(c))
                                    /\ read[c][p] = total[p]

Transactions == InsertHeld /\ OneInsert /\ ReadIsFresh

\* The owner of the partition has settled all it has read but the current message.
Deliveries == \A c \in Consumer : owner = c =>
                 /\ \A i \in Nat : 1 <= i /\ i < position[c] => Settled(i)
                 /\ pc[c] \in {"poll", "commit"} /\ position[c] # 0 => Settled(position[c])

IInv == /\ TypeOK /\ HasMessage /\ Transactions
        /\ IsFiniteSet(processed) /\ StatsMatchProcessed
        /\ Deliveries /\ CommittedIsApplied

-----------------------------------------------------------------------------
(* Lemmas about the operators *)

\* A message keeps its place when another is published.
LEMMA AppendKeeps ==
    ASSUME NEW t \in Seq(Match), NEW m \in Match
    PROVE  /\ Append(t, m) \in Seq(Match)
           /\ Len(Append(t, m)) = Len(t) + 1
           /\ \A i \in 1 .. Len(t) : Append(t, m)[i] = t[i]
  BY AppendProperties

\* A message that was read has a match.
LEMMA CurrentIsMatch ==
    ASSUME TypeOK, HasMessage, NEW c \in Consumer, pc[c] \in Working \cup {"commit"}
    PROVE  /\ position[c] \in 1 .. Len(topic)
           /\ Current(c) \in Match
<1>1. position[c] \in 1 .. Len(topic)
  BY LenProperties DEF TypeOK, HasMessage
<1> QED
  BY <1>1, ElementOfSeq DEF TypeOK, Current

\* What is left of a table of locks when c lets go.
LEMMA ReleasedTable ==
    ASSUME NEW S, NEW table \in [S -> Consumer \cup {None}], NEW c \in Consumer
    PROVE  /\ Released(table, c) \in [S -> Consumer \cup {None}]
           /\ \A x \in S : Released(table, c)[x] = IF table[x] = c THEN None ELSE table[x]
  BY DEF Released

\* c holds nothing once it has let go, and nobody else is disturbed.
LEMMA ReleasedHolders ==
    ASSUME TypeOK, NEW c \in Consumer, NEW d \in Consumer
    PROVE  /\ \A m \in Match : Released(inserting, c)[m] = d <=> d # c /\ inserting[m] = d
           /\ \A p \in Player : Released(rowLock, c)[p] = d <=> d # c /\ rowLock[p] = d
<1>1. inserting \in [Match -> Consumer \cup {None}] /\ rowLock \in [Player -> Consumer \cup {None}]
  BY DEF TypeOK
<1> QED
  BY <1>1, ReleasedTable, NoneAssumption

-----------------------------------------------------------------------------
(* Types *)

LEMMA InitInv == Init => IInv
<1> SUFFICES ASSUME Init PROVE IInv
  OBVIOUS
<1> USE DEF Init
<1>1. topic \in Seq(Match) /\ Len(topic) = 0
  BY EmptySeq
<1>2. TypeOK
  BY <1>1, BoundAssumption DEF TypeOK, PC
<1>3. HasMessage /\ Transactions
  BY NoneAssumption DEF HasMessage, Working, Transactions, InsertHeld, OneInsert, ReadIsFresh
<1>4. IsFiniteSet(processed) /\ Cardinality(processed) = 0
  BY FS_EmptySet
<1>5. StatsMatchProcessed
  <2> SUFFICES ASSUME NEW p \in Registered PROVE total[p] = Cardinality({m \in processed : p \in Roster[m]})
    BY DEF StatsMatchProcessed
  <2>1. {m \in processed : p \in Roster[m]} = {}
    OBVIOUS
  <2> QED
    BY <2>1, FS_EmptySet, PlayerAssumption
<1>6. Deliveries /\ CommittedIsApplied
  BY NoneAssumption DEF Deliveries, CommittedIsApplied
<1> QED
  BY <1>2, <1>3, <1>4, <1>5, <1>6 DEF IInv

\* The types of the log and of what the consumers have read of it.
LogOK == /\ topic \in Seq(Match)
         /\ committed \in 0 .. Len(topic)
         /\ position \in [Consumer -> 0 .. Len(topic)]
         /\ dropped \subseteq 1 .. Len(topic)

\* The types of everything else.
RestOK == /\ owner \in Consumer \cup {None}
          /\ processed \subseteq Match
          /\ total \in [Player -> Nat]
          /\ inserting \in [Match -> Consumer \cup {None}]
          /\ rowLock \in [Player -> Consumer \cup {None}]
          /\ pc \in [Consumer -> PC]
          /\ attempts \in [Consumer -> 0 .. MaxAttempts]
          /\ read \in [Consumer -> [Player -> Nat]]
          /\ faults \in 0 .. MaxFaults

LEMMA TypeParts == (TypeOK <=> LogOK /\ RestOK) /\ (TypeOK' <=> LogOK' /\ RestOK')
  BY DEF TypeOK, LogOK, RestOK

LEMMA LogOKStep ==
    ASSUME TypeOK, HasMessage, Next
    PROVE  LogOK'
<1> USE LenProperties DEF LogOK, TypeOK, group, database, Goes
<1>1. ASSUME NEW m \in Match, Publish(m) PROVE LogOK'
  <2>1. topic' \in Seq(Match) /\ Len(topic') = Len(topic) + 1
    BY <1>1, AppendKeeps DEF Publish
  <2> QED
    BY <1>1, <2>1 DEF Publish
<1>2. ASSUME NEW c \in Consumer, Poll(c) PROVE LogOK'
  BY <1>2 DEF Poll
<1>3. ASSUME NEW c \in Consumer, Insert(c) PROVE LogOK'
  BY <1>3 DEF Insert
<1>4. ASSUME NEW c \in Consumer, NEW p \in Player, LockRow(c, p) PROVE LogOK'
  BY <1>4 DEF LockRow
<1>5. ASSUME NEW c \in Consumer, Apply(c) PROVE LogOK'
  BY <1>5 DEF Apply, Retry
<1>6. ASSUME NEW c \in Consumer, CommitOffset(c) PROVE LogOK'
  BY <1>6, CurrentIsMatch DEF CommitOffset, Working
<1>7. ASSUME NEW c \in Consumer, Assign(c) PROVE LogOK'
  BY <1>7 DEF Assign
<1>8. ASSUME NEW c \in Consumer, DatabaseFails(c) PROVE LogOK'
  BY <1>8, CurrentIsMatch DEF DatabaseFails, Rollback, Retry, Working
<1>9. ASSUME NEW c \in Consumer, Crash(c) PROVE LogOK'
  BY <1>9 DEF Crash, Rollback
<1>10. ASSUME NEW c \in Consumer, Restart(c) PROVE LogOK'
  BY <1>10 DEF Restart
<1> QED
  BY <1>1, <1>2, <1>3, <1>4, <1>5, <1>6, <1>7, <1>8, <1>9, <1>10 DEF Next, Step

LEMMA RestOKStep ==
    ASSUME TypeOK, HasMessage, Next
    PROVE  RestOK'
<1> USE BoundAssumption DEF RestOK, TypeOK, group, database, Goes, PC, Fault, NoFault
<1>1. ASSUME NEW m \in Match, Publish(m) PROVE RestOK'
  BY <1>1 DEF Publish
<1>2. ASSUME NEW c \in Consumer, Poll(c) PROVE RestOK'
  BY <1>2 DEF Poll
<1>3. ASSUME NEW c \in Consumer, Insert(c) PROVE RestOK'
  BY <1>3, CurrentIsMatch DEF Insert, Working, HasMessage
<1>4. ASSUME NEW c \in Consumer, NEW p \in Player, LockRow(c, p) PROVE RestOK'
  BY <1>4 DEF LockRow
<1>5. ASSUME NEW c \in Consumer, Apply(c) PROVE RestOK'
  <2>1. Current(c) \in Match /\ attempts[c] < MaxAttempts
    BY <1>5, CurrentIsMatch DEF Apply, Retry, HasMessage, Working
  <2>2. inserting' \in [Match -> Consumer \cup {None}] /\ rowLock' \in [Player -> Consumer \cup {None}]
    BY <1>5, ReleasedTable DEF Apply
  <2>3. total' \in [Player -> Nat]
    BY <1>5 DEF Apply
  <2>4. pc' \in [Consumer -> PC] /\ attempts' \in [Consumer -> 0 .. MaxAttempts] /\ faults' \in 0 .. MaxFaults
    <3>1. pc[c] = "lock"
      BY <1>5 DEF Apply
    <3>2. CASE Goes(c, "lock", "commit") /\ UNCHANGED attempts /\ NoFault
      BY <3>2
    <3>3. CASE Retry(c)
      BY <2>1, <3>3 DEF Retry, GivesUp
    <3> QED
      BY <1>5, <3>2, <3>3 DEF Apply
  <2> QED
    BY <1>5, <2>1, <2>2, <2>3, <2>4 DEF Apply
<1>6. ASSUME NEW c \in Consumer, CommitOffset(c) PROVE RestOK'
  BY <1>6 DEF CommitOffset
<1>7. ASSUME NEW c \in Consumer, Assign(c) PROVE RestOK'
  BY <1>7 DEF Assign
<1>8. ASSUME NEW c \in Consumer, DatabaseFails(c) PROVE RestOK'
  <2>1. inserting' \in [Match -> Consumer \cup {None}] /\ rowLock' \in [Player -> Consumer \cup {None}]
    BY <1>8, ReleasedTable DEF DatabaseFails, Rollback
  <2>2. pc' \in [Consumer -> PC] /\ attempts' \in [Consumer -> 0 .. MaxAttempts] /\ faults' \in 0 .. MaxFaults
    BY <1>8 DEF DatabaseFails, Retry, GivesUp, HasMessage, Working
  <2> QED
    BY <1>8, <2>1, <2>2 DEF DatabaseFails, Rollback
<1>9. ASSUME NEW c \in Consumer, Crash(c) PROVE RestOK'
  <2>1. inserting' \in [Match -> Consumer \cup {None}] /\ rowLock' \in [Player -> Consumer \cup {None}]
    BY <1>9, ReleasedTable DEF Crash, Rollback
  <2> QED
    BY <1>9, <2>1 DEF Crash, Rollback
<1>10. ASSUME NEW c \in Consumer, Restart(c) PROVE RestOK'
  BY <1>10 DEF Restart
<1> QED
  BY <1>1, <1>2, <1>3, <1>4, <1>5, <1>6, <1>7, <1>8, <1>9, <1>10 DEF Next, Step

LEMMA HasMessageStep ==
    ASSUME TypeOK, HasMessage, Next
    PROVE  HasMessage'
<1> USE BoundAssumption, LenProperties DEF HasMessage, Working, TypeOK, group, database, Goes
<1>1. ASSUME NEW m \in Match, Publish(m) PROVE HasMessage'
  BY <1>1 DEF Publish, GivesUp
<1>2. ASSUME NEW c \in Consumer, Poll(c) PROVE HasMessage'
  BY <1>2 DEF Poll, GivesUp
<1>3. ASSUME NEW c \in Consumer, Insert(c) PROVE HasMessage'
  BY <1>3 DEF Insert, GivesUp
<1>4. ASSUME NEW c \in Consumer, NEW p \in Player, LockRow(c, p) PROVE HasMessage'
  BY <1>4 DEF LockRow, GivesUp
<1>5. ASSUME NEW c \in Consumer, Apply(c) PROVE HasMessage'
  BY <1>5 DEF Apply, Retry, GivesUp
<1>6. ASSUME NEW c \in Consumer, CommitOffset(c) PROVE HasMessage'
  BY <1>6 DEF CommitOffset, GivesUp
<1>7. ASSUME NEW c \in Consumer, Assign(c) PROVE HasMessage'
  BY <1>7 DEF Assign, GivesUp
<1>8. ASSUME NEW c \in Consumer, DatabaseFails(c) PROVE HasMessage'
  BY <1>8 DEF DatabaseFails, Rollback, Retry, GivesUp
<1>9. ASSUME NEW c \in Consumer, Crash(c) PROVE HasMessage'
  BY <1>9 DEF Crash, Rollback, GivesUp
<1>10. ASSUME NEW c \in Consumer, Restart(c) PROVE HasMessage'
  BY <1>10 DEF Restart, GivesUp
<1> QED
  BY <1>1, <1>2, <1>3, <1>4, <1>5, <1>6, <1>7, <1>8, <1>9, <1>10 DEF Next, Step

-----------------------------------------------------------------------------
(* What a consumer holds at each place *)

\* The message a consumer works on does not change while it works on it.
LEMMA SameCurrent ==
    ASSUME TypeOK, HasMessage, Next, NEW c \in Consumer, pc[c] \in Working, pc'[c] \in Working
    PROVE  position'[c] = position[c] /\ Current(c)' = Current(c)
<1>1. position'[c] = position[c]
  BY DEF Next, Step, Publish, Poll, Insert, LockRow, Apply, CommitOffset, Assign, DatabaseFails,
         Crash, Restart, Goes, Working, TypeOK, group
<1>2. topic[position[c]] = topic'[position[c]]
  <2>1. ASSUME NEW m \in Match, Publish(m) PROVE topic[position[c]] = topic'[position[c]]
    BY <2>1, CurrentIsMatch, AppendKeeps DEF Publish, TypeOK
  <2>2. CASE UNCHANGED topic
    BY <2>2
  <2> QED
    BY <2>1, <2>2 DEF Next, Step, Poll, Insert, LockRow, Apply, CommitOffset, Assign, DatabaseFails,
         Crash, Restart, group
<1> QED
  BY <1>1, <1>2 DEF Current

\* A step that touches no transaction, and the three kinds that do besides LockRow and Apply.
Elsewhere == /\ UNCHANGED <<inserting, rowLock, processed, total, read>>
             /\ \A c \in Consumer : pc'[c] = "lock" <=> pc[c] = "lock"
Begins(c) == /\ pc[c] = "insert" /\ pc' = [pc EXCEPT ![c] = "lock"]
             /\ Current(c) \notin processed
             /\ inserting[Current(c)] = None
             /\ inserting' = [inserting EXCEPT ![Current(c)] = c]
             /\ UNCHANGED <<rowLock, processed, total, read>>
RollsBack(c) == /\ Rollback(c) /\ UNCHANGED read
                /\ pc'[c] # "lock"
                /\ \A d \in Consumer : d # c => pc'[d] = pc[d]

LEMMA TransactionStep ==
    ASSUME TypeOK, HasMessage, Next
    PROVE  \/ Elsewhere
           \/ \E c \in Consumer : Begins(c) \/ Apply(c) \/ RollsBack(c)
           \/ \E c \in Consumer, p \in Player : LockRow(c, p)
<1> DEFINE Goal == \/ Elsewhere
                   \/ \E c \in Consumer : Begins(c) \/ Apply(c) \/ RollsBack(c)
                   \/ \E c \in Consumer, p \in Player : LockRow(c, p)
<1> USE DEF group, database, Goes, TypeOK
<1>1. ASSUME NEW m \in Match, Publish(m) PROVE Goal
  BY <1>1 DEF Publish, Elsewhere
<1>2. ASSUME NEW c \in Consumer, Poll(c) PROVE Goal
  BY <1>2 DEF Poll, Elsewhere
<1>3. ASSUME NEW c \in Consumer, Insert(c) PROVE Goal
  BY <1>3 DEF Insert, Elsewhere, Begins
<1>4. ASSUME NEW c \in Consumer, NEW p \in Player, LockRow(c, p) PROVE Goal
  BY <1>4
<1>5. ASSUME NEW c \in Consumer, Apply(c) PROVE Goal
  BY <1>5
<1>6. ASSUME NEW c \in Consumer, CommitOffset(c) PROVE Goal
  BY <1>6 DEF CommitOffset, Elsewhere
<1>7. ASSUME NEW c \in Consumer, Assign(c) PROVE Goal
  BY <1>7 DEF Assign, Elsewhere
<1>8. ASSUME NEW c \in Consumer, DatabaseFails(c) PROVE Goal
  BY <1>8 DEF DatabaseFails, RollsBack, GivesUp, Retry
<1>9. ASSUME NEW c \in Consumer, Crash(c) PROVE Goal
  BY <1>9 DEF Crash, RollsBack, GivesUp
<1>10. ASSUME NEW c \in Consumer, Restart(c) PROVE Goal
  BY <1>10 DEF Restart, Elsewhere
<1> QED
  BY <1>1, <1>2, <1>3, <1>4, <1>5, <1>6, <1>7, <1>8, <1>9, <1>10 DEF Next, Step

\* Where Apply leaves its consumer.
LEMMA ApplyEnds ==
    ASSUME TypeOK, NEW c \in Consumer, Apply(c)
    PROVE  pc'[c] # "lock" /\ \A d \in Consumer : d # c => pc'[d] = pc[d]
  BY DEF Apply, Goes, Retry, GivesUp, TypeOK

LEMMA InsertHeldStep ==
    ASSUME TypeOK, HasMessage, Transactions, Next
    PROVE  InsertHeld'
<1> SUFFICES ASSUME NEW d \in Consumer, pc'[d] = "lock"
             PROVE  inserting'[Current(d)'] = d /\ Current(d)' \notin processed'
  BY DEF InsertHeld
<1> USE DEF Transactions, InsertHeld, Working
<1>0. pc[d] = "lock" => /\ Current(d)' = Current(d) /\ Current(d) \in Match
                        /\ inserting[Current(d)] = d
  BY SameCurrent, CurrentIsMatch
<1>1. CASE Elsewhere
  BY <1>0, <1>1 DEF Elsewhere
<1>2. ASSUME NEW c \in Consumer, Begins(c)
      PROVE  inserting'[Current(d)'] = d /\ Current(d)' \notin processed'
  <2>1. Current(c)' = Current(c) /\ Current(c) \in Match
    BY <1>2, SameCurrent, CurrentIsMatch DEF Begins, TypeOK
  <2>2. CASE d = c
    BY <1>2, <2>1, <2>2 DEF Begins, TypeOK
  <2>3. CASE d # c
    <3>1. pc[d] = "lock"
      BY <1>2, <2>3 DEF Begins, TypeOK
    <3>2. Current(d) # Current(c)
      BY <1>0, <1>2, <3>1, NoneAssumption DEF Begins
    <3> QED
      BY <1>0, <1>2, <2>1, <3>1, <3>2 DEF Begins, TypeOK
  <2> QED
    BY <2>2, <2>3
<1>3. ASSUME NEW c \in Consumer, NEW p \in Player, LockRow(c, p)
      PROVE  inserting'[Current(d)'] = d /\ Current(d)' \notin processed'
  BY <1>0, <1>3 DEF LockRow
<1>4. ASSUME NEW c \in Consumer, Apply(c)
      PROVE  inserting'[Current(d)'] = d /\ Current(d)' \notin processed'
  <2>1. d # c /\ pc[d] = "lock" /\ pc[c] = "lock"
    BY <1>4, ApplyEnds DEF Apply
  <2>2. inserting[Current(c)] = c
    BY <2>1
  <2>3. Current(d) # Current(c)
    BY <1>0, <2>1, <2>2
  <2>4. inserting'[Current(d)] = d
    BY <1>0, <1>4, <2>1, ReleasedHolders DEF Apply
  <2> QED
    BY <1>0, <1>4, <2>1, <2>3, <2>4 DEF Apply
<1>5. ASSUME NEW c \in Consumer, RollsBack(c)
      PROVE  inserting'[Current(d)'] = d /\ Current(d)' \notin processed'
  <2>1. d # c /\ pc[d] = "lock"
    BY <1>5 DEF RollsBack
  <2>2. inserting'[Current(d)] = d
    BY <1>0, <1>5, <2>1, ReleasedHolders DEF RollsBack, Rollback
  <2> QED
    BY <1>0, <1>5, <2>1, <2>2 DEF RollsBack, Rollback
<1> QED
  BY <1>1, <1>2, <1>3, <1>4, <1>5, TransactionStep

LEMMA OneInsertStep ==
    ASSUME TypeOK, HasMessage, Transactions, Next
    PROVE  OneInsert'
<1> SUFFICES ASSUME NEW m \in Match, NEW d \in Consumer, inserting'[m] = d
             PROVE  pc'[d] = "lock" /\ m = Current(d)'
  BY DEF OneInsert
<1> USE DEF Transactions, OneInsert, Working
<1>0. pc[d] = "lock" /\ pc'[d] = "lock" => Current(d)' = Current(d)
  BY SameCurrent
<1>1. CASE Elsewhere
  BY <1>0, <1>1 DEF Elsewhere
<1>2. ASSUME NEW c \in Consumer, Begins(c)
      PROVE  pc'[d] = "lock" /\ m = Current(d)'
  <2>1. Current(c)' = Current(c) /\ Current(c) \in Match
    BY <1>2, SameCurrent, CurrentIsMatch DEF Begins, TypeOK
  <2>2. CASE m = Current(c)
    <3>1. d = c
      BY <1>2, <2>1, <2>2 DEF Begins, TypeOK
    <3> QED
      BY <1>2, <2>1, <2>2, <3>1 DEF Begins, TypeOK
  <2>3. CASE m # Current(c)
    BY <1>0, <1>2, <2>3 DEF Begins, TypeOK
  <2> QED
    BY <2>2, <2>3
<1>3. ASSUME NEW c \in Consumer, NEW p \in Player, LockRow(c, p)
      PROVE  pc'[d] = "lock" /\ m = Current(d)'
  BY <1>0, <1>3 DEF LockRow
<1>4. ASSUME NEW c \in Consumer, Apply(c)
      PROVE  pc'[d] = "lock" /\ m = Current(d)'
  <2>1. d # c /\ inserting[m] = d
    BY <1>4, ReleasedHolders DEF Apply
  <2> QED
    BY <1>0, <1>4, <2>1, ApplyEnds
<1>5. ASSUME NEW c \in Consumer, RollsBack(c)
      PROVE  pc'[d] = "lock" /\ m = Current(d)'
  <2>1. d # c /\ inserting[m] = d
    BY <1>5, ReleasedHolders DEF RollsBack, Rollback
  <2> QED
    BY <1>0, <1>5, <2>1 DEF RollsBack
<1> QED
  BY <1>1, <1>2, <1>3, <1>4, <1>5, TransactionStep

LEMMA ReadIsFreshStep ==
    ASSUME TypeOK, HasMessage, Transactions, Next
    PROVE  ReadIsFresh'
<1> DEFINE Fresh(q, d) == pc'[d] = "lock" /\ q \in Rows(Current(d)') /\ read'[d][q] = total'[q]
<1> SUFFICES ASSUME NEW q \in Player, NEW d \in Consumer, rowLock'[q] = d
             PROVE  Fresh(q, d)
  BY DEF ReadIsFresh, Rows
<1> USE DEF Transactions, ReadIsFresh, Working
<1>0. pc[d] = "lock" /\ pc'[d] = "lock" => Current(d)' = Current(d)
  BY SameCurrent
<1>1. CASE Elsewhere
  BY <1>0, <1>1 DEF Elsewhere
<1>2. ASSUME NEW c \in Consumer, Begins(c) PROVE Fresh(q, d)
  <2>1. rowLock[q] = d /\ pc'[d] = "lock"
    BY <1>2 DEF Begins, TypeOK
  <2> QED
    BY <1>0, <1>2, <2>1 DEF Begins
<1>3. ASSUME NEW c \in Consumer, NEW p \in Player, LockRow(c, p) PROVE Fresh(q, d)
  <2>1. CASE q = p /\ d = c
    <3>1. p \in Rows(Current(c)) /\ pc[c] = "lock" /\ pc'[c] = "lock"
      BY <1>3 DEF LockRow, IsNextRow, Unlocked
    <3>2. read'[c][p] = total[p] /\ total' = total
      BY <1>3 DEF LockRow, TypeOK
    <3> QED
      BY <1>0, <2>1, <3>1, <3>2
  <2>2. CASE ~(q = p /\ d = c)
    <3>1. rowLock[q] = d
      BY <1>3, <2>2 DEF LockRow, TypeOK
    <3>2. read'[d][q] = read[d][q] /\ total' = total /\ pc' = pc
      BY <1>3, <2>2 DEF LockRow, TypeOK
    <3> QED
      BY <1>0, <3>1, <3>2
  <2> QED
    BY <2>1, <2>2
<1>4. ASSUME NEW c \in Consumer, Apply(c) PROVE Fresh(q, d)
  <2>1. d # c /\ rowLock[q] = d
    BY <1>4, ReleasedHolders DEF Apply
  <2>2. q \notin Rows(Current(c))
    BY <1>4, <2>1 DEF Apply, Unlocked
  <2>3. total'[q] = total[q] /\ read' = read
    BY <1>4, <2>2 DEF Apply
  <2> QED
    BY <1>0, <1>4, <2>1, <2>3, ApplyEnds
<1>5. ASSUME NEW c \in Consumer, RollsBack(c) PROVE Fresh(q, d)
  <2>1. d # c /\ rowLock[q] = d
    BY <1>5, ReleasedHolders DEF RollsBack, Rollback
  <2> QED
    BY <1>0, <1>5, <2>1 DEF RollsBack, Rollback
<1> QED
  BY <1>1, <1>2, <1>3, <1>4, <1>5, TransactionStep

-----------------------------------------------------------------------------
(* Statistics *)

\* Who processed a match grows by one where a match is added.
LEMMA OneMoreProcessed ==
    ASSUME IsFiniteSet(processed), NEW m, m \notin processed, NEW p
    PROVE  LET Of(set) == {x \in set : p \in Roster[x]}
           IN  Cardinality(Of(processed \cup {m}))
                   = IF p \in Roster[m] THEN Cardinality(Of(processed)) + 1
                                        ELSE Cardinality(Of(processed))
<1> DEFINE Of(set) == {x \in set : p \in Roster[x]}
<1>1. IsFiniteSet(Of(processed))
  BY FS_Subset
<1>2. CASE p \in Roster[m]
  <2>1. Of(processed \cup {m}) = Of(processed) \cup {m} /\ m \notin Of(processed)
    BY <1>2
  <2>2. Cardinality(Of(processed) \cup {m}) = Cardinality(Of(processed)) + 1
    <3> HIDE DEF Of
    <3> QED
      BY <1>1, <2>1, FS_AddElement
  <2> QED
    BY <1>2, <2>1, <2>2
<1>3. CASE p \notin Roster[m]
  <2>1. Of(processed \cup {m}) = Of(processed)
    BY <1>3
  <2> QED
    BY <1>3, <2>1
<1> QED
  BY <1>2, <1>3

LEMMA StatsStep ==
    ASSUME TypeOK, HasMessage, Transactions, IsFiniteSet(processed), StatsMatchProcessed, Next
    PROVE  IsFiniteSet(processed') /\ StatsMatchProcessed'
<1>1. CASE UNCHANGED <<processed, total>>
  BY <1>1 DEF StatsMatchProcessed
<1>2. ASSUME NEW c \in Consumer, Apply(c)
      PROVE  IsFiniteSet(processed') /\ StatsMatchProcessed'
  <2>1. processed' = processed \cup {Current(c)} /\ Current(c) \notin processed
    BY <1>2 DEF Apply, Transactions, InsertHeld
  <2>2. IsFiniteSet(processed')
    BY <2>1, FS_AddElement
  <2>3. ASSUME NEW p \in Registered
        PROVE  total'[p] = Cardinality({m \in processed' : p \in Roster[m]})
    <3>1. p \in Player /\ total[p] = Cardinality({m \in processed : p \in Roster[m]})
      BY PlayerAssumption DEF StatsMatchProcessed
    <3>2. CASE p \in Roster[Current(c)]
      <4>1. p \in Rows(Current(c)) /\ rowLock[p] = c
        BY <1>2, <3>2 DEF Apply, Rows, Unlocked
      <4>2. total'[p] = total[p] + 1
        BY <1>2, <3>1, <4>1 DEF Apply, Transactions, ReadIsFresh
      <4> QED
        BY <2>1, <3>1, <3>2, <4>2, OneMoreProcessed
    <3>3. CASE p \notin Roster[Current(c)]
      <4>1. total'[p] = total[p]
        BY <1>2, <3>1, <3>3 DEF Apply, Rows
      <4> QED
        BY <2>1, <3>1, <3>3, <4>1, OneMoreProcessed
    <3> QED
      BY <3>2, <3>3
  <2> QED
    BY <2>2, <2>3 DEF StatsMatchProcessed
<1> QED
  BY <1>1, <1>2, TransactionStep DEF Elsewhere, Begins, RollsBack, Rollback, LockRow

-----------------------------------------------------------------------------
(* Offsets *)

\* What a step leaves of a settled message.
LEMMA SettledStays ==
    ASSUME TypeOK, Next, NEW i \in Nat, Settled(i)
    PROVE  Settled(i)'
<1>1. i \in dropped => i \in dropped'
  BY DEF Next, Step, Publish, Poll, Insert, LockRow, Apply, CommitOffset, Assign, DatabaseFails,
         Crash, Restart
<1>2. processed \subseteq processed'
  BY DEF Next, Step, Publish, Poll, Insert, LockRow, Apply, CommitOffset, Assign, DatabaseFails,
         Crash, Restart, Rollback, database
<1>3. ASSUME i \in DOMAIN topic PROVE i \in DOMAIN topic' /\ topic'[i] = topic[i]
  <2>1. ASSUME NEW m \in Match, Publish(m) PROVE i \in DOMAIN topic' /\ topic'[i] = topic[i]
    <3>1. i \in 1 .. Len(topic) /\ topic' \in Seq(Match) /\ Len(topic') = Len(topic) + 1
      BY <1>3, <2>1, LenProperties, AppendKeeps DEF TypeOK, Publish
    <3> QED
      BY <2>1, <3>1, AppendKeeps, LenProperties DEF TypeOK, Publish
  <2>2. CASE UNCHANGED topic
    BY <1>3, <2>2
  <2> QED
    BY <2>1, <2>2 DEF Next, Step, Poll, Insert, LockRow, Apply, CommitOffset, Assign,
         DatabaseFails, Crash, Restart, group
<1> QED
  BY <1>1, <1>2, <1>3 DEF Settled

\* A message is settled when its consumer goes on to commit it.
LEMMA SettledAtCommit ==
    ASSUME TypeOK, HasMessage, Next, NEW c \in Consumer, pc[c] \in Working, pc'[c] = "commit"
    PROVE  Settled(position[c])'
<1> USE DEF Working, TypeOK, Goes
<1>1. position[c] \in DOMAIN topic /\ position[c] \in 1 .. Len(topic)
  BY CurrentIsMatch, LenProperties
<1>2. position'[c] = position[c] /\ topic' = topic
  <2>1. \A d \in Consumer : ~Poll(d) \/ d # c
    BY DEF Poll
  <2> QED
    BY <2>1 DEF Next, Step, Publish, Insert, LockRow, Apply, CommitOffset, Assign, DatabaseFails,
         Crash, Restart, group, Poll
<1>3. Current(c) \in processed' \/ position[c] \in dropped'
  BY DEF Next, Step, Publish, Poll, Insert, LockRow, Apply, CommitOffset, Assign, DatabaseFails,
         Crash, Restart, group, database, Retry, GivesUp
<1> QED
  BY <1>1, <1>2, <1>3 DEF Settled, Current

\* Every step keeps what the owner has left behind settled.
LEMMA DeliveriesStep ==
    ASSUME TypeOK, HasMessage, Deliveries, CommittedIsApplied, Next
    PROVE  Deliveries'
<1> DEFINE Before(c) == \A i \in Nat : 1 <= i /\ i < position'[c] => Settled(i)'
           Last(c) == pc'[c] \in {"poll", "commit"} /\ position'[c] # 0 => Settled(position[c])'
<1> SUFFICES ASSUME NEW c \in Consumer, owner' = c
             PROVE  Before(c) /\ Last(c)
  BY DEF Deliveries
<1> USE DEF TypeOK, Goes
<1>1. CASE Assign(c)
  <2>1. position'[c] = committed /\ committed \in Nat
    BY <1>1, LenProperties DEF Assign
  <2>2. \A i \in 1 .. committed : Settled(i)'
    BY <2>1, SettledStays DEF CommittedIsApplied
  <2>3. Before(c)
    BY <2>1, <2>2
  <2>4. position'[c] # 0 => Settled(committed)'
    <3>1. CASE committed = 0
      BY <2>1, <3>1
    <3>2. CASE committed # 0
      <4>1. committed \in 1 .. committed
        BY <2>1, <3>2
      <4>2. Settled(committed)
        BY <4>1 DEF CommittedIsApplied
      <4>3. UNCHANGED <<processed, dropped, topic, committed>>
        BY <1>1 DEF Assign, database
      <4> QED
        BY <4>2, <4>3 DEF Settled
    <3> QED
      BY <3>1, <3>2
  <2> QED
    BY <2>3, <2>4, <1>1, <2>1 DEF Assign, Settled
<1>2. CASE owner = c /\ Poll(c)
  <2>1. position'[c] = position[c] + 1 /\ position[c] \in Nat /\ pc[c] = "poll" /\ pc'[c] = "insert"
    BY <1>2, LenProperties DEF Poll
  <2>2. ASSUME NEW i \in Nat, 1 <= i, i < position'[c] PROVE Settled(i)'
    <3>1. CASE i < position[c]
      BY <1>2, <2>2, <3>1, SettledStays DEF Deliveries
    <3>2. CASE i = position[c]
      BY <1>2, <2>1, <2>2, <3>2, SettledStays DEF Deliveries
    <3> QED
      BY <2>1, <2>2, <3>1, <3>2
  <2> QED
    BY <2>1, <2>2
<1>3. CASE owner = c /\ position'[c] = position[c]
  <2>1. Before(c)
    BY <1>3, SettledStays DEF Deliveries
  <2>2. ASSUME pc'[c] \in {"poll", "commit"}, position'[c] # 0 PROVE Settled(position[c])'
    <3>1. CASE pc[c] \in {"poll", "commit"}
      <4>1. position[c] \in Nat /\ Settled(position[c])
        BY <1>3, <2>2, <3>1, LenProperties DEF Deliveries
      <4>2. ASSUME NEW i \in Nat, i = position[c], Settled(i) PROVE Settled(position[c])'
        <5>1. Settled(i)'
          BY <4>2, SettledStays
        <5> QED
          BY <1>3, <4>2, <5>1 DEF Settled
      <4> QED
        BY <4>1, <4>2
    <3>2. CASE pc[c] \in Working
      <4>1. pc'[c] = "commit"
        BY <2>2, <3>2 DEF Working, Next, Step, Publish, Poll, Insert, LockRow, Apply, CommitOffset,
             Assign, DatabaseFails, Crash, Restart, Retry
      <4> QED
        BY <3>2, <4>1, SettledAtCommit
    <3>3. CASE pc[c] = "stopped"
      BY <2>2, <3>3 DEF Next, Step, Publish, Poll, Insert, LockRow, Apply, CommitOffset,
             Assign, DatabaseFails, Crash, Restart, Retry
    <3>4. CASE pc[c] = "down"
      BY <1>3, <2>2, <3>4, NoneAssumption DEF Next, Step, Publish, Poll, Insert, LockRow, Apply,
             CommitOffset, Assign, DatabaseFails, Crash, Restart, Retry
    <3> QED
      BY <3>1, <3>2, <3>3, <3>4 DEF PC, Working
  <2> QED
    BY <2>1, <2>2
<1>4. Assign(c) \/ (owner = c /\ Poll(c)) \/ (owner = c /\ position'[c] = position[c])
  <2>1. CASE owner = owner' /\ UNCHANGED position
    BY <2>1
  <2>2. ASSUME NEW d \in Consumer, Poll(d)
        PROVE  (owner = c /\ Poll(c)) \/ (owner = c /\ position'[c] = position[c])
    BY <2>2 DEF Poll, group
  <2>3. ASSUME NEW d \in Consumer, Assign(d) PROVE Assign(c)
    BY <2>3 DEF Assign
  <2>4. ASSUME NEW d \in Consumer, Restart(d) PROVE owner = c /\ position'[c] = position[c]
    BY <2>4, NoneAssumption DEF Restart
  <2> QED
    BY <2>1, <2>2, <2>3, <2>4 DEF Next, Step, Publish, Insert, LockRow, Apply, CommitOffset,
         DatabaseFails, Crash, group
<1> QED
  BY <1>1, <1>2, <1>3, <1>4

\* Every step commits only what is settled.
LEMMA CommittedStep ==
    ASSUME TypeOK, HasMessage, Deliveries, CommittedIsApplied, Next
    PROVE  CommittedIsApplied'
<1> USE DEF TypeOK, Goes
<1>1. CASE committed' = committed
  <2>1. \A i \in 1 .. committed : i \in Nat /\ Settled(i)'
    BY SettledStays DEF CommittedIsApplied
  <2> QED
    BY <1>1, <2>1 DEF CommittedIsApplied
<1>2. ASSUME NEW c \in Consumer, owner = c, pc[c] = "commit", committed' = position[c]
      PROVE  CommittedIsApplied'
  <2>1. position[c] \in Nat /\ position[c] # 0
    BY <1>2, LenProperties DEF HasMessage
  <2>2. ASSUME NEW i \in 1 .. position[c] PROVE Settled(i)'
    <3>1. i \in Nat /\ (i < position[c] \/ i = position[c])
      BY <2>1
    <3>2. Settled(i)
      BY <1>2, <2>1, <3>1 DEF Deliveries
    <3> QED
      BY <3>1, <3>2, SettledStays
  <2> QED
    BY <1>2, <2>2 DEF CommittedIsApplied
<1> QED
  BY <1>1, <1>2 DEF Next, Step, Publish, Poll, Insert, LockRow, Apply, CommitOffset, Assign,
       DatabaseFails, Crash, Restart, group

-----------------------------------------------------------------------------
(* The theorems *)

LEMMA StutterInv == IInv /\ UNCHANGED vars => IInv'
  BY DEF IInv, vars, TypeOK, HasMessage, Transactions, InsertHeld, OneInsert, ReadIsFresh,
         StatsMatchProcessed, Deliveries, CommittedIsApplied, Settled, Current, Rows

LEMMA NextInv == IInv /\ [Next]_vars => IInv'
<1> SUFFICES ASSUME IInv, Next PROVE IInv'
  BY StutterInv
<1> USE DEF IInv
<1>1. TypeOK'
  BY TypeParts, LogOKStep, RestOKStep
<1>2. HasMessage' /\ Transactions'
  BY HasMessageStep, InsertHeldStep, OneInsertStep, ReadIsFreshStep DEF Transactions
<1>3. IsFiniteSet(processed') /\ StatsMatchProcessed'
  BY StatsStep
<1>4. Deliveries' /\ CommittedIsApplied'
  BY DeliveriesStep, CommittedStep
<1> QED
  BY <1>1, <1>2, <1>3, <1>4

LEMMA Invariance == Spec => []IInv
  BY InitInv, NextInv, PTL DEF Spec

(***************************************************************************)
(* The variables keep their types: no offset passes the end of the log, no *)
(* consumer counts more than MaxAttempts failures at a message.            *)
(***************************************************************************)
THEOREM TypeCorrect == Spec => []TypeOK
  BY Invariance, PTL DEF IInv

(***************************************************************************)
(* Players' statistics count each processed match of theirs exactly once,  *)
(* however many consumers apply results at the same time, crash, retry and *)
(* see a result again (apply_match: the insert that conflicts, the rows    *)
(* locked before they are read).                                           *)
(***************************************************************************)
THEOREM StatsCorrect == Spec => []StatsMatchProcessed
  BY Invariance, PTL DEF IInv

(***************************************************************************)
(* Every message before a committed offset was applied or given up after   *)
(* MaxAttempts, through rebalances, crashes and results committed without   *)
(* an answer (consume_lifecycle commits after process_event).              *)
(***************************************************************************)
THEOREM CommittedCorrect == Spec => []CommittedIsApplied
  BY Invariance, PTL DEF IInv
=============================================================================
