---------------------------- MODULE Leaderboard ----------------------------
(***************************************************************************)
(* The leaderboard's consumers of match.lifecycle                          *)
(* (services/leaderboard/app/main.py) and the transaction that applies a   *)
(* result (services/leaderboard/app/db.py), statement by statement, on     *)
(* PostgreSQL at READ COMMITTED.  A match here is what processed_matches   *)
(* knows: a pair (match_id, started_at).  total_matches stands for every   *)
(* column that is read, computed and written back (Elo, wins, losses,      *)
(* average).  One partition is modelled, the others behave alike; messages *)
(* that are not match.end are committed and skipped, and left out.         *)
(***************************************************************************)
EXTENDS Naturals, Sequences, FiniteSets

CONSTANTS Consumer, None,  \* leaderboard processes, and nobody
          Player,          \* player ids, which are compared by <
          Registered,      \* the players that have a row
          Match, Roster,   \* matches played and who played in each
          MaxAttempts,     \* MAX_UPDATE_ATTEMPTS
          MaxTopic, MaxFaults \* bounds

ASSUME PlayerAssumption == Player \subseteq Nat /\ Registered \subseteq Player
ASSUME RosterAssumption == Roster \in [Match -> SUBSET Player]
ASSUME NoneAssumption == None \notin Consumer
ASSUME BoundAssumption == MaxAttempts \in Nat \ {0} /\ MaxTopic \in Nat /\ MaxFaults \in Nat

VARIABLES
    topic,      \* match.lifecycle: the matches whose match.end was published
    committed,  \* the offset the group has committed: the messages before it
    owner,      \* who the partition is assigned to
    processed,  \* processed_matches
    total,      \* players.total_matches
    inserting,  \* who has an uncommitted insert of a match
    rowLock,    \* who has locked a player's row
    pc, position, \* where each consumer is, and how many messages it has read
    attempts,   \* failed attempts at the current message
    read,       \* total_matches as a consumer read them under its locks
    dropped,    \* offsets given up after MaxAttempts
    faults

database == <<processed, total, inserting, rowLock>>
group == <<topic, committed, owner>>
vars == <<topic, committed, owner, processed, total, inserting, rowLock,
          pc, position, attempts, read, dropped, faults>>

\* "stopped": the thread has ended on an exception of commit().
PC == {"poll", "insert", "lock", "commit", "stopped", "down"}

TypeOK == /\ topic \in Seq(Match)
          /\ committed \in 0 .. Len(topic)
          /\ owner \in Consumer \cup {None}
          /\ processed \subseteq Match
          /\ total \in [Player -> Nat]
          /\ inserting \in [Match -> Consumer \cup {None}]
          /\ rowLock \in [Player -> Consumer \cup {None}]
          /\ pc \in [Consumer -> PC]
          /\ position \in [Consumer -> 0 .. Len(topic)]
          /\ attempts \in [Consumer -> 0 .. MaxAttempts]
          /\ read \in [Consumer -> [Player -> Nat]]
          /\ dropped \subseteq 1 .. Len(topic)
          /\ faults \in 0 .. MaxFaults

Init == /\ topic = <<>> /\ committed = 0 /\ owner = None
        /\ processed = {}
        /\ total = [p \in Player |-> 0]
        /\ inserting = [m \in Match |-> None]
        /\ rowLock = [p \in Player |-> None]
        /\ pc = [c \in Consumer |-> "poll"]
        /\ position = [c \in Consumer |-> 0]
        /\ attempts = [c \in Consumer |-> 0]
        /\ read = [c \in Consumer |-> [p \in Player |-> 0]]
        /\ dropped = {}
        /\ faults = 0

-----------------------------------------------------------------------------
Goes(c, from, to) == pc[c] = from /\ pc' = [pc EXCEPT ![c] = to]
Fault == faults < MaxFaults /\ faults' = faults + 1
NoFault == UNCHANGED faults

Current(c) == topic[position[c]]

\* The rows a match updates: unknown players are skipped.
Rows(m) == Roster[m] \cap Registered

\* The rows c still has to lock, and the transaction that ends without a trace.
Unlocked(c) == {p \in Rows(Current(c)) : rowLock[p] # c}
Released(table, c) == [x \in DOMAIN table |-> IF table[x] = c THEN None ELSE table[x]]
Rollback(c) == /\ inserting' = Released(inserting, c)
               /\ rowLock' = Released(rowLock, c)
               /\ UNCHANGED <<processed, total>>

-----------------------------------------------------------------------------
(* Kafka *)

\* A result is published; a retry of the producer can publish it again.
Publish(m) == /\ Len(topic) < MaxTopic
              /\ topic' = Append(topic, m)
              /\ UNCHANGED <<committed, owner, database, pc, position, attempts, read, dropped>>
              /\ NoFault

Alive(c) == pc[c] \notin {"stopped", "down"}

\* A rebalance: by itself when the owner is gone, as a fault while it is alive.
Assign(c) == /\ Alive(c) /\ owner # c
             /\ pc[c] = "poll"
             /\ IF owner = None \/ ~Alive(owner) THEN NoFault ELSE Fault
             /\ owner' = c
             /\ position' = [position EXCEPT ![c] = committed]
             /\ UNCHANGED <<topic, committed, database, pc, attempts, read, dropped>>

-----------------------------------------------------------------------------
(* consume_lifecycle and process_event *)

\* Mutant: the offset is committed when the message is read.
MutantCommitFirst(c) == /\ owner = c /\ position[c] < Len(topic)
                        /\ Goes(c, "poll", "insert")
                        /\ position' = [position EXCEPT ![c] = @ + 1]
                        /\ committed' = position'[c]
                        /\ attempts' = [attempts EXCEPT ![c] = 0]
                        /\ UNCHANGED <<topic, owner, database, read, dropped>>
                        /\ NoFault

Poll(c) == /\ owner = c /\ position[c] < Len(topic)
           /\ Goes(c, "poll", "insert")
           /\ position' = [position EXCEPT ![c] = @ + 1]
           /\ attempts' = [attempts EXCEPT ![c] = 0]
           /\ UNCHANGED <<group, database, read, dropped>>
           /\ NoFault

\* Mutant: a duplicate is not noticed.
MutantNoConflict(c) ==
    /\ pc[c] = "insert" /\ inserting[Current(c)] = None
    /\ Goes(c, "insert", "lock")
    /\ inserting' = [inserting EXCEPT ![Current(c)] = c]
    /\ UNCHANGED <<group, processed, total, rowLock, position, attempts, read, dropped>>
    /\ NoFault

\* INSERT ... ON CONFLICT DO NOTHING waits for another transaction's insert.
Insert(c) ==
    /\ pc[c] = "insert" /\ inserting[Current(c)] = None
    /\ \/ /\ Current(c) \in processed
          /\ Goes(c, "insert", "commit")
          /\ UNCHANGED inserting
       \/ /\ Current(c) \notin processed
          /\ Goes(c, "insert", "lock")
          /\ inserting' = [inserting EXCEPT ![Current(c)] = c]
    /\ UNCHANGED <<group, processed, total, rowLock, position, attempts, read, dropped>>
    /\ NoFault

\* Mutant: the rows are locked in any order.
MutantAnyOrder(c, p) == p \in Unlocked(c) /\ rowLock[p] = None

\* ORDER BY player_id: the rows are locked in that order.
IsNextRow(c, p) == p \in Unlocked(c) /\ rowLock[p] = None /\ \A q \in Unlocked(c) : p <= q

\* SELECT ... FOR UPDATE, one row at a time: the row read is the one locked.
LockRow(c, p) == /\ pc[c] = "lock"
                 /\ IsNextRow(c, p)
                 /\ rowLock' = [rowLock EXCEPT ![p] = c]
                 /\ read' = [read EXCEPT ![c][p] = total[p]]
                 /\ UNCHANGED <<group, processed, total, inserting, pc, position, attempts, dropped>>
                 /\ NoFault

\* Mutant: one attempt too many.
MutantOneMore(c) == attempts[c] = MaxAttempts

\* An attempt failed: sleep and try again, or give the message up.
GivesUp(c) == attempts[c] + 1 = MaxAttempts
Retry(c) == /\ attempts' = [attempts EXCEPT ![c] = @ + 1]
            /\ pc' = [pc EXCEPT ![c] = IF GivesUp(c) THEN "commit" ELSE "insert"]
            /\ Fault

\* The updates and the COMMIT, whose answer may not arrive.
Apply(c) == /\ pc[c] = "lock" /\ Unlocked(c) = {}
            /\ processed' = processed \cup {Current(c)}
            /\ total' = [p \in Player |-> IF p \in Rows(Current(c)) THEN read[c][p] + 1
                                          ELSE total[p]]
            /\ inserting' = Released(inserting, c)
            /\ rowLock' = Released(rowLock, c)
            /\ \/ /\ Goes(c, "lock", "commit")
                  /\ UNCHANGED attempts
                  /\ NoFault
               \/ Retry(c)
            /\ UNCHANGED <<group, position, read, dropped>>

\* A statement fails: the transaction is rolled back.
DatabaseFails(c) ==
    /\ pc[c] \in {"insert", "lock"}
    /\ Rollback(c)
    /\ Retry(c)
    /\ dropped' = IF GivesUp(c) THEN dropped \cup {position[c]} ELSE dropped
    /\ UNCHANGED <<group, position, read>>

\* A commit that fails, as it does after a rebalance, ends the thread.
CommitOffset(c) ==
    /\ \/ /\ owner = c
          /\ Goes(c, "commit", "poll")
          /\ committed' = position[c]
          /\ NoFault
       \/ /\ IF owner = c THEN Fault ELSE NoFault
          /\ Goes(c, "commit", "stopped")
          /\ UNCHANGED committed
    /\ UNCHANGED <<topic, owner, database, position, attempts, read, dropped>>

-----------------------------------------------------------------------------
Crash(c) == /\ pc[c] # "down"
            /\ pc' = [pc EXCEPT ![c] = "down"]
            /\ Rollback(c)
            /\ Fault
            /\ UNCHANGED <<group, position, attempts, read, dropped>>

Restart(c) == /\ Goes(c, "down", "poll")
              /\ owner' = IF owner = c THEN None ELSE owner
              /\ UNCHANGED <<topic, committed, database, position, attempts, read, dropped>>
              /\ NoFault

Step(c) == \/ Poll(c) \/ Insert(c) \/ (\E p \in Player : LockRow(c, p)) \/ Apply(c)
           \/ CommitOffset(c)

Next == \/ \E m \in Match : Publish(m)
        \/ \E c \in Consumer : Step(c) \/ Assign(c) \/ DatabaseFails(c) \/ Crash(c) \/ Restart(c)

(***************************************************************************)
(* Consumers run, the broker assigns the partition of a consumer that is   *)
(* gone, and a process that died is started again.  PostgreSQL grants a    *)
(* lock that keeps coming free.                                            *)
(***************************************************************************)
Fairness == \A c \in Consumer : /\ SF_vars(Step(c))
                                /\ WF_vars(Assign(c) /\ NoFault)
                                /\ WF_vars(Restart(c))

Spec == Init /\ [][Next]_vars /\ Fairness
-----------------------------------------------------------------------------
(* Properties *)

(***************************************************************************)
(* A player's statistics count each processed match of theirs once, and no *)
(* other: not one applied twice by two consumers, not one lost under       *)
(* another's write, not one half applied by a consumer that died           *)
(* (apply_match).                                                          *)
(***************************************************************************)
StatsMatchProcessed ==
    \A p \in Registered : total[p] = Cardinality({m \in processed : p \in Roster[m]})

(***************************************************************************)
(* A committed offset leaves nothing behind: every message before it was   *)
(* applied, or given up after MaxAttempts (consume_lifecycle: "Commit only *)
(* after the update is durable").                                          *)
(***************************************************************************)
Settled(i) == i \in dropped \/ (i \in DOMAIN topic /\ topic[i] \in processed)
CommittedIsApplied == \A i \in 1 .. committed : Settled(i)

(***************************************************************************)
(* A published result counts in the end, or is given up, as long as one    *)
(* consumer thread is left: transactions do not wait for each other in a   *)
(* circle, and a crash or a rebalance does not skip a message.             *)
(***************************************************************************)
EveryResultCounts ==
    \A i \in 1 .. MaxTopic :
        i \in DOMAIN topic ~> \/ Settled(i)
                              \/ \A c \in Consumer : pc[c] = "stopped"
=============================================================================
