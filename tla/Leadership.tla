----------------------------- MODULE Leadership -----------------------------
(***************************************************************************)
(* What leader election promises to the rest of the game room, without     *)
(* leases, threads or etcd calls.  One key has at most one holder; a       *)
(* replica that obtains it may come to believe that it leads; the replica  *)
(* is told "elected" after it starts to believe and "lost" after it        *)
(* stops, strictly in turn; and a belief that has become false does not    *)
(* last.  LeaderElection.tla implements this; RoomLifecycle.tla, the event *)
(* loop that reacts to the two callbacks, assumes it.                      *)
(***************************************************************************)
CONSTANTS Replica, \* the replicas of one room
          None     \* no replica

VARIABLES holder,   \* who holds the leader key, or None
          isLeader, \* LeaderElection.is_leader of each replica
          told      \* the last callback each replica's thread dispatched

leadershipVars == <<holder, isLeader, told>>

Callback == {"none", "elected", "lost"}

TypeOK == /\ holder \in Replica \cup {None}
          /\ isLeader \in [Replica -> BOOLEAN]
          /\ told \in [Replica -> Callback]

Init == /\ holder = None
        /\ isLeader = [r \in Replica |-> FALSE]
        /\ told = [r \in Replica |-> "none"]

-----------------------------------------------------------------------------
(***************************************************************************)
(* A free key is taken, by a replica that has announced the end of its     *)
(* last leadership.  If the response to its request is lost, it holds the  *)
(* key without believing.                                                  *)
(***************************************************************************)
Acquire(r) == /\ holder = None
              /\ ~isLeader[r] /\ told[r] # "elected"
              /\ holder' = r
              /\ isLeader' \in {isLeader, [isLeader EXCEPT ![r] = TRUE]}
              /\ UNCHANGED told

\* The key is gone: its lease ended, or it was deleted.
Release == /\ holder # None
           /\ holder' = None
           /\ UNCHANGED <<isLeader, told>>

TellElected(r) == /\ isLeader[r]
                  /\ told[r] # "elected"
                  /\ told' = [told EXCEPT ![r] = "elected"]
                  /\ UNCHANGED <<holder, isLeader>>

\* A replica that has been told it leads stops believing it.
Resign(r) == /\ isLeader[r]
             /\ told[r] = "elected"
             /\ isLeader' = [isLeader EXCEPT ![r] = FALSE]
             /\ UNCHANGED <<holder, told>>

TellLost(r) == /\ ~isLeader[r]
               /\ told[r] = "elected"
               /\ told' = [told EXCEPT ![r] = "lost"]
               /\ UNCHANGED <<holder, isLeader>>

\* The process ends, and with it what it believed and was told.
Quit(r) == /\ isLeader' = [isLeader EXCEPT ![r] = FALSE]
           /\ told' = [told EXCEPT ![r] = "none"]
           /\ UNCHANGED holder

Next == \/ Release
        \/ \E r \in Replica : \/ Acquire(r) \/ TellElected(r) \/ Resign(r)
                              \/ TellLost(r) \/ Quit(r)

(***************************************************************************)
(* A belief and its end are announced, a false belief is given up, and a   *)
(* key whose holder does not believe it leads comes free again.            *)
(***************************************************************************)
Fairness ==
    /\ \A r \in Replica : /\ WF_leadershipVars(TellElected(r))
                          /\ WF_leadershipVars(holder # r /\ Resign(r))
                          /\ WF_leadershipVars(TellLost(r))
                          /\ WF_leadershipVars(holder = r /\ ~isLeader[r] /\ Release)

Spec == Init /\ [][Next]_leadershipVars /\ Fairness
=============================================================================
