--------------------------- MODULE LeaderElection ---------------------------
(***************************************************************************)
(* The election thread of every replica of one room                        *)
(* (services/game-room/app/leader_election.py) against etcd.  Each call to *)
(* etcd is one step; what the thread does between two calls belongs to the *)
(* step of the first.  A call may fail, before or after etcd applied it; a *)
(* lease that is being refreshed may still run out (a pause longer than    *)
(* the TTL); a process may crash, or be told to step down, and start again *)
(* with the same identity.  These disturbances share one budget,           *)
(* MaxFaults.  Leases run out without it when nobody refreshes them.       *)
(***************************************************************************)
EXTENDS Naturals

CONSTANTS Replica,  \* INSTANCE_ID of each replica of the room
          Lease,    \* lease handles
          None,     \* no replica, no lease
          MaxFaults \* bound on the disturbances of a behaviour

ASSUME NoneAssumption == None \notin Replica /\ None \notin Lease
ASSUME BoundAssumption == MaxFaults \in Nat

VARIABLES
    \* etcd
    live,      \* the leases etcd has granted and not ended
    leader,    \* /match/<id>/leader: value and attached lease
    address,   \* /match/<id>/leader-address: whose address, attached lease
    listed,    \* /rooms/available/<id> exists
    \* each replica's election thread
    pc, lease, isLeader, wasLeader, stop, told,
    faults     \* disturbances so far

etcd == <<live, leader, address, listed>>
thread == <<pc, lease, isLeader, wasLeader, stop, told>>
vars == <<live, leader, address, listed, pc, lease, isLeader, wasLeader, stop,
          told, faults>>

Entry(r, l) == [owner |-> r, lease |-> l]
Absent == Entry(None, None)
Present == [owner : Replica, lease : Lease]

(***************************************************************************)
(* Where a thread is: "campaign" and "serve" are the heads of the two      *)
(* loops, the others name the call about to be made.                       *)
(***************************************************************************)
Campaigning == {"campaign", "grant", "txn"}
Leading == {"publish", "serve", "refresh"}
Resigning == {"resign1", "resign2"}
Cleaning == {"clean1", "clean2", "clean3", "clean4"}
PC == {"down", "await"} \cup Campaigning \cup Leading \cup Resigning \cup Cleaning

\* Where the thread refreshes its lease, or has just obtained it.
Keeping == {"txn"} \cup Leading

EtcdOK == /\ live \subseteq Lease
          /\ leader \in Present \cup {Absent}
          /\ address \in Present \cup {Absent}
          /\ listed \in BOOLEAN

ThreadOK == /\ pc \in [Replica -> PC]
            /\ lease \in [Replica -> Lease \cup {None}]
            /\ isLeader \in [Replica -> BOOLEAN]
            /\ wasLeader \in [Replica -> BOOLEAN]
            /\ stop \in [Replica -> BOOLEAN]
            /\ told \in [Replica -> {"none", "elected", "lost"}]

TypeOK == EtcdOK /\ ThreadOK /\ faults \in 0 .. MaxFaults

Init == /\ live = {}
        /\ leader = Absent
        /\ address = Absent
        /\ listed = FALSE
        /\ pc = [r \in Replica |-> "down"]
        /\ lease = [r \in Replica |-> None]
        /\ isLeader = [r \in Replica |-> FALSE]
        /\ wasLeader = [r \in Replica |-> FALSE]
        /\ stop = [r \in Replica |-> FALSE]
        /\ told = [r \in Replica |-> "none"]
        /\ faults = 0

-----------------------------------------------------------------------------
(* etcd *)

Fault == faults < MaxFaults /\ faults' = faults + 1
NoFault == UNCHANGED faults

\* What is left of a key when lease l ends.
Without(entry, l) == IF entry.lease = l THEN Absent ELSE entry

\* Lease l ends, and every key attached to it goes in the same instant.
EndLease(l) == /\ live' = live \ {l}
               /\ leader' = Without(leader, l)
               /\ address' = Without(address, l)

Unanswered == UNCHANGED <<live, leader, address>>

KeptAlive(l) == \E r \in Replica : lease[r] = l /\ pc[r] \in Keeping

Expire(l) == /\ l \in live
             /\ ~KeptAlive(l)
             /\ EndLease(l)
             /\ UNCHANGED <<listed, thread>> /\ NoFault

\* A refreshed lease runs out all the same: its owner was stopped for too long.
Overrun(l) == /\ l \in live
              /\ KeptAlive(l)
              /\ EndLease(l)
              /\ UNCHANGED <<listed, thread>> /\ Fault

\* Mutant: the handle is dropped and the lease left to run out.
MutantDropHandle(r) == /\ lease' = [lease EXCEPT ![r] = None]
                       /\ Unanswered /\ NoFault

(***************************************************************************)
(* _revoke_lease: drops the handle whatever happens.  The call may fail,   *)
(* with the lease ended or not.                                            *)
(***************************************************************************)
RevokeLease(r) ==
    /\ lease' = [lease EXCEPT ![r] = None]
    /\ \/ lease[r] \in live /\ EndLease(lease[r]) /\ NoFault
       \/ lease[r] \in live /\ Unanswered /\ Fault
       \/ lease[r] \notin live /\ Unanswered /\ NoFault

\* _delete_if_owned, on the entry of one key: the value is compared first.
DeleteIfOwned(entry, r) == IF entry.owner = r THEN Absent ELSE entry

-----------------------------------------------------------------------------
(* The thread's life: startup, the loop of run(), step_down, a crash *)

\* startup registers the room (a failure is logged only) and starts the thread.
Start(r) == /\ pc[r] = "down"
            /\ pc' = [pc EXCEPT ![r] = "campaign"]
            /\ \/ listed' = TRUE /\ NoFault
               \/ UNCHANGED listed /\ Fault
            /\ UNCHANGED <<live, leader, address, lease, isLeader, wasLeader, stop, told>>

StepDown(r) == /\ pc[r] # "down" /\ ~stop[r]
               /\ stop' = [stop EXCEPT ![r] = TRUE]
               /\ UNCHANGED <<etcd, pc, lease, isLeader, wasLeader, told>>
               /\ Fault

\* What the end of the process leaves of the thread.
Forget(r) == /\ pc' = [pc EXCEPT ![r] = "down"]
             /\ lease' = [lease EXCEPT ![r] = None]
             /\ isLeader' = [isLeader EXCEPT ![r] = FALSE]
             /\ wasLeader' = [wasLeader EXCEPT ![r] = FALSE]
             /\ stop' = [stop EXCEPT ![r] = FALSE]
             /\ told' = [told EXCEPT ![r] = "none"]

Crash(r) == /\ pc[r] # "down"
            /\ Forget(r)
            /\ UNCHANGED etcd
            /\ Fault

-----------------------------------------------------------------------------
(* _campaign *)

\* The loop head, with the revocation of the lease of the last attempt.
Campaign(r) == /\ pc[r] = "campaign" /\ ~stop[r]
               /\ pc' = [pc EXCEPT ![r] = "grant"]
               /\ RevokeLease(r)
               /\ UNCHANGED <<listed, isLeader, wasLeader, stop, told>>

\* etcd never reuses the id of a lease; here one that nothing refers to is as new.
Fresh(l) == l \notin live /\ \A r \in Replica : lease[r] # l

Grant(r) == /\ pc[r] = "grant"
            /\ \/ \E l \in Lease : /\ Fresh(l)
                                   /\ live' = live \cup {l}
                                   /\ lease' = [lease EXCEPT ![r] = l]
                                   /\ pc' = [pc EXCEPT ![r] = "txn"]
                                   /\ NoFault
               \/ /\ pc' = [pc EXCEPT ![r] = "await"]
                  /\ UNCHANGED <<live, lease>>
                  /\ Fault
            /\ UNCHANGED <<leader, address, listed, isLeader, wasLeader, stop, told>>

\* Mutant: a put in place of the transaction, which replaces another's key.
MutantNoCompare(r) == lease[r] \in live

\* The transaction: create the key under the lease if its version is 0.
CanCreate(r) == leader = Absent /\ lease[r] \in live

Win(r) == /\ pc[r] = "txn"
          /\ CanCreate(r)
          /\ leader' = Entry(r, lease[r])
          /\ isLeader' = [isLeader EXCEPT ![r] = TRUE]
          /\ pc' = [pc EXCEPT ![r] = "publish"]
          /\ UNCHANGED <<live, address, listed, lease, wasLeader, stop, told>>
          /\ NoFault

\* The key is held.  The handle stays, to be revoked by the next campaign.
Lose(r) == /\ pc[r] = "txn"
           /\ leader # Absent
           /\ pc' = [pc EXCEPT ![r] = "await"]
           /\ UNCHANGED <<etcd, lease, isLeader, wasLeader, stop, told>>
           /\ NoFault

(***************************************************************************)
(* The transaction raises: its lease has run out, or the call failed and   *)
(* was applied or not.  The handle is dropped without a revocation.        *)
(***************************************************************************)
CampaignFails(r) ==
    /\ pc[r] = "txn"
    /\ \/ leader = Absent /\ lease[r] \notin live /\ UNCHANGED leader /\ NoFault
       \/ UNCHANGED leader /\ Fault
       \/ CanCreate(r) /\ leader' = Entry(r, lease[r]) /\ Fault
    /\ lease' = [lease EXCEPT ![r] = None]
    /\ pc' = [pc EXCEPT ![r] = "await"]
    /\ UNCHANGED <<live, address, listed, isLeader, wasLeader, stop, told>>

\* Mutant: the put does not name the lease, so a lapsed leader's is accepted.
MutantPutUnleased(r) == address' = Entry(r, lease[r]) /\ NoFault

\* Mutant: the address is put under no lease at all.
MutantPutForever(r) == address' = Entry(r, None) /\ NoFault

\* The address is put under the lease; a failure is logged and forgotten.
PutAddress(r) ==
    \/ lease[r] \in live /\ address' = Entry(r, lease[r]) /\ NoFault
    \/ lease[r] \notin live /\ UNCHANGED address /\ NoFault
    \/ UNCHANGED address /\ Fault

\* Mutant: on_elected is dispatched inside the try block, after the put.
MutantDispatchIfPublished(r) ==
    /\ pc[r] = "publish"
    /\ PutAddress(r)
    /\ told' = IF address'.owner = r THEN [told EXCEPT ![r] = "elected"] ELSE told
    /\ pc' = [pc EXCEPT ![r] = "serve"]
    /\ UNCHANGED <<live, leader, listed, lease, isLeader, wasLeader, stop>>

Publish(r) == /\ pc[r] = "publish"
              /\ PutAddress(r)
              /\ told' = [told EXCEPT ![r] = "elected"]
              /\ pc' = [pc EXCEPT ![r] = "serve"]
              /\ UNCHANGED <<live, leader, listed, lease, isLeader, wasLeader, stop>>

-----------------------------------------------------------------------------
(* _serve_as_leader and _wait_for_key_release *)

StillHeld(r) == /\ pc[r] = "serve" /\ ~stop[r]
                /\ leader.owner = r
                /\ pc' = [pc EXCEPT ![r] = "refresh"]
                /\ UNCHANGED <<etcd, lease, isLeader, wasLeader, stop, told>>
                /\ NoFault

\* refresh() of a lease that has ended does not raise: the next get finds out.
Refresh(r) == /\ pc[r] = "refresh"
              /\ pc' = [pc EXCEPT ![r] = "serve"]
              /\ UNCHANGED <<etcd, lease, isLeader, wasLeader, stop, told>>
              /\ NoFault

\* _lose_leadership, first part: the flag, before any call to etcd.
LoseLeadership(r) ==
    /\ \/ pc[r] = "serve" /\ ~stop[r] /\ leader.owner # r /\ NoFault
       \/ pc[r] = "serve" /\ ~stop[r] /\ Fault
       \/ pc[r] = "refresh" /\ Fault
    /\ isLeader' = [isLeader EXCEPT ![r] = FALSE]
    /\ pc' = [pc EXCEPT ![r] = "resign1"]
    /\ UNCHANGED <<etcd, lease, wasLeader, stop, told>>

ResignLease(r) == /\ pc[r] = "resign1"
                  /\ RevokeLease(r)
                  /\ pc' = [pc EXCEPT ![r] = "resign2"]
                  /\ UNCHANGED <<listed, isLeader, wasLeader, stop, told>>

ResignAddress(r) == /\ pc[r] = "resign2"
                    /\ \/ address' = DeleteIfOwned(address, r) /\ NoFault
                       \/ UNCHANGED address /\ Fault
                    /\ told' = [told EXCEPT ![r] = "lost"]
                    /\ pc' = [pc EXCEPT ![r] = "campaign"]
                    /\ UNCHANGED <<live, leader, listed, lease, isLeader, wasLeader, stop>>

\* Mutant: only a replica that holds no lease handle campaigns again.
MutantNoHandle(r) == /\ pc[r] = "await" /\ ~stop[r]
                     /\ leader = Absent /\ lease[r] = None
                     /\ pc' = [pc EXCEPT ![r] = "campaign"]
                     /\ UNCHANGED <<etcd, lease, isLeader, wasLeader, stop, told>>
                     /\ NoFault

\* The poll finds the key free.  A poll that finds it held, or fails, is no step.
KeyReleased(r) == /\ pc[r] = "await" /\ ~stop[r]
                  /\ leader = Absent
                  /\ pc' = [pc EXCEPT ![r] = "campaign"]
                  /\ UNCHANGED <<etcd, lease, isLeader, wasLeader, stop, told>>
                  /\ NoFault

-----------------------------------------------------------------------------
(* run()'s exit and _cleanup *)

LeaveLoop(r) == /\ pc[r] \in {"campaign", "serve", "await"} /\ stop[r]
                /\ wasLeader' = [wasLeader EXCEPT ![r] = isLeader[r]]
                /\ isLeader' = [isLeader EXCEPT ![r] = FALSE]
                /\ pc' = [pc EXCEPT ![r] = "clean1"]
                /\ UNCHANGED <<etcd, lease, stop, told>>
                /\ NoFault

CleanLease(r) == /\ pc[r] = "clean1"
                 /\ RevokeLease(r)
                 /\ pc' = [pc EXCEPT ![r] = "clean2"]
                 /\ UNCHANGED <<listed, isLeader, wasLeader, stop, told>>

CleanKey(r) == /\ pc[r] = "clean2"
               /\ \/ leader' = DeleteIfOwned(leader, r) /\ NoFault
                  \/ UNCHANGED leader /\ Fault
               /\ pc' = [pc EXCEPT ![r] = "clean3"]
               /\ UNCHANGED <<live, address, listed, lease, isLeader, wasLeader, stop, told>>

CleanAddress(r) == /\ pc[r] = "clean3"
                   /\ \/ address' = DeleteIfOwned(address, r) /\ NoFault
                      \/ UNCHANGED address /\ Fault
                   /\ pc' = [pc EXCEPT ![r] = "clean4"]
                   /\ UNCHANGED <<live, leader, listed, lease, isLeader, wasLeader, stop, told>>

\* A leader takes its room out of the pool, and the process ends.
CleanRoom(r) == /\ pc[r] = "clean4"
                /\ \/ listed' = (listed /\ ~wasLeader[r]) /\ NoFault
                   \/ wasLeader[r] /\ UNCHANGED listed /\ Fault
                /\ Forget(r)
                /\ UNCHANGED <<live, leader, address>>

-----------------------------------------------------------------------------
Cleanup(r) == CleanLease(r) \/ CleanKey(r) \/ CleanAddress(r) \/ CleanRoom(r)

Thread(r) == \/ Campaign(r) \/ Grant(r) \/ Win(r) \/ Lose(r) \/ CampaignFails(r)
             \/ Publish(r) \/ StillHeld(r) \/ Refresh(r) \/ LoseLeadership(r)
             \/ ResignLease(r) \/ ResignAddress(r) \/ KeyReleased(r)
             \/ LeaveLoop(r) \/ Cleanup(r)

Next == \/ \E r \in Replica : Start(r) \/ StepDown(r) \/ Crash(r) \/ Thread(r)
        \/ \E l \in Lease : Expire(l) \/ Overrun(l)

(***************************************************************************)
(* A running thread keeps running, and etcd ends a lease nobody refreshes. *)
(* Nothing obliges a process to start, and no fault has to happen.         *)
(***************************************************************************)
Fairness == /\ \A r \in Replica : WF_vars(Thread(r))
            /\ \A l \in Lease : WF_vars(Expire(l))

Spec == Init /\ [][Next]_vars /\ Fairness
-----------------------------------------------------------------------------
(* Properties *)

(***************************************************************************)
(* A replica that believes it leads, and whose lease etcd still honours,   *)
(* is the one named by the leader key, under that lease.  So two replicas  *)
(* believe at once only when the lease of one of them has ended behind its *)
(* back (_campaign's transaction, _revoke_lease, _delete_if_owned).        *)
(***************************************************************************)
LeaseSafety ==
    \A r \in Replica :
        isLeader[r] /\ lease[r] \in live => leader = Entry(r, lease[r])

(***************************************************************************)
(* While a leader's lease lasts, the address it put under that lease       *)
(* stays: no replica that resumes a campaign, resigns or cleans up         *)
(* replaces or removes it (_campaign's put under the lease,                *)
(* _delete_if_owned's comparison).                                         *)
(***************************************************************************)
KeepsAddress(r) ==
    isLeader[r] /\ isLeader'[r] /\ address = Entry(r, lease[r]) /\ lease[r] \in live'
        => address' = address
AddressStaysPublished == [][\A r \in Replica : KeepsAddress(r)]_vars

(***************************************************************************)
(* A process that steps down cleans up after itself unless two more things *)
(* go wrong: _cleanup revokes the lease and also deletes both keys, so one *)
(* failed call leaves neither behind.                                      *)
(***************************************************************************)
OneFailureLeavesNoKey ==
    \A r \in Replica :
        pc[r] = "clean4" /\ r \in {leader.owner, address.owner} => faults >= 3

(***************************************************************************)
(* The election threads give the game room what Leadership.tla promises.   *)
(***************************************************************************)
Contract == INSTANCE Leadership WITH holder <- leader.owner
ImplementsLeadership == Contract!Spec

\* The replica's thread takes part in elections and has not been told to stop.
Contends(r) == pc[r] \notin {"down"} \cup Cleaning /\ ~stop[r]

(***************************************************************************)
(* A room whose leader key is free gets a new holder as long as a replica  *)
(* contends for it (the failover path: _wait_for_key_release, _campaign).  *)
(***************************************************************************)
Takeover == (leader = Absent /\ \E r \in Replica : Contends(r))
                ~> (leader # Absent \/ ~ \E r \in Replica : Contends(r))
=============================================================================
