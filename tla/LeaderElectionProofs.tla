------------------------ MODULE LeaderElectionProofs ------------------------
(***************************************************************************)
(* Theorems about LeaderElection for any set of replicas, any set of       *)
(* leases and any number of faults.  The inductive invariant IInv says     *)
(* where in the thread a replica believes, that two threads never share a  *)
(* lease handle, and which announcement goes with which place; LeaseSafety *)
(* is one of its conjuncts.                                                *)
(* The last section is about Watcher, which reads what leaders publish.    *)
(***************************************************************************)
EXTENDS LeaderElection, Watcher, TLAPS

\* A lease handle belongs to one thread.
DistinctHandles == \A r, s \in Replica : r # s /\ lease[r] # None => lease[r] # lease[s]

\* A replica believes exactly in the part of the thread that serves as leader.
BeliefWhereLeading == \A r \in Replica : isLeader[r] <=> pc[r] \in Leading

\* Which callback was dispatched last, by place in the thread.
ToldElectedAt == {"serve", "refresh"} \cup Resigning
ToldWhere == \A r \in Replica :
                /\ pc[r] \in ToldElectedAt => told[r] = "elected"
                /\ pc[r] \in Campaigning \cup {"await", "publish", "down"}
                      => told[r] # "elected"

IInv == TypeOK /\ DistinctHandles /\ BeliefWhereLeading /\ ToldWhere /\ LeaseSafety

-----------------------------------------------------------------------------
(* Lemmas about the helpers *)

\* A key entry with one lease removed is unchanged or absent.
LEMMA WithoutIsEntry ==
    ASSUME NEW e \in Present \cup {Absent}, NEW l
    PROVE  Without(e, l) \in {e, Absent}
  BY DEF Without

LEMMA DeleteIsEntry ==
    ASSUME NEW e \in Present \cup {Absent}, NEW r
    PROVE  DeleteIfOwned(e, r) \in {e, Absent}
  BY DEF DeleteIfOwned

-----------------------------------------------------------------------------
LEMMA InitInv == Init => IInv
<1> SUFFICES ASSUME Init PROVE IInv
  OBVIOUS
<1> USE DEF Init
<1>1. EtcdOK
  BY DEF EtcdOK
<1>2. ThreadOK
  BY DEF ThreadOK, PC
<1>3. faults \in 0 .. MaxFaults
  BY BoundAssumption
<1>4. DistinctHandles
  BY DEF DistinctHandles
<1>5. BeliefWhereLeading
  BY DEF BeliefWhereLeading, Leading
<1>6. ToldWhere
  BY DEF ToldWhere, ToldElectedAt, Resigning
<1>7. LeaseSafety
  BY DEF LeaseSafety
<1> QED
  BY <1>1, <1>2, <1>3, <1>4, <1>5, <1>6, <1>7 DEF IInv, TypeOK

-----------------------------------------------------------------------------
\* Every step keeps the types of what etcd stores.
LEMMA EtcdOKStep ==
    ASSUME EtcdOK, ThreadOK, Next
    PROVE  EtcdOK'
<1> USE DEF EtcdOK, ThreadOK, etcd, thread, RevokeLease, EndLease, Unanswered, Forget
<1>1. ASSUME NEW r \in Replica, Start(r) PROVE EtcdOK'
  BY <1>1, WithoutIsEntry, DeleteIsEntry DEF Start, Present, Entry, CanCreate, PutAddress
<1>2. ASSUME NEW r \in Replica, StepDown(r) PROVE EtcdOK'
  BY <1>2, WithoutIsEntry, DeleteIsEntry DEF StepDown, Present, Entry, CanCreate, PutAddress
<1>3. ASSUME NEW r \in Replica, Crash(r) PROVE EtcdOK'
  BY <1>3, WithoutIsEntry, DeleteIsEntry DEF Crash, Present, Entry, CanCreate, PutAddress
<1>4. ASSUME NEW r \in Replica, Campaign(r) PROVE EtcdOK'
  BY <1>4, WithoutIsEntry, DeleteIsEntry DEF Campaign, Present, Entry, CanCreate, PutAddress
<1>5. ASSUME NEW r \in Replica, Grant(r) PROVE EtcdOK'
  BY <1>5, WithoutIsEntry, DeleteIsEntry DEF Grant, Present, Entry, CanCreate, PutAddress
<1>6. ASSUME NEW r \in Replica, Win(r) PROVE EtcdOK'
  BY <1>6, WithoutIsEntry, DeleteIsEntry DEF Win, Present, Entry, CanCreate, PutAddress
<1>7. ASSUME NEW r \in Replica, Lose(r) PROVE EtcdOK'
  BY <1>7, WithoutIsEntry, DeleteIsEntry DEF Lose, Present, Entry, CanCreate, PutAddress
<1>8. ASSUME NEW r \in Replica, CampaignFails(r) PROVE EtcdOK'
  BY <1>8, WithoutIsEntry, DeleteIsEntry DEF CampaignFails, Present, Entry, CanCreate, PutAddress
<1>9. ASSUME NEW r \in Replica, Publish(r) PROVE EtcdOK'
  BY <1>9, WithoutIsEntry, DeleteIsEntry DEF Publish, Present, Entry, CanCreate, PutAddress
<1>10. ASSUME NEW r \in Replica, StillHeld(r) PROVE EtcdOK'
  BY <1>10, WithoutIsEntry, DeleteIsEntry DEF StillHeld, Present, Entry, CanCreate, PutAddress
<1>11. ASSUME NEW r \in Replica, Refresh(r) PROVE EtcdOK'
  BY <1>11, WithoutIsEntry, DeleteIsEntry DEF Refresh, Present, Entry, CanCreate, PutAddress
<1>12. ASSUME NEW r \in Replica, LoseLeadership(r) PROVE EtcdOK'
  BY <1>12, WithoutIsEntry, DeleteIsEntry DEF LoseLeadership, Present, Entry, CanCreate, PutAddress
<1>13. ASSUME NEW r \in Replica, ResignLease(r) PROVE EtcdOK'
  BY <1>13, WithoutIsEntry, DeleteIsEntry DEF ResignLease, Present, Entry, CanCreate, PutAddress
<1>14. ASSUME NEW r \in Replica, ResignAddress(r) PROVE EtcdOK'
  BY <1>14, WithoutIsEntry, DeleteIsEntry DEF ResignAddress, Present, Entry, CanCreate, PutAddress
<1>15. ASSUME NEW r \in Replica, KeyReleased(r) PROVE EtcdOK'
  BY <1>15, WithoutIsEntry, DeleteIsEntry DEF KeyReleased, Present, Entry, CanCreate, PutAddress
<1>16. ASSUME NEW r \in Replica, LeaveLoop(r) PROVE EtcdOK'
  BY <1>16, WithoutIsEntry, DeleteIsEntry DEF LeaveLoop, Present, Entry, CanCreate, PutAddress
<1>17. ASSUME NEW r \in Replica, CleanLease(r) PROVE EtcdOK'
  BY <1>17, WithoutIsEntry, DeleteIsEntry DEF CleanLease, Present, Entry, CanCreate, PutAddress
<1>18. ASSUME NEW r \in Replica, CleanKey(r) PROVE EtcdOK'
  BY <1>18, WithoutIsEntry, DeleteIsEntry DEF CleanKey, Present, Entry, CanCreate, PutAddress
<1>19. ASSUME NEW r \in Replica, CleanAddress(r) PROVE EtcdOK'
  BY <1>19, WithoutIsEntry, DeleteIsEntry DEF CleanAddress, Present, Entry, CanCreate, PutAddress
<1>20. ASSUME NEW r \in Replica, CleanRoom(r) PROVE EtcdOK'
  BY <1>20, WithoutIsEntry, DeleteIsEntry DEF CleanRoom, Present, Entry, CanCreate, PutAddress
<1>21. ASSUME NEW l \in Lease, Expire(l) PROVE EtcdOK'
  BY <1>21, WithoutIsEntry, DeleteIsEntry DEF Expire, Present, Entry, CanCreate, PutAddress
<1>22. ASSUME NEW l \in Lease, Overrun(l) PROVE EtcdOK'
  BY <1>22, WithoutIsEntry, DeleteIsEntry DEF Overrun, Present, Entry, CanCreate, PutAddress
<1> QED
  BY <1>1, <1>2, <1>3, <1>4, <1>5, <1>6, <1>7, <1>8, <1>9, <1>10, <1>11, <1>12, <1>13, <1>14, <1>15, <1>16, <1>17, <1>18, <1>19, <1>20, <1>21, <1>22 DEF Next, Thread, Cleanup

\* Every step keeps the types of the threads' state.
LEMMA ThreadOKStep ==
    ASSUME ThreadOK, Next
    PROVE  ThreadOK'
<1> USE DEF ThreadOK, etcd, thread, RevokeLease, Forget
<1>1. ASSUME NEW r \in Replica, Start(r) PROVE ThreadOK'
  BY <1>1 DEF Start, PC, Campaigning, Leading, Resigning, Cleaning
<1>2. ASSUME NEW r \in Replica, StepDown(r) PROVE ThreadOK'
  BY <1>2 DEF StepDown, PC, Campaigning, Leading, Resigning, Cleaning
<1>3. ASSUME NEW r \in Replica, Crash(r) PROVE ThreadOK'
  BY <1>3 DEF Crash, PC, Campaigning, Leading, Resigning, Cleaning
<1>4. ASSUME NEW r \in Replica, Campaign(r) PROVE ThreadOK'
  BY <1>4 DEF Campaign, PC, Campaigning, Leading, Resigning, Cleaning
<1>5. ASSUME NEW r \in Replica, Grant(r) PROVE ThreadOK'
  BY <1>5 DEF Grant, PC, Campaigning, Leading, Resigning, Cleaning
<1>6. ASSUME NEW r \in Replica, Win(r) PROVE ThreadOK'
  BY <1>6 DEF Win, PC, Campaigning, Leading, Resigning, Cleaning
<1>7. ASSUME NEW r \in Replica, Lose(r) PROVE ThreadOK'
  BY <1>7 DEF Lose, PC, Campaigning, Leading, Resigning, Cleaning
<1>8. ASSUME NEW r \in Replica, CampaignFails(r) PROVE ThreadOK'
  BY <1>8 DEF CampaignFails, PC, Campaigning, Leading, Resigning, Cleaning
<1>9. ASSUME NEW r \in Replica, Publish(r) PROVE ThreadOK'
  BY <1>9 DEF Publish, PC, Campaigning, Leading, Resigning, Cleaning
<1>10. ASSUME NEW r \in Replica, StillHeld(r) PROVE ThreadOK'
  BY <1>10 DEF StillHeld, PC, Campaigning, Leading, Resigning, Cleaning
<1>11. ASSUME NEW r \in Replica, Refresh(r) PROVE ThreadOK'
  BY <1>11 DEF Refresh, PC, Campaigning, Leading, Resigning, Cleaning
<1>12. ASSUME NEW r \in Replica, LoseLeadership(r) PROVE ThreadOK'
  BY <1>12 DEF LoseLeadership, PC, Campaigning, Leading, Resigning, Cleaning
<1>13. ASSUME NEW r \in Replica, ResignLease(r) PROVE ThreadOK'
  BY <1>13 DEF ResignLease, PC, Campaigning, Leading, Resigning, Cleaning
<1>14. ASSUME NEW r \in Replica, ResignAddress(r) PROVE ThreadOK'
  BY <1>14 DEF ResignAddress, PC, Campaigning, Leading, Resigning, Cleaning
<1>15. ASSUME NEW r \in Replica, KeyReleased(r) PROVE ThreadOK'
  BY <1>15 DEF KeyReleased, PC, Campaigning, Leading, Resigning, Cleaning
<1>16. ASSUME NEW r \in Replica, LeaveLoop(r) PROVE ThreadOK'
  BY <1>16 DEF LeaveLoop, PC, Campaigning, Leading, Resigning, Cleaning
<1>17. ASSUME NEW r \in Replica, CleanLease(r) PROVE ThreadOK'
  BY <1>17 DEF CleanLease, PC, Campaigning, Leading, Resigning, Cleaning
<1>18. ASSUME NEW r \in Replica, CleanKey(r) PROVE ThreadOK'
  BY <1>18 DEF CleanKey, PC, Campaigning, Leading, Resigning, Cleaning
<1>19. ASSUME NEW r \in Replica, CleanAddress(r) PROVE ThreadOK'
  BY <1>19 DEF CleanAddress, PC, Campaigning, Leading, Resigning, Cleaning
<1>20. ASSUME NEW r \in Replica, CleanRoom(r) PROVE ThreadOK'
  BY <1>20 DEF CleanRoom, PC, Campaigning, Leading, Resigning, Cleaning
<1>21. ASSUME NEW l \in Lease, Expire(l) PROVE ThreadOK'
  BY <1>21 DEF Expire, PC, Campaigning, Leading, Resigning, Cleaning
<1>22. ASSUME NEW l \in Lease, Overrun(l) PROVE ThreadOK'
  BY <1>22 DEF Overrun, PC, Campaigning, Leading, Resigning, Cleaning
<1> QED
  BY <1>1, <1>2, <1>3, <1>4, <1>5, <1>6, <1>7, <1>8, <1>9, <1>10, <1>11, <1>12, <1>13, <1>14, <1>15, <1>16, <1>17, <1>18, <1>19, <1>20, <1>21, <1>22 DEF Next, Thread, Cleanup

\* The budget of disturbances is never overdrawn.
LEMMA FaultsStep ==
    ASSUME faults \in 0 .. MaxFaults, Next
    PROVE  (faults \in 0 .. MaxFaults)'
<1> USE BoundAssumption DEF Fault, NoFault, RevokeLease, PutAddress
<1>1. ASSUME NEW r \in Replica, Start(r) PROVE (faults \in 0 .. MaxFaults)'
  BY <1>1 DEF Start
<1>2. ASSUME NEW r \in Replica, StepDown(r) PROVE (faults \in 0 .. MaxFaults)'
  BY <1>2 DEF StepDown
<1>3. ASSUME NEW r \in Replica, Crash(r) PROVE (faults \in 0 .. MaxFaults)'
  BY <1>3 DEF Crash
<1>4. ASSUME NEW r \in Replica, Campaign(r) PROVE (faults \in 0 .. MaxFaults)'
  BY <1>4 DEF Campaign
<1>5. ASSUME NEW r \in Replica, Grant(r) PROVE (faults \in 0 .. MaxFaults)'
  BY <1>5 DEF Grant
<1>6. ASSUME NEW r \in Replica, Win(r) PROVE (faults \in 0 .. MaxFaults)'
  BY <1>6 DEF Win
<1>7. ASSUME NEW r \in Replica, Lose(r) PROVE (faults \in 0 .. MaxFaults)'
  BY <1>7 DEF Lose
<1>8. ASSUME NEW r \in Replica, CampaignFails(r) PROVE (faults \in 0 .. MaxFaults)'
  BY <1>8 DEF CampaignFails
<1>9. ASSUME NEW r \in Replica, Publish(r) PROVE (faults \in 0 .. MaxFaults)'
  BY <1>9 DEF Publish
<1>10. ASSUME NEW r \in Replica, StillHeld(r) PROVE (faults \in 0 .. MaxFaults)'
  BY <1>10 DEF StillHeld
<1>11. ASSUME NEW r \in Replica, Refresh(r) PROVE (faults \in 0 .. MaxFaults)'
  BY <1>11 DEF Refresh
<1>12. ASSUME NEW r \in Replica, LoseLeadership(r) PROVE (faults \in 0 .. MaxFaults)'
  BY <1>12 DEF LoseLeadership
<1>13. ASSUME NEW r \in Replica, ResignLease(r) PROVE (faults \in 0 .. MaxFaults)'
  BY <1>13 DEF ResignLease
<1>14. ASSUME NEW r \in Replica, ResignAddress(r) PROVE (faults \in 0 .. MaxFaults)'
  BY <1>14 DEF ResignAddress
<1>15. ASSUME NEW r \in Replica, KeyReleased(r) PROVE (faults \in 0 .. MaxFaults)'
  BY <1>15 DEF KeyReleased
<1>16. ASSUME NEW r \in Replica, LeaveLoop(r) PROVE (faults \in 0 .. MaxFaults)'
  BY <1>16 DEF LeaveLoop
<1>17. ASSUME NEW r \in Replica, CleanLease(r) PROVE (faults \in 0 .. MaxFaults)'
  BY <1>17 DEF CleanLease
<1>18. ASSUME NEW r \in Replica, CleanKey(r) PROVE (faults \in 0 .. MaxFaults)'
  BY <1>18 DEF CleanKey
<1>19. ASSUME NEW r \in Replica, CleanAddress(r) PROVE (faults \in 0 .. MaxFaults)'
  BY <1>19 DEF CleanAddress
<1>20. ASSUME NEW r \in Replica, CleanRoom(r) PROVE (faults \in 0 .. MaxFaults)'
  BY <1>20 DEF CleanRoom
<1>21. ASSUME NEW l \in Lease, Expire(l) PROVE (faults \in 0 .. MaxFaults)'
  BY <1>21 DEF Expire
<1>22. ASSUME NEW l \in Lease, Overrun(l) PROVE (faults \in 0 .. MaxFaults)'
  BY <1>22 DEF Overrun
<1> QED
  BY <1>1, <1>2, <1>3, <1>4, <1>5, <1>6, <1>7, <1>8, <1>9, <1>10, <1>11, <1>12, <1>13, <1>14, <1>15, <1>16, <1>17, <1>18, <1>19, <1>20, <1>21, <1>22 DEF Next, Thread, Cleanup

\* No step gives two threads one lease handle: Grant is the only one that hands one out.
LEMMA DistinctStep ==
    ASSUME ThreadOK, DistinctHandles, Next
    PROVE  DistinctHandles'
<1> USE DEF ThreadOK, DistinctHandles, etcd, thread, RevokeLease, Forget
<1>1. ASSUME NEW r \in Replica, Start(r) PROVE DistinctHandles'
  BY <1>1 DEF Start, Fresh
<1>2. ASSUME NEW r \in Replica, StepDown(r) PROVE DistinctHandles'
  BY <1>2 DEF StepDown, Fresh
<1>3. ASSUME NEW r \in Replica, Crash(r) PROVE DistinctHandles'
  BY <1>3 DEF Crash, Fresh
<1>4. ASSUME NEW r \in Replica, Campaign(r) PROVE DistinctHandles'
  BY <1>4 DEF Campaign, Fresh
<1>5. ASSUME NEW r \in Replica, Grant(r) PROVE DistinctHandles'
  BY <1>5 DEF Grant, Fresh
<1>6. ASSUME NEW r \in Replica, Win(r) PROVE DistinctHandles'
  BY <1>6 DEF Win, Fresh
<1>7. ASSUME NEW r \in Replica, Lose(r) PROVE DistinctHandles'
  BY <1>7 DEF Lose, Fresh
<1>8. ASSUME NEW r \in Replica, CampaignFails(r) PROVE DistinctHandles'
  BY <1>8 DEF CampaignFails, Fresh
<1>9. ASSUME NEW r \in Replica, Publish(r) PROVE DistinctHandles'
  BY <1>9 DEF Publish, Fresh
<1>10. ASSUME NEW r \in Replica, StillHeld(r) PROVE DistinctHandles'
  BY <1>10 DEF StillHeld, Fresh
<1>11. ASSUME NEW r \in Replica, Refresh(r) PROVE DistinctHandles'
  BY <1>11 DEF Refresh, Fresh
<1>12. ASSUME NEW r \in Replica, LoseLeadership(r) PROVE DistinctHandles'
  BY <1>12 DEF LoseLeadership, Fresh
<1>13. ASSUME NEW r \in Replica, ResignLease(r) PROVE DistinctHandles'
  BY <1>13 DEF ResignLease, Fresh
<1>14. ASSUME NEW r \in Replica, ResignAddress(r) PROVE DistinctHandles'
  BY <1>14 DEF ResignAddress, Fresh
<1>15. ASSUME NEW r \in Replica, KeyReleased(r) PROVE DistinctHandles'
  BY <1>15 DEF KeyReleased, Fresh
<1>16. ASSUME NEW r \in Replica, LeaveLoop(r) PROVE DistinctHandles'
  BY <1>16 DEF LeaveLoop, Fresh
<1>17. ASSUME NEW r \in Replica, CleanLease(r) PROVE DistinctHandles'
  BY <1>17 DEF CleanLease, Fresh
<1>18. ASSUME NEW r \in Replica, CleanKey(r) PROVE DistinctHandles'
  BY <1>18 DEF CleanKey, Fresh
<1>19. ASSUME NEW r \in Replica, CleanAddress(r) PROVE DistinctHandles'
  BY <1>19 DEF CleanAddress, Fresh
<1>20. ASSUME NEW r \in Replica, CleanRoom(r) PROVE DistinctHandles'
  BY <1>20 DEF CleanRoom, Fresh
<1>21. ASSUME NEW l \in Lease, Expire(l) PROVE DistinctHandles'
  BY <1>21 DEF Expire, Fresh
<1>22. ASSUME NEW l \in Lease, Overrun(l) PROVE DistinctHandles'
  BY <1>22 DEF Overrun, Fresh
<1> QED
  BY <1>1, <1>2, <1>3, <1>4, <1>5, <1>6, <1>7, <1>8, <1>9, <1>10, <1>11, <1>12, <1>13, <1>14, <1>15, <1>16, <1>17, <1>18, <1>19, <1>20, <1>21, <1>22 DEF Next, Thread, Cleanup

\* is_leader is set where serving begins and cleared where it ends.
LEMMA BeliefStep ==
    ASSUME ThreadOK, BeliefWhereLeading, Next
    PROVE  BeliefWhereLeading'
<1> USE DEF ThreadOK, BeliefWhereLeading, Leading, etcd, thread, Forget
<1>1. ASSUME NEW r \in Replica, Start(r) PROVE BeliefWhereLeading'
  BY <1>1 DEF Start
<1>2. ASSUME NEW r \in Replica, StepDown(r) PROVE BeliefWhereLeading'
  BY <1>2 DEF StepDown
<1>3. ASSUME NEW r \in Replica, Crash(r) PROVE BeliefWhereLeading'
  BY <1>3 DEF Crash
<1>4. ASSUME NEW r \in Replica, Campaign(r) PROVE BeliefWhereLeading'
  BY <1>4 DEF Campaign
<1>5. ASSUME NEW r \in Replica, Grant(r) PROVE BeliefWhereLeading'
  BY <1>5 DEF Grant
<1>6. ASSUME NEW r \in Replica, Win(r) PROVE BeliefWhereLeading'
  BY <1>6 DEF Win
<1>7. ASSUME NEW r \in Replica, Lose(r) PROVE BeliefWhereLeading'
  BY <1>7 DEF Lose
<1>8. ASSUME NEW r \in Replica, CampaignFails(r) PROVE BeliefWhereLeading'
  BY <1>8 DEF CampaignFails
<1>9. ASSUME NEW r \in Replica, Publish(r) PROVE BeliefWhereLeading'
  BY <1>9 DEF Publish
<1>10. ASSUME NEW r \in Replica, StillHeld(r) PROVE BeliefWhereLeading'
  BY <1>10 DEF StillHeld
<1>11. ASSUME NEW r \in Replica, Refresh(r) PROVE BeliefWhereLeading'
  BY <1>11 DEF Refresh
<1>12. ASSUME NEW r \in Replica, LoseLeadership(r) PROVE BeliefWhereLeading'
  BY <1>12 DEF LoseLeadership
<1>13. ASSUME NEW r \in Replica, ResignLease(r) PROVE BeliefWhereLeading'
  BY <1>13 DEF ResignLease
<1>14. ASSUME NEW r \in Replica, ResignAddress(r) PROVE BeliefWhereLeading'
  BY <1>14 DEF ResignAddress
<1>15. ASSUME NEW r \in Replica, KeyReleased(r) PROVE BeliefWhereLeading'
  BY <1>15 DEF KeyReleased
<1>16. ASSUME NEW r \in Replica, LeaveLoop(r) PROVE BeliefWhereLeading'
  BY <1>16 DEF LeaveLoop
<1>17. ASSUME NEW r \in Replica, CleanLease(r) PROVE BeliefWhereLeading'
  BY <1>17 DEF CleanLease
<1>18. ASSUME NEW r \in Replica, CleanKey(r) PROVE BeliefWhereLeading'
  BY <1>18 DEF CleanKey
<1>19. ASSUME NEW r \in Replica, CleanAddress(r) PROVE BeliefWhereLeading'
  BY <1>19 DEF CleanAddress
<1>20. ASSUME NEW r \in Replica, CleanRoom(r) PROVE BeliefWhereLeading'
  BY <1>20 DEF CleanRoom
<1>21. ASSUME NEW l \in Lease, Expire(l) PROVE BeliefWhereLeading'
  BY <1>21 DEF Expire
<1>22. ASSUME NEW l \in Lease, Overrun(l) PROVE BeliefWhereLeading'
  BY <1>22 DEF Overrun
<1> QED
  BY <1>1, <1>2, <1>3, <1>4, <1>5, <1>6, <1>7, <1>8, <1>9, <1>10, <1>11, <1>12, <1>13, <1>14, <1>15, <1>16, <1>17, <1>18, <1>19, <1>20, <1>21, <1>22 DEF Next, Thread, Cleanup

\* The last announcement goes with the place in the thread.
LEMMA ToldStep ==
    ASSUME ThreadOK, ToldWhere, Next
    PROVE  ToldWhere'
<1> USE DEF ThreadOK, ToldWhere, ToldElectedAt, Resigning, Campaigning, etcd, thread, Forget
<1>1. ASSUME NEW r \in Replica, Start(r) PROVE ToldWhere'
  BY <1>1 DEF Start
<1>2. ASSUME NEW r \in Replica, StepDown(r) PROVE ToldWhere'
  BY <1>2 DEF StepDown
<1>3. ASSUME NEW r \in Replica, Crash(r) PROVE ToldWhere'
  BY <1>3 DEF Crash
<1>4. ASSUME NEW r \in Replica, Campaign(r) PROVE ToldWhere'
  BY <1>4 DEF Campaign
<1>5. ASSUME NEW r \in Replica, Grant(r) PROVE ToldWhere'
  BY <1>5 DEF Grant
<1>6. ASSUME NEW r \in Replica, Win(r) PROVE ToldWhere'
  BY <1>6 DEF Win
<1>7. ASSUME NEW r \in Replica, Lose(r) PROVE ToldWhere'
  BY <1>7 DEF Lose
<1>8. ASSUME NEW r \in Replica, CampaignFails(r) PROVE ToldWhere'
  BY <1>8 DEF CampaignFails
<1>9. ASSUME NEW r \in Replica, Publish(r) PROVE ToldWhere'
  BY <1>9 DEF Publish
<1>10. ASSUME NEW r \in Replica, StillHeld(r) PROVE ToldWhere'
  BY <1>10 DEF StillHeld
<1>11. ASSUME NEW r \in Replica, Refresh(r) PROVE ToldWhere'
  BY <1>11 DEF Refresh
<1>12. ASSUME NEW r \in Replica, LoseLeadership(r) PROVE ToldWhere'
  BY <1>12 DEF LoseLeadership
<1>13. ASSUME NEW r \in Replica, ResignLease(r) PROVE ToldWhere'
  BY <1>13 DEF ResignLease
<1>14. ASSUME NEW r \in Replica, ResignAddress(r) PROVE ToldWhere'
  BY <1>14 DEF ResignAddress
<1>15. ASSUME NEW r \in Replica, KeyReleased(r) PROVE ToldWhere'
  BY <1>15 DEF KeyReleased
<1>16. ASSUME NEW r \in Replica, LeaveLoop(r) PROVE ToldWhere'
  BY <1>16 DEF LeaveLoop
<1>17. ASSUME NEW r \in Replica, CleanLease(r) PROVE ToldWhere'
  BY <1>17 DEF CleanLease
<1>18. ASSUME NEW r \in Replica, CleanKey(r) PROVE ToldWhere'
  BY <1>18 DEF CleanKey
<1>19. ASSUME NEW r \in Replica, CleanAddress(r) PROVE ToldWhere'
  BY <1>19 DEF CleanAddress
<1>20. ASSUME NEW r \in Replica, CleanRoom(r) PROVE ToldWhere'
  BY <1>20 DEF CleanRoom
<1>21. ASSUME NEW l \in Lease, Expire(l) PROVE ToldWhere'
  BY <1>21 DEF Expire
<1>22. ASSUME NEW l \in Lease, Overrun(l) PROVE ToldWhere'
  BY <1>22 DEF Overrun
<1> QED
  BY <1>1, <1>2, <1>3, <1>4, <1>5, <1>6, <1>7, <1>8, <1>9, <1>10, <1>11, <1>12, <1>13, <1>14, <1>15, <1>16, <1>17, <1>18, <1>19, <1>20, <1>21, <1>22 DEF Next, Thread, Cleanup

\* LeaseSafety is preserved: who believes and has a live lease stays named by the key.
LEMMA LeaseSafetyStep ==
    ASSUME IInv, Next
    PROVE  LeaseSafety'
<1> SUFFICES ASSUME NEW q \in Replica, isLeader'[q], lease'[q] \in live'
             PROVE  leader' = Entry(q, lease'[q])
  BY DEF LeaseSafety
<1>0. /\ EtcdOK /\ ThreadOK /\ DistinctHandles /\ BeliefWhereLeading
      /\ isLeader[q] /\ lease[q] \in live => leader = Entry(q, lease[q])
  BY DEF IInv, TypeOK, LeaseSafety
<1> USE <1>0, NoneAssumption DEF EtcdOK, ThreadOK, etcd, thread
<1>1. ASSUME NEW r \in Replica, Start(r) PROVE leader' = Entry(q, lease'[q])
  BY <1>1 DEF Start, BeliefWhereLeading, Leading
<1>2. ASSUME NEW r \in Replica, StepDown(r) PROVE leader' = Entry(q, lease'[q])
  BY <1>2 DEF StepDown, BeliefWhereLeading, Leading
<1>3. ASSUME NEW r \in Replica, Crash(r) PROVE leader' = Entry(q, lease'[q])
  BY <1>3 DEF Crash, BeliefWhereLeading, Leading, Forget
<1>4. ASSUME NEW r \in Replica, Campaign(r) PROVE leader' = Entry(q, lease'[q])
  BY <1>4 DEF Campaign, BeliefWhereLeading, Leading, DistinctHandles, RevokeLease, EndLease, Unanswered, Without, Entry
<1>5. ASSUME NEW r \in Replica, Grant(r) PROVE leader' = Entry(q, lease'[q])
  BY <1>5 DEF Grant, BeliefWhereLeading, Leading, Fresh
<1>6. ASSUME NEW r \in Replica, Win(r) PROVE leader' = Entry(q, lease'[q])
  BY <1>6 DEF Win, BeliefWhereLeading, Leading, CanCreate, Entry, Absent
<1>7. ASSUME NEW r \in Replica, Lose(r) PROVE leader' = Entry(q, lease'[q])
  BY <1>7 DEF Lose, BeliefWhereLeading, Leading
<1>8. ASSUME NEW r \in Replica, CampaignFails(r) PROVE leader' = Entry(q, lease'[q])
  BY <1>8 DEF CampaignFails, BeliefWhereLeading, Leading, CanCreate, Entry, Absent
<1>9. ASSUME NEW r \in Replica, Publish(r) PROVE leader' = Entry(q, lease'[q])
  BY <1>9 DEF Publish, BeliefWhereLeading, Leading
<1>10. ASSUME NEW r \in Replica, StillHeld(r) PROVE leader' = Entry(q, lease'[q])
  BY <1>10 DEF StillHeld, BeliefWhereLeading, Leading
<1>11. ASSUME NEW r \in Replica, Refresh(r) PROVE leader' = Entry(q, lease'[q])
  BY <1>11 DEF Refresh, BeliefWhereLeading, Leading
<1>12. ASSUME NEW r \in Replica, LoseLeadership(r) PROVE leader' = Entry(q, lease'[q])
  BY <1>12 DEF LoseLeadership, BeliefWhereLeading, Leading
<1>13. ASSUME NEW r \in Replica, ResignLease(r) PROVE leader' = Entry(q, lease'[q])
  BY <1>13 DEF ResignLease, BeliefWhereLeading, Leading, DistinctHandles, RevokeLease, EndLease, Unanswered, Without, Entry
<1>14. ASSUME NEW r \in Replica, ResignAddress(r) PROVE leader' = Entry(q, lease'[q])
  BY <1>14 DEF ResignAddress, BeliefWhereLeading, Leading
<1>15. ASSUME NEW r \in Replica, KeyReleased(r) PROVE leader' = Entry(q, lease'[q])
  BY <1>15 DEF KeyReleased, BeliefWhereLeading, Leading
<1>16. ASSUME NEW r \in Replica, LeaveLoop(r) PROVE leader' = Entry(q, lease'[q])
  BY <1>16 DEF LeaveLoop, BeliefWhereLeading, Leading
<1>17. ASSUME NEW r \in Replica, CleanLease(r) PROVE leader' = Entry(q, lease'[q])
  BY <1>17 DEF CleanLease, BeliefWhereLeading, Leading, DistinctHandles, RevokeLease, EndLease, Unanswered, Without, Entry
<1>18. ASSUME NEW r \in Replica, CleanKey(r) PROVE leader' = Entry(q, lease'[q])
  BY <1>18 DEF CleanKey, BeliefWhereLeading, Leading, DeleteIfOwned, Entry
<1>19. ASSUME NEW r \in Replica, CleanAddress(r) PROVE leader' = Entry(q, lease'[q])
  BY <1>19 DEF CleanAddress, BeliefWhereLeading, Leading
<1>20. ASSUME NEW r \in Replica, CleanRoom(r) PROVE leader' = Entry(q, lease'[q])
  BY <1>20 DEF CleanRoom, BeliefWhereLeading, Leading, Forget
<1>21. ASSUME NEW l \in Lease, Expire(l) PROVE leader' = Entry(q, lease'[q])
  BY <1>21 DEF Expire, EndLease, Without, Entry
<1>22. ASSUME NEW l \in Lease, Overrun(l) PROVE leader' = Entry(q, lease'[q])
  BY <1>22 DEF Overrun, EndLease, Without, Entry
<1> QED
  BY <1>1, <1>2, <1>3, <1>4, <1>5, <1>6, <1>7, <1>8, <1>9, <1>10, <1>11, <1>12, <1>13, <1>14, <1>15, <1>16, <1>17, <1>18, <1>19, <1>20, <1>21, <1>22 DEF Next, Thread, Cleanup

LEMMA Inductive == IInv /\ [Next]_vars => IInv'
<1>1. ASSUME IInv, Next PROVE IInv'
  <2> USE <1>1 DEF IInv, TypeOK
  <2>1. EtcdOK'
    BY EtcdOKStep
  <2>2. ThreadOK'
    BY ThreadOKStep
  <2>3. (faults \in 0 .. MaxFaults)'
    BY FaultsStep
  <2>4. DistinctHandles'
    BY DistinctStep
  <2>5. BeliefWhereLeading'
    BY BeliefStep
  <2>6. ToldWhere'
    BY ToldStep
  <2>7. LeaseSafety'
    BY LeaseSafetyStep
  <2> QED
    BY <2>1, <2>2, <2>3, <2>4, <2>5, <2>6, <2>7
<1>2. ASSUME IInv, UNCHANGED vars PROVE IInv'
  BY <1>2 DEF IInv, TypeOK, EtcdOK, ThreadOK, DistinctHandles, BeliefWhereLeading,
       ToldWhere, LeaseSafety, vars
<1> QED
  BY <1>1, <1>2

-----------------------------------------------------------------------------
(* Theorems *)

\* The inductive invariant holds in every behaviour of the election.
THEOREM Invariant == Spec => []IInv
  BY InitInv, Inductive, PTL DEF Spec

\* The state keeps its types, whatever fails (TypeOK).
THEOREM TypeCorrect == Spec => []TypeOK
<1>1. IInv => TypeOK
  BY DEF IInv
<1> QED
  BY <1>1, Invariant, PTL

(***************************************************************************)
(* A replica that believes it leads under a lease etcd honours is the one  *)
(* the leader key names (LeaseSafety): failed calls, crashes and restarts  *)
(* in any number and order cannot give the room two leaders with leases.   *)
(***************************************************************************)
THEOREM LeaseSafe == Spec => []LeaseSafety
<1>1. IInv => LeaseSafety
  BY DEF IInv
<1> QED
  BY <1>1, Invariant, PTL

\* The corollary in plain words: two believers do not both have a live lease.
OneLiveLeader == \A r, s \in Replica :
    /\ isLeader[r] /\ lease[r] \in live
    /\ isLeader[s] /\ lease[s] \in live
    => r = s

\* At most one replica leads under a live lease (_campaign, _lose_leadership, _cleanup).
THEOREM NoTwoLiveLeaders == Spec => []OneLiveLeader
<1>1. LeaseSafety => OneLiveLeader
  BY DEF LeaseSafety, OneLiveLeader, Entry
<1> QED
  BY <1>1, LeaseSafe, PTL

-----------------------------------------------------------------------------
(* The published address *)

LEMMA AddressStep ==
    ASSUME IInv, Next, NEW q \in Replica
    PROVE  KeepsAddress(q)
<1> SUFFICES ASSUME isLeader[q], isLeader'[q], address = Entry(q, lease[q]),
                    lease[q] \in live'
             PROVE  address' = address
  BY DEF KeepsAddress
<1>0. /\ EtcdOK /\ ThreadOK /\ DistinctHandles /\ BeliefWhereLeading
      /\ \A r \in Replica : isLeader[r] /\ lease[r] \in live => leader = Entry(r, lease[r])
  BY DEF IInv, TypeOK, LeaseSafety
<1> USE <1>0, NoneAssumption DEF EtcdOK, ThreadOK, etcd, thread
<1>1. ASSUME NEW r \in Replica, Start(r) PROVE address' = address
  BY <1>1 DEF Start
<1>2. ASSUME NEW r \in Replica, StepDown(r) PROVE address' = address
  BY <1>2 DEF StepDown
<1>3. ASSUME NEW r \in Replica, Crash(r) PROVE address' = address
  BY <1>3 DEF Crash
<1>4. ASSUME NEW r \in Replica, Campaign(r) PROVE address' = address
  BY <1>4 DEF Campaign, Leading, DistinctHandles, RevokeLease, EndLease, Unanswered, Without, Entry
<1>5. ASSUME NEW r \in Replica, Grant(r) PROVE address' = address
  BY <1>5 DEF Grant
<1>6. ASSUME NEW r \in Replica, Win(r) PROVE address' = address
  BY <1>6 DEF Win
<1>7. ASSUME NEW r \in Replica, Lose(r) PROVE address' = address
  BY <1>7 DEF Lose
<1>8. ASSUME NEW r \in Replica, CampaignFails(r) PROVE address' = address
  BY <1>8 DEF CampaignFails
<1>9. ASSUME NEW r \in Replica, Publish(r) PROVE address' = address
  BY <1>9 DEF Publish, PutAddress, Leading, Entry, BeliefWhereLeading
<1>10. ASSUME NEW r \in Replica, StillHeld(r) PROVE address' = address
  BY <1>10 DEF StillHeld
<1>11. ASSUME NEW r \in Replica, Refresh(r) PROVE address' = address
  BY <1>11 DEF Refresh
<1>12. ASSUME NEW r \in Replica, LoseLeadership(r) PROVE address' = address
  BY <1>12 DEF LoseLeadership
<1>13. ASSUME NEW r \in Replica, ResignLease(r) PROVE address' = address
  BY <1>13 DEF ResignLease, Leading, DistinctHandles, RevokeLease, EndLease, Unanswered, Without, Entry
<1>14. ASSUME NEW r \in Replica, ResignAddress(r) PROVE address' = address
  BY <1>14 DEF ResignAddress, DeleteIfOwned, Entry, Leading, BeliefWhereLeading
<1>15. ASSUME NEW r \in Replica, KeyReleased(r) PROVE address' = address
  BY <1>15 DEF KeyReleased
<1>16. ASSUME NEW r \in Replica, LeaveLoop(r) PROVE address' = address
  BY <1>16 DEF LeaveLoop
<1>17. ASSUME NEW r \in Replica, CleanLease(r) PROVE address' = address
  BY <1>17 DEF CleanLease, Leading, DistinctHandles, RevokeLease, EndLease, Unanswered, Without, Entry
<1>18. ASSUME NEW r \in Replica, CleanKey(r) PROVE address' = address
  BY <1>18 DEF CleanKey
<1>19. ASSUME NEW r \in Replica, CleanAddress(r) PROVE address' = address
  BY <1>19 DEF CleanAddress, DeleteIfOwned, Entry, Leading, BeliefWhereLeading
<1>20. ASSUME NEW r \in Replica, CleanRoom(r) PROVE address' = address
  BY <1>20 DEF CleanRoom
<1>21. ASSUME NEW l \in Lease, Expire(l) PROVE address' = address
  BY <1>21 DEF Expire, EndLease, Without, Entry
<1>22. ASSUME NEW l \in Lease, Overrun(l) PROVE address' = address
  BY <1>22 DEF Overrun, EndLease, Without, Entry
<1> QED
  BY <1>1, <1>2, <1>3, <1>4, <1>5, <1>6, <1>7, <1>8, <1>9, <1>10, <1>11, <1>12, <1>13, <1>14, <1>15, <1>16, <1>17, <1>18, <1>19, <1>20, <1>21, <1>22 DEF Next, Thread, Cleanup

(***************************************************************************)
(* The address a leader put under its lease stays while both last          *)
(* (AddressStaysPublished).                                                *)
(***************************************************************************)
THEOREM AddressKept == Spec => AddressStaysPublished
<1>1. ASSUME IInv, [Next]_vars PROVE [\A r \in Replica : KeepsAddress(r)]_vars
  BY <1>1, AddressStep
<1> QED
  BY <1>1, Invariant, PTL DEF Spec, AddressStaysPublished

-----------------------------------------------------------------------------
(* LeaderElection implements Leadership, step by step *)

LEMMA InitImplements == Init => Contract!Init
  BY DEF Init, Contract!Init, Absent, Entry

LEMMA StepImplements ==
    ASSUME IInv, Next
    PROVE  [Contract!Next]_Contract!leadershipVars
<1> DEFINE Goal == [Contract!Next]_Contract!leadershipVars
           Same == leader.owner' = leader.owner /\ UNCHANGED <<isLeader, told>>
<1>a. Same => Goal
  BY DEF Contract!leadershipVars
<1>b. ASSUME leader' \in {leader, Absent}, UNCHANGED <<isLeader, told>>
      PROVE  Goal
  BY <1>b DEF IInv, TypeOK, EtcdOK, Present, Absent, Entry,
       Contract!Next, Contract!Release, Contract!leadershipVars
<1> HIDE DEF Goal
<1>0. /\ EtcdOK /\ ThreadOK /\ BeliefWhereLeading /\ ToldWhere
  BY DEF IInv, TypeOK
<1>1. ASSUME NEW r \in Replica, Start(r) PROVE Goal
  BY <1>1, <1>a DEF Start, etcd, thread
<1>2. ASSUME NEW r \in Replica, StepDown(r) PROVE Goal
  BY <1>2, <1>a DEF StepDown, etcd, thread
<1>3. ASSUME NEW r \in Replica, Crash(r) PROVE Goal
  BY <1>3, <1>0 DEF Goal, Crash, ThreadOK, BeliefWhereLeading, ToldWhere, ToldElectedAt, Leading, Resigning, Campaigning,
       Contract!Next, Contract!Quit, Contract!leadershipVars, Forget, etcd
<1>4. ASSUME NEW r \in Replica, Campaign(r) PROVE Goal
  BY <1>4, <1>0, <1>b, WithoutIsEntry, DeleteIsEntry DEF Campaign, EtcdOK, RevokeLease, EndLease, Unanswered
<1>5. ASSUME NEW r \in Replica, Grant(r) PROVE Goal
  BY <1>5, <1>a DEF Grant, etcd, thread
<1>6. ASSUME NEW r \in Replica, Win(r) PROVE Goal
  BY <1>6, <1>0 DEF Goal, Win, ThreadOK, BeliefWhereLeading, ToldWhere, ToldElectedAt, Leading, Resigning, Campaigning,
       Contract!Next, Contract!Acquire, Contract!leadershipVars, CanCreate, Entry, Absent
<1>7. ASSUME NEW r \in Replica, Lose(r) PROVE Goal
  BY <1>7, <1>a DEF Lose, etcd, thread
<1>8. ASSUME NEW r \in Replica, CampaignFails(r) PROVE Goal
  BY <1>8, <1>0 DEF Goal, CampaignFails, ThreadOK, BeliefWhereLeading, ToldWhere, ToldElectedAt, Leading, Resigning, Campaigning,
       Contract!Next, Contract!Acquire, Contract!leadershipVars, CanCreate, Entry, Absent
<1>9. ASSUME NEW r \in Replica, Publish(r) PROVE Goal
  BY <1>9, <1>0 DEF Goal, Publish, ThreadOK, BeliefWhereLeading, ToldWhere, ToldElectedAt, Leading, Resigning, Campaigning,
       Contract!Next, Contract!TellElected, Contract!leadershipVars
<1>10. ASSUME NEW r \in Replica, StillHeld(r) PROVE Goal
  BY <1>10, <1>a DEF StillHeld, etcd, thread
<1>11. ASSUME NEW r \in Replica, Refresh(r) PROVE Goal
  BY <1>11, <1>a DEF Refresh, etcd, thread
<1>12. ASSUME NEW r \in Replica, LoseLeadership(r) PROVE Goal
  BY <1>12, <1>0 DEF Goal, LoseLeadership, ThreadOK, BeliefWhereLeading, ToldWhere, ToldElectedAt, Leading, Resigning, Campaigning,
       Contract!Next, Contract!Resign, Contract!leadershipVars, etcd
<1>13. ASSUME NEW r \in Replica, ResignLease(r) PROVE Goal
  BY <1>13, <1>0, <1>b, WithoutIsEntry, DeleteIsEntry DEF ResignLease, EtcdOK, RevokeLease, EndLease, Unanswered
<1>14. ASSUME NEW r \in Replica, ResignAddress(r) PROVE Goal
  BY <1>14, <1>0 DEF Goal, ResignAddress, ThreadOK, BeliefWhereLeading, ToldWhere, ToldElectedAt, Leading, Resigning, Campaigning,
       Contract!Next, Contract!TellLost, Contract!leadershipVars
<1>15. ASSUME NEW r \in Replica, KeyReleased(r) PROVE Goal
  BY <1>15, <1>a DEF KeyReleased, etcd, thread
<1>16. ASSUME NEW r \in Replica, LeaveLoop(r) PROVE Goal
  BY <1>16, <1>0 DEF Goal, LeaveLoop, ThreadOK, BeliefWhereLeading, ToldWhere, ToldElectedAt, Leading, Resigning, Campaigning,
       Contract!Next, Contract!Resign, Contract!leadershipVars, etcd
<1>17. ASSUME NEW r \in Replica, CleanLease(r) PROVE Goal
  BY <1>17, <1>0, <1>b, WithoutIsEntry, DeleteIsEntry DEF CleanLease, EtcdOK, RevokeLease, EndLease, Unanswered
<1>18. ASSUME NEW r \in Replica, CleanKey(r) PROVE Goal
  BY <1>18, <1>0, <1>b, WithoutIsEntry, DeleteIsEntry DEF CleanKey, EtcdOK, RevokeLease, EndLease, Unanswered
<1>19. ASSUME NEW r \in Replica, CleanAddress(r) PROVE Goal
  BY <1>19, <1>a DEF CleanAddress, etcd, thread
<1>20. ASSUME NEW r \in Replica, CleanRoom(r) PROVE Goal
  BY <1>20, <1>0 DEF Goal, CleanRoom, ThreadOK, BeliefWhereLeading, ToldWhere, ToldElectedAt, Leading, Resigning, Campaigning,
       Contract!Next, Contract!Quit, Contract!leadershipVars, Forget
<1>21. ASSUME NEW l \in Lease, Expire(l) PROVE Goal
  BY <1>21, <1>0, <1>b, WithoutIsEntry DEF Expire, EndLease, EtcdOK, thread
<1>22. ASSUME NEW l \in Lease, Overrun(l) PROVE Goal
  BY <1>22, <1>0, <1>b, WithoutIsEntry DEF Overrun, EndLease, EtcdOK, thread
<1> QED
  BY <1>1, <1>2, <1>3, <1>4, <1>5, <1>6, <1>7, <1>8, <1>9, <1>10, <1>11, <1>12, <1>13, <1>14, <1>15, <1>16, <1>17, <1>18, <1>19, <1>20, <1>21, <1>22 DEF Goal, Next, Thread, Cleanup

(***************************************************************************)
(* Every step of the election threads and of etcd is a step of Leadership  *)
(* or leaves its state alone: the safety half of ImplementsLeadership.     *)
(***************************************************************************)
THEOREM ImplementsContract ==
    Spec => Contract!Init /\ [][Contract!Next]_Contract!leadershipVars
<1>1. ASSUME IInv, [Next]_vars PROVE [Contract!Next]_Contract!leadershipVars
  <2>1. CASE Next
    BY <1>1, <2>1, StepImplements
  <2>2. CASE UNCHANGED vars
    BY <2>2 DEF vars, Contract!leadershipVars
  <2> QED
    BY <1>1, <2>1, <2>2
<1> QED
  BY <1>1, InitImplements, Invariant, PTL DEF Spec

-----------------------------------------------------------------------------
(* What a process leaves behind *)

\* Where the thread holds no lease handle.
Unleased == {"down", "grant", "resign2", "clean2", "clean3", "clean4"}
NoHandleWhere == \A r \in Replica : pc[r] \in Unleased => lease[r] = None

\* A key goes with its lease.
Attached == /\ leader # Absent => leader.lease \in live
            /\ address # Absent => address.lease \in live

\* The disturbances it takes to be at a place, or to leave an entry behind.
StopIsFault == \A r \in Replica : /\ stop[r] => faults >= 1
                                  /\ pc[r] \in Cleaning => stop[r]

\* An entry under a lease its owner no longer holds: a call failed or a process died.
Orphan(entry, r) == entry.owner = r /\ entry.lease # lease[r]
OrphanIsFault == \A r \in Replica :
    /\ Orphan(leader, r) \/ Orphan(address, r) => faults >= 1
    /\ (Orphan(leader, r) \/ Orphan(address, r)) /\ stop[r] => faults >= 2

\* A deletion was tried as well by the time the thread is past it.
LeftIsFault == \A r \in Replica :
    /\ pc[r] \in {"clean3", "clean4"} /\ leader.owner = r => faults >= 3
    /\ pc[r] = "clean4" /\ address.owner = r => faults >= 3

Debris == NoHandleWhere /\ Attached /\ StopIsFault /\ OrphanIsFault /\ LeftIsFault

LEMMA NoHandleStep ==
    ASSUME ThreadOK, NoHandleWhere, Next
    PROVE  NoHandleWhere'
<1> USE DEF ThreadOK, etcd, thread, NoHandleWhere, Unleased
<1>1. ASSUME NEW r \in Replica, Start(r) PROVE NoHandleWhere'
  BY <1>1 DEF Start
<1>2. ASSUME NEW r \in Replica, StepDown(r) PROVE NoHandleWhere'
  BY <1>2 DEF StepDown
<1>3. ASSUME NEW r \in Replica, Crash(r) PROVE NoHandleWhere'
  BY <1>3 DEF Crash, Forget
<1>4. ASSUME NEW r \in Replica, Campaign(r) PROVE NoHandleWhere'
  BY <1>4 DEF Campaign, RevokeLease, EndLease, Unanswered, Without
<1>5. ASSUME NEW r \in Replica, Grant(r) PROVE NoHandleWhere'
  BY <1>5 DEF Grant, Fresh
<1>6. ASSUME NEW r \in Replica, Win(r) PROVE NoHandleWhere'
  BY <1>6 DEF Win, CanCreate
<1>7. ASSUME NEW r \in Replica, Lose(r) PROVE NoHandleWhere'
  BY <1>7 DEF Lose
<1>8. ASSUME NEW r \in Replica, CampaignFails(r) PROVE NoHandleWhere'
  BY <1>8 DEF CampaignFails, CanCreate
<1>9. ASSUME NEW r \in Replica, Publish(r) PROVE NoHandleWhere'
  BY <1>9 DEF Publish, PutAddress
<1>10. ASSUME NEW r \in Replica, StillHeld(r) PROVE NoHandleWhere'
  BY <1>10 DEF StillHeld
<1>11. ASSUME NEW r \in Replica, Refresh(r) PROVE NoHandleWhere'
  BY <1>11 DEF Refresh
<1>12. ASSUME NEW r \in Replica, LoseLeadership(r) PROVE NoHandleWhere'
  BY <1>12 DEF LoseLeadership
<1>13. ASSUME NEW r \in Replica, ResignLease(r) PROVE NoHandleWhere'
  BY <1>13 DEF ResignLease, RevokeLease, EndLease, Unanswered, Without
<1>14. ASSUME NEW r \in Replica, ResignAddress(r) PROVE NoHandleWhere'
  BY <1>14 DEF ResignAddress, DeleteIfOwned
<1>15. ASSUME NEW r \in Replica, KeyReleased(r) PROVE NoHandleWhere'
  BY <1>15 DEF KeyReleased
<1>16. ASSUME NEW r \in Replica, LeaveLoop(r) PROVE NoHandleWhere'
  BY <1>16 DEF LeaveLoop
<1>17. ASSUME NEW r \in Replica, CleanLease(r) PROVE NoHandleWhere'
  BY <1>17 DEF CleanLease, RevokeLease, EndLease, Unanswered, Without
<1>18. ASSUME NEW r \in Replica, CleanKey(r) PROVE NoHandleWhere'
  BY <1>18 DEF CleanKey, DeleteIfOwned
<1>19. ASSUME NEW r \in Replica, CleanAddress(r) PROVE NoHandleWhere'
  BY <1>19 DEF CleanAddress, DeleteIfOwned
<1>20. ASSUME NEW r \in Replica, CleanRoom(r) PROVE NoHandleWhere'
  BY <1>20 DEF CleanRoom, Forget
<1>21. ASSUME NEW l \in Lease, Expire(l) PROVE NoHandleWhere'
  BY <1>21 DEF Expire, EndLease, Without
<1>22. ASSUME NEW l \in Lease, Overrun(l) PROVE NoHandleWhere'
  BY <1>22 DEF Overrun, EndLease, Without
<1> QED
  BY <1>1, <1>2, <1>3, <1>4, <1>5, <1>6, <1>7, <1>8, <1>9, <1>10, <1>11, <1>12, <1>13, <1>14, <1>15, <1>16, <1>17, <1>18, <1>19, <1>20, <1>21, <1>22 DEF Next, Thread, Cleanup

LEMMA AttachedStep ==
    ASSUME EtcdOK, Attached, Next
    PROVE  Attached'
<1> USE NoneAssumption DEF EtcdOK, etcd, thread, Attached, Absent, Entry
<1>1. ASSUME NEW r \in Replica, Start(r) PROVE Attached'
  BY <1>1 DEF Start
<1>2. ASSUME NEW r \in Replica, StepDown(r) PROVE Attached'
  BY <1>2 DEF StepDown
<1>3. ASSUME NEW r \in Replica, Crash(r) PROVE Attached'
  BY <1>3 DEF Crash, Forget
<1>4. ASSUME NEW r \in Replica, Campaign(r) PROVE Attached'
  BY <1>4 DEF Campaign, RevokeLease, EndLease, Unanswered, Without
<1>5. ASSUME NEW r \in Replica, Grant(r) PROVE Attached'
  BY <1>5 DEF Grant, Fresh
<1>6. ASSUME NEW r \in Replica, Win(r) PROVE Attached'
  BY <1>6 DEF Win, CanCreate
<1>7. ASSUME NEW r \in Replica, Lose(r) PROVE Attached'
  BY <1>7 DEF Lose
<1>8. ASSUME NEW r \in Replica, CampaignFails(r) PROVE Attached'
  BY <1>8 DEF CampaignFails, CanCreate
<1>9. ASSUME NEW r \in Replica, Publish(r) PROVE Attached'
  BY <1>9 DEF Publish, PutAddress
<1>10. ASSUME NEW r \in Replica, StillHeld(r) PROVE Attached'
  BY <1>10 DEF StillHeld
<1>11. ASSUME NEW r \in Replica, Refresh(r) PROVE Attached'
  BY <1>11 DEF Refresh
<1>12. ASSUME NEW r \in Replica, LoseLeadership(r) PROVE Attached'
  BY <1>12 DEF LoseLeadership
<1>13. ASSUME NEW r \in Replica, ResignLease(r) PROVE Attached'
  BY <1>13 DEF ResignLease, RevokeLease, EndLease, Unanswered, Without
<1>14. ASSUME NEW r \in Replica, ResignAddress(r) PROVE Attached'
  BY <1>14 DEF ResignAddress, DeleteIfOwned
<1>15. ASSUME NEW r \in Replica, KeyReleased(r) PROVE Attached'
  BY <1>15 DEF KeyReleased
<1>16. ASSUME NEW r \in Replica, LeaveLoop(r) PROVE Attached'
  BY <1>16 DEF LeaveLoop
<1>17. ASSUME NEW r \in Replica, CleanLease(r) PROVE Attached'
  BY <1>17 DEF CleanLease, RevokeLease, EndLease, Unanswered, Without
<1>18. ASSUME NEW r \in Replica, CleanKey(r) PROVE Attached'
  BY <1>18 DEF CleanKey, DeleteIfOwned
<1>19. ASSUME NEW r \in Replica, CleanAddress(r) PROVE Attached'
  BY <1>19 DEF CleanAddress, DeleteIfOwned
<1>20. ASSUME NEW r \in Replica, CleanRoom(r) PROVE Attached'
  BY <1>20 DEF CleanRoom, Forget
<1>21. ASSUME NEW l \in Lease, Expire(l) PROVE Attached'
  BY <1>21 DEF Expire, EndLease, Without
<1>22. ASSUME NEW l \in Lease, Overrun(l) PROVE Attached'
  BY <1>22 DEF Overrun, EndLease, Without
<1> QED
  BY <1>1, <1>2, <1>3, <1>4, <1>5, <1>6, <1>7, <1>8, <1>9, <1>10, <1>11, <1>12, <1>13, <1>14, <1>15, <1>16, <1>17, <1>18, <1>19, <1>20, <1>21, <1>22 DEF Next, Thread, Cleanup

LEMMA StopStep ==
    ASSUME ThreadOK, faults \in Nat, StopIsFault, Next
    PROVE  StopIsFault'
<1> USE DEF ThreadOK, etcd, thread, StopIsFault, Cleaning, Fault, NoFault
<1>1. ASSUME NEW r \in Replica, Start(r) PROVE StopIsFault'
  BY <1>1 DEF Start
<1>2. ASSUME NEW r \in Replica, StepDown(r) PROVE StopIsFault'
  BY <1>2 DEF StepDown
<1>3. ASSUME NEW r \in Replica, Crash(r) PROVE StopIsFault'
  BY <1>3 DEF Crash, Forget
<1>4. ASSUME NEW r \in Replica, Campaign(r) PROVE StopIsFault'
  BY <1>4 DEF Campaign, RevokeLease, EndLease, Unanswered, Without
<1>5. ASSUME NEW r \in Replica, Grant(r) PROVE StopIsFault'
  BY <1>5 DEF Grant, Fresh
<1>6. ASSUME NEW r \in Replica, Win(r) PROVE StopIsFault'
  BY <1>6 DEF Win, CanCreate
<1>7. ASSUME NEW r \in Replica, Lose(r) PROVE StopIsFault'
  BY <1>7 DEF Lose
<1>8. ASSUME NEW r \in Replica, CampaignFails(r) PROVE StopIsFault'
  BY <1>8 DEF CampaignFails, CanCreate
<1>9. ASSUME NEW r \in Replica, Publish(r) PROVE StopIsFault'
  BY <1>9 DEF Publish, PutAddress
<1>10. ASSUME NEW r \in Replica, StillHeld(r) PROVE StopIsFault'
  BY <1>10 DEF StillHeld
<1>11. ASSUME NEW r \in Replica, Refresh(r) PROVE StopIsFault'
  BY <1>11 DEF Refresh
<1>12. ASSUME NEW r \in Replica, LoseLeadership(r) PROVE StopIsFault'
  BY <1>12 DEF LoseLeadership
<1>13. ASSUME NEW r \in Replica, ResignLease(r) PROVE StopIsFault'
  BY <1>13 DEF ResignLease, RevokeLease, EndLease, Unanswered, Without
<1>14. ASSUME NEW r \in Replica, ResignAddress(r) PROVE StopIsFault'
  BY <1>14 DEF ResignAddress, DeleteIfOwned
<1>15. ASSUME NEW r \in Replica, KeyReleased(r) PROVE StopIsFault'
  BY <1>15 DEF KeyReleased
<1>16. ASSUME NEW r \in Replica, LeaveLoop(r) PROVE StopIsFault'
  BY <1>16 DEF LeaveLoop
<1>17. ASSUME NEW r \in Replica, CleanLease(r) PROVE StopIsFault'
  BY <1>17 DEF CleanLease, RevokeLease, EndLease, Unanswered, Without
<1>18. ASSUME NEW r \in Replica, CleanKey(r) PROVE StopIsFault'
  BY <1>18 DEF CleanKey, DeleteIfOwned
<1>19. ASSUME NEW r \in Replica, CleanAddress(r) PROVE StopIsFault'
  BY <1>19 DEF CleanAddress, DeleteIfOwned
<1>20. ASSUME NEW r \in Replica, CleanRoom(r) PROVE StopIsFault'
  BY <1>20 DEF CleanRoom, Forget
<1>21. ASSUME NEW l \in Lease, Expire(l) PROVE StopIsFault'
  BY <1>21 DEF Expire, EndLease, Without
<1>22. ASSUME NEW l \in Lease, Overrun(l) PROVE StopIsFault'
  BY <1>22 DEF Overrun, EndLease, Without
<1> QED
  BY <1>1, <1>2, <1>3, <1>4, <1>5, <1>6, <1>7, <1>8, <1>9, <1>10, <1>11, <1>12, <1>13, <1>14, <1>15, <1>16, <1>17, <1>18, <1>19, <1>20, <1>21, <1>22 DEF Next, Thread, Cleanup

LEMMA OrphanStep ==
    ASSUME EtcdOK, ThreadOK, faults \in Nat, NoHandleWhere, Attached, StopIsFault, OrphanIsFault, LeftIsFault, Next
    PROVE  OrphanIsFault'
<1> USE NoneAssumption DEF EtcdOK, ThreadOK, etcd, thread, NoHandleWhere, Unleased, Attached, StopIsFault, OrphanIsFault, LeftIsFault, Orphan, Absent, Entry, Cleaning, Fault, NoFault
<1>1. ASSUME NEW r \in Replica, Start(r) PROVE OrphanIsFault'
  BY <1>1 DEF Start
<1>2. ASSUME NEW r \in Replica, StepDown(r) PROVE OrphanIsFault'
  BY <1>2 DEF StepDown
<1>3. ASSUME NEW r \in Replica, Crash(r) PROVE OrphanIsFault'
  BY <1>3 DEF Crash, Forget
<1>4. ASSUME NEW r \in Replica, Campaign(r) PROVE OrphanIsFault'
  BY <1>4 DEF Campaign, RevokeLease, EndLease, Unanswered, Without
<1>5. ASSUME NEW r \in Replica, Grant(r) PROVE OrphanIsFault'
  BY <1>5 DEF Grant, Fresh
<1>6. ASSUME NEW r \in Replica, Win(r) PROVE OrphanIsFault'
  BY <1>6 DEF Win, CanCreate
<1>7. ASSUME NEW r \in Replica, Lose(r) PROVE OrphanIsFault'
  BY <1>7 DEF Lose
<1>8. ASSUME NEW r \in Replica, CampaignFails(r) PROVE OrphanIsFault'
  BY <1>8 DEF CampaignFails, CanCreate
<1>9. ASSUME NEW r \in Replica, Publish(r) PROVE OrphanIsFault'
  BY <1>9 DEF Publish, PutAddress
<1>10. ASSUME NEW r \in Replica, StillHeld(r) PROVE OrphanIsFault'
  BY <1>10 DEF StillHeld
<1>11. ASSUME NEW r \in Replica, Refresh(r) PROVE OrphanIsFault'
  BY <1>11 DEF Refresh
<1>12. ASSUME NEW r \in Replica, LoseLeadership(r) PROVE OrphanIsFault'
  BY <1>12 DEF LoseLeadership
<1>13. ASSUME NEW r \in Replica, ResignLease(r) PROVE OrphanIsFault'
  BY <1>13 DEF ResignLease, RevokeLease, EndLease, Unanswered, Without
<1>14. ASSUME NEW r \in Replica, ResignAddress(r) PROVE OrphanIsFault'
  BY <1>14 DEF ResignAddress, DeleteIfOwned
<1>15. ASSUME NEW r \in Replica, KeyReleased(r) PROVE OrphanIsFault'
  BY <1>15 DEF KeyReleased
<1>16. ASSUME NEW r \in Replica, LeaveLoop(r) PROVE OrphanIsFault'
  BY <1>16 DEF LeaveLoop
<1>17. ASSUME NEW r \in Replica, CleanLease(r) PROVE OrphanIsFault'
  BY <1>17 DEF CleanLease, RevokeLease, EndLease, Unanswered, Without
<1>18. ASSUME NEW r \in Replica, CleanKey(r) PROVE OrphanIsFault'
  BY <1>18 DEF CleanKey, DeleteIfOwned
<1>19. ASSUME NEW r \in Replica, CleanAddress(r) PROVE OrphanIsFault'
  BY <1>19 DEF CleanAddress, DeleteIfOwned
<1>20. ASSUME NEW r \in Replica, CleanRoom(r) PROVE OrphanIsFault'
  BY <1>20 DEF CleanRoom, Forget
<1>21. ASSUME NEW l \in Lease, Expire(l) PROVE OrphanIsFault'
  BY <1>21 DEF Expire, EndLease, Without
<1>22. ASSUME NEW l \in Lease, Overrun(l) PROVE OrphanIsFault'
  BY <1>22 DEF Overrun, EndLease, Without
<1> QED
  BY <1>1, <1>2, <1>3, <1>4, <1>5, <1>6, <1>7, <1>8, <1>9, <1>10, <1>11, <1>12, <1>13, <1>14, <1>15, <1>16, <1>17, <1>18, <1>19, <1>20, <1>21, <1>22 DEF Next, Thread, Cleanup

LEMMA LeftStep ==
    ASSUME EtcdOK, ThreadOK, faults \in Nat, NoHandleWhere, Attached, StopIsFault, OrphanIsFault, LeftIsFault, Next
    PROVE  LeftIsFault'
<1> USE NoneAssumption DEF EtcdOK, ThreadOK, etcd, thread, NoHandleWhere, Unleased, Attached, StopIsFault, OrphanIsFault, LeftIsFault, Orphan, Absent, Entry, Cleaning, Fault, NoFault
<1>1. ASSUME NEW r \in Replica, Start(r) PROVE LeftIsFault'
  BY <1>1 DEF Start
<1>2. ASSUME NEW r \in Replica, StepDown(r) PROVE LeftIsFault'
  BY <1>2 DEF StepDown
<1>3. ASSUME NEW r \in Replica, Crash(r) PROVE LeftIsFault'
  BY <1>3 DEF Crash, Forget
<1>4. ASSUME NEW r \in Replica, Campaign(r) PROVE LeftIsFault'
  BY <1>4 DEF Campaign, RevokeLease, EndLease, Unanswered, Without
<1>5. ASSUME NEW r \in Replica, Grant(r) PROVE LeftIsFault'
  BY <1>5 DEF Grant, Fresh
<1>6. ASSUME NEW r \in Replica, Win(r) PROVE LeftIsFault'
  BY <1>6 DEF Win, CanCreate
<1>7. ASSUME NEW r \in Replica, Lose(r) PROVE LeftIsFault'
  BY <1>7 DEF Lose
<1>8. ASSUME NEW r \in Replica, CampaignFails(r) PROVE LeftIsFault'
  BY <1>8 DEF CampaignFails, CanCreate
<1>9. ASSUME NEW r \in Replica, Publish(r) PROVE LeftIsFault'
  BY <1>9 DEF Publish, PutAddress
<1>10. ASSUME NEW r \in Replica, StillHeld(r) PROVE LeftIsFault'
  BY <1>10 DEF StillHeld
<1>11. ASSUME NEW r \in Replica, Refresh(r) PROVE LeftIsFault'
  BY <1>11 DEF Refresh
<1>12. ASSUME NEW r \in Replica, LoseLeadership(r) PROVE LeftIsFault'
  BY <1>12 DEF LoseLeadership
<1>13. ASSUME NEW r \in Replica, ResignLease(r) PROVE LeftIsFault'
  BY <1>13 DEF ResignLease, RevokeLease, EndLease, Unanswered, Without
<1>14. ASSUME NEW r \in Replica, ResignAddress(r) PROVE LeftIsFault'
  BY <1>14 DEF ResignAddress, DeleteIfOwned
<1>15. ASSUME NEW r \in Replica, KeyReleased(r) PROVE LeftIsFault'
  BY <1>15 DEF KeyReleased
<1>16. ASSUME NEW r \in Replica, LeaveLoop(r) PROVE LeftIsFault'
  BY <1>16 DEF LeaveLoop
<1>17. ASSUME NEW r \in Replica, CleanLease(r) PROVE LeftIsFault'
  BY <1>17 DEF CleanLease, RevokeLease, EndLease, Unanswered, Without
<1>18. ASSUME NEW r \in Replica, CleanKey(r) PROVE LeftIsFault'
  BY <1>18 DEF CleanKey, DeleteIfOwned
<1>19. ASSUME NEW r \in Replica, CleanAddress(r) PROVE LeftIsFault'
  BY <1>19 DEF CleanAddress, DeleteIfOwned
<1>20. ASSUME NEW r \in Replica, CleanRoom(r) PROVE LeftIsFault'
  BY <1>20 DEF CleanRoom, Forget
<1>21. ASSUME NEW l \in Lease, Expire(l) PROVE LeftIsFault'
  BY <1>21 DEF Expire, EndLease, Without
<1>22. ASSUME NEW l \in Lease, Overrun(l) PROVE LeftIsFault'
  BY <1>22 DEF Overrun, EndLease, Without
<1> QED
  BY <1>1, <1>2, <1>3, <1>4, <1>5, <1>6, <1>7, <1>8, <1>9, <1>10, <1>11, <1>12, <1>13, <1>14, <1>15, <1>16, <1>17, <1>18, <1>19, <1>20, <1>21, <1>22 DEF Next, Thread, Cleanup

LEMMA DebrisInit == Init => Debris
  BY BoundAssumption, NoneAssumption
     DEF Init, Debris, NoHandleWhere, Attached, StopIsFault, OrphanIsFault, LeftIsFault, Orphan,
         Cleaning, Absent, Entry

LEMMA DebrisStep == IInv /\ Debris /\ [Next]_vars => Debris'
<1>1. ASSUME IInv, Debris, Next PROVE Debris'
  <2>1. EtcdOK /\ ThreadOK /\ faults \in Nat
    BY <1>1, BoundAssumption DEF IInv, TypeOK
  <2> QED
    BY <1>1, <2>1, NoHandleStep, AttachedStep, StopStep, OrphanStep, LeftStep DEF Debris
<1>2. ASSUME Debris, UNCHANGED vars PROVE Debris'
  BY <1>2 DEF Debris, NoHandleWhere, Attached, StopIsFault, OrphanIsFault, LeftIsFault, Orphan, vars
<1> QED
  BY <1>1, <1>2

LEMMA DebrisInvariant == Spec => []Debris
  BY Invariant, DebrisInit, DebrisStep, PTL DEF Spec

(***************************************************************************)
(* A process that has stepped down leaves neither key behind unless two    *)
(* calls went wrong besides (_cleanup revokes the lease, then deletes both *)
(* keys): for any replicas, and any calls lost and crashes before it.      *)
(***************************************************************************)
THEOREM CleansUp == Spec => []OneFailureLeavesNoKey
<1>1. Debris => OneFailureLeavesNoKey
  <2> SUFFICES ASSUME Debris, NEW r \in Replica, pc[r] = "clean4",
                      r = leader.owner \/ r = address.owner
               PROVE  faults >= 3
    BY DEF OneFailureLeavesNoKey
  <2> QED
    BY DEF Debris, LeftIsFault
<1> QED
  BY <1>1, DebrisInvariant, PTL
-----------------------------------------------------------------------------
(* etcd-watcher, which routes players to the addresses that leaders publish *)

\* A timer that is set makes good whatever failed before it was.
ArmedIsSound == armed => ~spoilt

\* SkippingIsSafe is not inductive: a write that fails while the timer is set leaves
\* the file to the timer, so what was known before must have been sound.
WatcherInv == WatcherTypeOK /\ SkippingIsSafe /\ ArmedIsSound

\* A counted disturbance stays within the bound, and so does none.
LEMMA FailsTyped ==
    ASSUME failures \in 0 .. MaxFailures, NEW kind, Fails(kind) \/ NoFailure
    PROVE  failures' \in 0 .. MaxFailures
BY WatcherBounds DEF Fails, NoFailure

\* The initial states satisfy the invariant.
LEMMA WatcherInitInv == WatcherInit => WatcherInv
<1> SUFFICES ASSUME WatcherInit PROVE WatcherInv
  OBVIOUS
<1>1. WatcherTypeOK
  <2>1. changes \in 0 .. MaxChanges /\ failures \in 0 .. MaxFailures
    BY WatcherBounds DEF WatcherInit
  <2>2. loaded \in [Resyncer -> {NoRoutes} \cup Routes]
    BY DEF WatcherInit
  <2> QED BY <2>1, <2>2, Zenon DEF WatcherInit, WatcherTypeOK, Routes
<1>2. SkippingIsSafe /\ ArmedIsSound
  BY Zenon DEF WatcherInit, SkippingIsSafe, ArmedIsSound
<1> QED BY <1>1, <1>2 DEF WatcherInv

\* Every step keeps the types.
LEMMA WatcherTypeStep == ASSUME WatcherTypeOK, WatcherNext PROVE WatcherTypeOK'
<1>1. ASSUME NEW routes \in Routes, Change(routes) PROVE WatcherTypeOK'
  <2>1. failures' \in 0 .. MaxFailures
    BY <1>1, FailsTyped DEF WatcherTypeOK, Change
  <2>2. changes' \in 0 .. MaxChanges
    BY <1>1, WatcherBounds DEF WatcherTypeOK, Change
  <2> QED BY <1>1, <2>1, <2>2 DEF WatcherTypeOK, Change
<1>2. ASSUME NEW t \in Resyncer, Load(t) PROVE WatcherTypeOK'
  <2>1. failures' \in 0 .. MaxFailures
    BY <1>2, FailsTyped DEF WatcherTypeOK, Load
  <2>2. loaded' \in [Resyncer -> {NoRoutes} \cup Routes] /\ events' \in BOOLEAN
    BY <1>2 DEF WatcherTypeOK, Load, Routes
  <2> QED BY <1>2, <2>1, <2>2 DEF WatcherTypeOK, Load
<1>3. ASSUME NEW t \in Resyncer, Store(t) PROVE WatcherTypeOK'
  BY <1>3 DEF WatcherTypeOK, Store, Schedule, NoFailure
<1>4. ASSUME TimerFires PROVE WatcherTypeOK'
  BY <1>4 DEF WatcherTypeOK, TimerFires, NoFailure, Routes
<1>5. ASSUME WriteFile PROVE WatcherTypeOK'
  <2>1. failures' \in 0 .. MaxFailures
    BY <1>5, FailsTyped DEF WatcherTypeOK, WriteFile
  <2> QED BY <1>5, <2>1 DEF WatcherTypeOK, WriteFile
<1>6. ASSUME Restart PROVE WatcherTypeOK'
  <2>1. failures' \in 0 .. MaxFailures
    BY <1>6, FailsTyped DEF WatcherTypeOK, Restart
  <2> QED BY <1>6, <2>1 DEF WatcherTypeOK, Restart, Routes
<1> QED BY <1>1, <1>2, <1>3, <1>4, <1>5, <1>6 DEF WatcherNext

\* Every step keeps the file, or what is on its way to it, in line with last.
LEMMA WatcherSafeStep == ASSUME WatcherInv, WatcherNext PROVE SkippingIsSafe' /\ ArmedIsSound'
<1>1. ASSUME NEW routes \in Routes, Change(routes) PROVE SkippingIsSafe' /\ ArmedIsSound'
  BY <1>1 DEF WatcherInv, SkippingIsSafe, ArmedIsSound, Change
<1>2. ASSUME NEW t \in Resyncer, Load(t) PROVE SkippingIsSafe' /\ ArmedIsSound'
  BY <1>2 DEF WatcherInv, SkippingIsSafe, ArmedIsSound, Load
<1>3. ASSUME NEW t \in Resyncer, Store(t) PROVE SkippingIsSafe' /\ ArmedIsSound'
  BY <1>3 DEF WatcherInv, SkippingIsSafe, ArmedIsSound, Store, Schedule
<1>4. ASSUME TimerFires PROVE SkippingIsSafe' /\ ArmedIsSound'
  <2>1. pending # NoRoutes
    BY NoRoutesAssumption DEF WatcherInv, WatcherTypeOK, Routes
  <2> QED BY <1>4, <2>1 DEF WatcherInv, SkippingIsSafe, ArmedIsSound, TimerFires
<1>5. ASSUME WriteFile PROVE SkippingIsSafe' /\ ArmedIsSound'
  <2>1. armed' = armed /\ last' = last /\ pending' = pending /\ writing' = NoRoutes
    BY <1>5 DEF WriteFile
  <2>2. ASSUME spoilt' = spoilt, conf' = writing PROVE SkippingIsSafe' /\ ArmedIsSound'
    <3>1. writing # NoRoutes
      BY <1>5 DEF WriteFile
    <3> QED BY <2>1, <2>2, <3>1 DEF WatcherInv, SkippingIsSafe, ArmedIsSound
  <2>3. ASSUME conf' = conf, spoilt' = ~armed PROVE SkippingIsSafe' /\ ArmedIsSound'
    <3>1. CASE armed
      <4>1. pending = last
        BY <3>1 DEF WatcherInv, SkippingIsSafe, ArmedIsSound
      <4> QED BY <2>1, <2>3, <3>1, <4>1 DEF SkippingIsSafe, ArmedIsSound
    <3>2. CASE ~armed
      <4>1. spoilt' /\ ~armed'
        BY <2>1, <2>3, <3>2
      <4> QED BY <4>1 DEF SkippingIsSafe, ArmedIsSound
    <3> QED BY <3>1, <3>2
  <2> QED BY <1>5, <2>2, <2>3 DEF WriteFile
<1>6. ASSUME Restart PROVE SkippingIsSafe' /\ ArmedIsSound'
  BY <1>6 DEF WatcherInv, SkippingIsSafe, ArmedIsSound, Restart
<1> QED BY <1>1, <1>2, <1>3, <1>4, <1>5, <1>6 DEF WatcherNext

(***************************************************************************)
(* Throughout: types, a file in line with last, and a sound timer.         *)
(***************************************************************************)
THEOREM WatcherInvariant == WatcherSpec => []WatcherInv
<1>1. ASSUME WatcherInv, [WatcherNext]_watcherVars PROVE WatcherInv'
  <2>1. CASE WatcherNext BY <1>1, <2>1, WatcherTypeStep, WatcherSafeStep DEF WatcherInv
  <2>2. CASE UNCHANGED watcherVars
    BY <1>1, <2>2 DEF WatcherInv, WatcherTypeOK, SkippingIsSafe, ArmedIsSound, watcherVars
  <2> QED BY <1>1, <2>1, <2>2
<1> QED BY <1>1, WatcherInitInv, PTL DEF WatcherSpec

(***************************************************************************)
(* The state keeps its types, for any routes and any bounds.               *)
(***************************************************************************)
THEOREM WatcherTypeCorrect == WatcherSpec => []WatcherTypeOK
<1>1. WatcherInv => WatcherTypeOK BY DEF WatcherInv
<1> QED BY <1>1, WatcherInvariant, PTL

(***************************************************************************)
(* resync's comparison with last_upstreams never skips a write that is     *)
(* needed, in any order of the two threads, the timer and the writes.      *)
(***************************************************************************)
THEOREM SkipSafe == WatcherSpec => []SkippingIsSafe
<1>1. WatcherInv => SkippingIsSafe BY DEF WatcherInv
<1> QED BY <1>1, WatcherInvariant, PTL
=============================================================================
