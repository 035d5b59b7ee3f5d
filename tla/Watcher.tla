------------------------------ MODULE Watcher ------------------------------
(***************************************************************************)
(* etcd-watcher (services/etcd-watcher/app/main.py): the thread that       *)
(* watches and resyncs every minute, the thread of etcd3 that calls resync *)
(* for an event, and the timer that writes the NGINX map.  A set of routes *)
(* is the set of published leader addresses, one per match; the text of    *)
(* the map is left out.  The write takes milliseconds and the debounce two *)
(* seconds, so a write is over before the next timer fires.  Its           *)
(* definitions have names of their own, next to those of LeaderElection.   *)
(***************************************************************************)
EXTENDS Naturals

CONSTANTS Route,    \* addresses that leaders may publish
          NoRoutes,
          Failures, \* the kinds of disturbance a run allows
          MaxFailures, MaxChanges \* bounds

FailureKind == {"load", "event", "write", "crash"}

ASSUME NoRoutesAssumption == \A routes \in SUBSET Route : routes # NoRoutes
ASSUME FailureAssumption == Failures \subseteq FailureKind
ASSUME WatcherBounds == MaxFailures \in Nat /\ MaxChanges \in Nat

VARIABLES
    published, \* the leader-address keys in etcd
    events,    \* whether the watch has an event to deliver
    loaded,    \* what a resync has read and not stored, or NoRoutes
    last,      \* last_upstreams
    pending,   \* _pending_upstreams
    armed,     \* _debounce_timer is set
    writing,   \* what _do_write has taken, or NoRoutes
    conf,      \* the routes in the NGINX map file
    spoilt,    \* the last write failed, or a restart forgot what the file says
    changes, failures

watcherVars == <<published, events, loaded, last, pending, armed, writing, conf, spoilt, changes, failures>>

\* The thread of watch_etcd and the thread of the watch.
Resyncer == {"periodic", "watch"}
Routes == SUBSET Route

WatcherTypeOK == /\ published \in Routes /\ last \in Routes /\ pending \in Routes /\ conf \in Routes
                 /\ loaded \in [Resyncer -> {NoRoutes} \cup Routes]
                 /\ writing \in {NoRoutes} \cup Routes
                 /\ armed \/ pending = {}
                 /\ events \in BOOLEAN /\ armed \in BOOLEAN /\ spoilt \in BOOLEAN
                 /\ changes \in 0 .. MaxChanges /\ failures \in 0 .. MaxFailures

WatcherInit == /\ published \in Routes
               /\ events = FALSE
               /\ loaded = [t \in Resyncer |-> NoRoutes]
               /\ last = {} /\ pending = {} /\ armed = FALSE /\ writing = NoRoutes
               /\ conf = {}
               /\ spoilt = FALSE
               /\ changes = 0 /\ failures = 0

Fails(kind) == kind \in Failures /\ failures < MaxFailures /\ failures' = failures + 1
NoFailure == UNCHANGED failures

-----------------------------------------------------------------------------
\* A leader publishes its address, or one goes with its lease.
Change(routes) == /\ changes < MaxChanges /\ routes # published
                  /\ changes' = changes + 1
                  /\ published' = routes
                  /\ \/ events' = TRUE /\ NoFailure
                     \/ UNCHANGED events /\ Fails("event")
                  /\ UNCHANGED <<loaded, last, pending, armed, writing, conf, spoilt>>

\* load_current_upstreams; when etcd fails, what was read before that.
Load(t) == /\ loaded[t] = NoRoutes
           /\ t = "watch" => events
           /\ events' = IF t = "watch" THEN FALSE ELSE events
           /\ \/ /\ loaded' = [loaded EXCEPT ![t] = published]
                 /\ NoFailure
              \/ \E part \in SUBSET published :
                     /\ loaded' = [loaded EXCEPT ![t] = part]
                     /\ Fails("load")
           /\ UNCHANGED <<published, last, pending, armed, writing, conf, spoilt, changes>>

\* Mutants: the set waiting to be written is not replaced, or is added to.
MutantFirstWins(routes) == /\ pending' = IF armed THEN pending ELSE routes
                           /\ armed' = TRUE
MutantMerge(routes) == pending' = pending \cup routes /\ armed' = TRUE

\* _schedule_debounced_write
Schedule(routes) == pending' = routes /\ armed' = TRUE

\* The rest of resync, under its lock.
Store(t) == /\ loaded[t] # NoRoutes
            /\ loaded' = [loaded EXCEPT ![t] = NoRoutes]
            /\ IF loaded[t] # last
               THEN /\ last' = loaded[t]
                    /\ Schedule(loaded[t])
                    /\ spoilt' = FALSE
               ELSE UNCHANGED <<last, pending, armed, spoilt>>
            /\ UNCHANGED <<published, events, writing, conf, changes>>
            /\ NoFailure

\* Mutant: what has been taken stays pending.
MutantKeepsPending == /\ armed /\ writing = NoRoutes
                      /\ writing' = pending
                      /\ armed' = FALSE
                      /\ UNCHANGED <<published, events, loaded, last, pending, conf, spoilt, changes>>
                      /\ NoFailure

\* _do_write takes what is pending.
TimerFires == /\ armed /\ writing = NoRoutes
              /\ writing' = pending
              /\ pending' = {}
              /\ armed' = FALSE
              /\ UNCHANGED <<published, events, loaded, last, conf, spoilt, changes>>
              /\ NoFailure

\* write_upstream_config: the file is replaced whole, or a failure is logged.
WriteFile == /\ writing # NoRoutes
             /\ writing' = NoRoutes
             /\ \/ conf' = writing /\ UNCHANGED spoilt /\ NoFailure
                \/ UNCHANGED conf /\ spoilt' = ~armed /\ Fails("write")
             /\ UNCHANGED <<published, events, loaded, last, pending, armed, changes>>

\* The process restarts; the file stays.
Restart == /\ Fails("crash")
           /\ loaded' = [t \in Resyncer |-> NoRoutes]
           /\ last' = {} /\ pending' = {} /\ armed' = FALSE /\ writing' = NoRoutes
           /\ events' = FALSE
           /\ spoilt' = (conf # {})
           /\ UNCHANGED <<published, conf, changes>>

WatcherNext == \/ \E routes \in Routes : Change(routes)
               \/ \E t \in Resyncer : Load(t) \/ Store(t)
               \/ TimerFires \/ WriteFile \/ Restart

(***************************************************************************)
(* The minute passes, threads run, the timer fires.  Nothing makes a watch *)
(* deliver its events.                                                     *)
(***************************************************************************)
WatcherFairness == /\ WF_watcherVars(Load("periodic") /\ NoFailure)
                   /\ \A t \in Resyncer : WF_watcherVars(Store(t))
                   /\ WF_watcherVars(TimerFires) /\ WF_watcherVars(WriteFile)

WatcherSpec == WatcherInit /\ [][WatcherNext]_watcherVars /\ WatcherFairness
-----------------------------------------------------------------------------
(* Properties *)

(***************************************************************************)
(* resync skips the write when nothing changed since the last one it       *)
(* asked for.  That is safe: either the file holds that set, or the newest *)
(* set waits for the timer or is being written, unless a write failed or   *)
(* the process restarted.                                                  *)
(***************************************************************************)
SkippingIsSafe == spoilt \/ (IF armed THEN pending = last
                             ELSE IF writing # NoRoutes THEN writing = last
                             ELSE conf = last)

(***************************************************************************)
(* When the leaders' addresses stop changing the file comes to hold them,  *)
(* whatever events were dropped, loads failed or were overtaken, unless a  *)
(* write failed or a restart went unnoticed and no change followed         *)
(* ("Periodic resync covers any event dropped around a reconnect").        *)
(***************************************************************************)
RoutesConverge == \A routes \in Routes :
    <>[](published = routes /\ ~spoilt) => <>[](conf = routes)
=============================================================================
