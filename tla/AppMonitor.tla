----------------------------- MODULE AppMonitor -----------------------------
(***************************************************************************)
(* appstate.Monitor for one app: the goroutines and channels that turn     *)
(* what the cluster's informers see into app statuses.                     *)
(*                                                                         *)
(*   informer handler --resourceStateCh--> runInformers --appStatusCh-->   *)
(*   forwarder --Monitor.appStatusCh--> operator                           *)
(*                                                                         *)
(* All channels are unbuffered.  Each Apply cancels the previous run of    *)
(* runInformers and starts one of its own, with its own handlers.  An      *)
(* Apply with another sequence also shuts the AppMonitor down and starts   *)
(* another, with a forwarder of its own; Shutdown ends the Monitor.  Both  *)
(* close channels, and a send on a closed channel ends the process.        *)
(*                                                                         *)
(* A run is known by the Apply that started it, an AppMonitor by its first *)
(* run.                                                                    *)
(*                                                                         *)
(* The informers themselves are client-go's: they list, then watch, and    *)
(* call the handlers one event at a time; a watch may break, and a delete  *)
(* it missed is then told with a DeletedFinalStateUnknown tombstone.       *)
(* Events not yet handled are coalesced into the newest.                   *)
(***************************************************************************)
EXTENDS Integers, FiniteSets, AppStates

CONSTANTS
    Direct,         \* resources whose object holds all their state:
                    \* deployments, persistent volume claims
    Derived,        \* those whose state also depends on other objects (pods,
                    \* endpoint slices), whose changes raise no event:
                    \* services, ingresses, stateful sets, daemon sets
    Unsupported,    \* resources of a kind without a controller
    MaxChanges,     \* bound: what happens to the monitor from outside: each
                    \* change of the cluster counts one, Shutdown three, Apply
                    \* two, none after Shutdown, and one for each informer it
                    \* starts
    MaxApplies      \* bound: calls of Apply; bootstrap makes one

ClusterState == {"missing", "unavailable", "ready"}
Watched == Direct \cup Derived
Resource == Watched \cup Unsupported
Run == 1..MaxApplies

ASSUME ResourcesAssumption ==
    /\ Resource # {} /\ IsFiniteSet(Resource)
    /\ Direct \cap Derived = {} /\ Watched \cap Unsupported = {}
ASSUME BoundsAssumption == MaxChanges \in Nat /\ MaxApplies \in Nat \ {0}

VARIABLES
    informers,  \* the resources that the app's status informers name
    cluster,    \* the objects: [ver, state], where ver counts their changes
    changes,
    applied,    \* calls of Apply so far: the current run
    monitor,    \* Monitor.run: "up", "cancelled", or "closed" with its channel
    owner,      \* the AppMonitor of each run
    appMonitor, \* AppMonitor.run: "none", "up", "cancelled", "closed"
    ctxDone,    \* is the context of each run cancelled?
    runPC,      \* where each runInformers is
    rs,         \* its appStatus.ResourceStates
    cache,      \* each informer's copy of its object
    behind,     \* is there an event that informer has not handled?
    hPC,        \* its handler: "off", "idle", "sending", "stopped"
    hVal,       \* the resource state that handler sends
    forwarding, \* the status in the hands of each AppMonitor's forwarder
    delivered,  \* the last status the operator received
    crashed,    \* has a send on a closed channel ended the process?
    missed      \* history: resources whose delete a tombstone told to each run

vars == <<informers, cluster, changes, applied, monitor, owner, appMonitor,
          ctxDone, runPC, rs, cache, behind, hPC, hVal, forwarding, delivered,
          crashed, missed>>
clusterVars == <<informers, cluster, changes>>
monitorVars == <<applied, monitor, owner, appMonitor, ctxDone, crashed>>
informerVars == <<cache, behind, hPC, hVal, missed>>
outVars == <<forwarding, delivered>>

Object == [ver : Nat, state : State]
Absent == [ver |-> 0, state |-> "missing"]
Exists(o) == o.state # "missing"
NoStatus == [run |-> 0, states |-> [x \in Resource |-> Absent], state |-> "missing"]
AllMissing == [x \in Resource |-> Absent]

RunStep == {"none", "reset", "start", "select", "send", "wait", "done"}

\* The resources that get an informer of their own.
Followed == Watched \cap informers

Aggregate(states) == GetState({states[x].state : x \in informers})

StatusOf(r) == [run |-> r, states |-> rs[r], state |-> Aggregate(rs[r])]

Init ==
    /\ informers \in SUBSET Resource \ {{}}
    /\ cluster \in [Resource -> {[ver |-> 1, state |-> s] : s \in {"missing", "ready"}}]
    /\ \A x \in Resource \ Followed : Exists(cluster[x])
    /\ changes = 0
    /\ applied = 1
    /\ monitor = "up"
    /\ owner = [r \in Run |-> 1]
    /\ appMonitor = [r \in Run |-> IF r = 1 THEN "up" ELSE "none"]
    /\ ctxDone = [r \in Run |-> FALSE]
    /\ runPC = [r \in Run |-> IF r = 1 THEN "reset" ELSE "none"]
    /\ rs = [r \in Run |-> AllMissing]
    /\ cache = [r \in Run |-> [x \in Watched |-> Absent]]
    /\ behind = [r \in Run |-> [x \in Watched |-> FALSE]]
    /\ hPC = [r \in Run |-> [x \in Watched |-> "off"]]
    /\ hVal = [r \in Run |-> [x \in Watched |-> Absent]]
    /\ forwarding = [r \in Run |-> NoStatus]
    /\ delivered = NoStatus
    /\ crashed = FALSE
    /\ missed = [r \in Run |-> {}]

-----------------------------------------------------------------------------
(***************************************************************************)
(* The cluster and the informers                                           *)
(***************************************************************************)

\* What comes from outside is bounded.
Counts(n) == changes + n <= MaxChanges /\ changes' = changes + n

\* An object somebody follows is created, changed or deleted.  A derived state
\* may change with no event on the object itself.
Change(x, s) ==
    /\ Counts(1)
    /\ cluster[x].state # s
    /\ cluster' = [cluster EXCEPT ![x] = [ver |-> cluster[x].ver + 1, state |-> s]]
    /\ \/ behind' = [r \in Run |->
             [behind[r] EXCEPT ![x] = @ \/ hPC[r][x] \notin {"off", "stopped"}]]
       \/ /\ x \in Derived /\ Exists(cluster[x]) /\ s # "missing"
          /\ UNCHANGED behind
    /\ UNCHANGED <<informers, monitorVars, runPC, rs, cache, hPC, hVal, outVars,
                   missed>>

\* An informer whose context is done may still handle an event on its way out.
Ready(r, x) == hPC[r][x] = "idle"

Sending(r, x, o) ==
    /\ hPC' = [hPC EXCEPT ![r][x] = "sending"]
    /\ hVal' = [hVal EXCEPT ![r][x] = o]

\* Faulty variant of ObjectUpdated: UpdateFunc passes on the old object.
ObjectUpdatedOld(r, x) ==
    /\ Ready(r, x) /\ behind[r][x] /\ Exists(cluster[x])
    /\ cache' = [cache EXCEPT ![r][x] = cluster[x]]
    /\ behind' = [behind EXCEPT ![r][x] = FALSE]
    /\ Sending(r, x, cache[r][x])
    /\ UNCHANGED <<clusterVars, monitorVars, runPC, rs, outVars, missed>>

\* ObjectCreated and ObjectUpdated send the state they calculate.
ObjectUpdated(r, x) ==
    /\ Ready(r, x) /\ behind[r][x] /\ Exists(cluster[x])
    /\ cache' = [cache EXCEPT ![r][x] = cluster[x]]
    /\ behind' = [behind EXCEPT ![r][x] = FALSE]
    /\ Sending(r, x, cluster[x])
    /\ missed' = [missed EXCEPT ![r] = @ \ {x}]
    /\ UNCHANGED <<clusterVars, monitorVars, runPC, rs, outVars>>

\* ObjectDeleted sends "missing", but its cast of a tombstone is nil, for
\* which getInformer finds nothing: the delete is ignored.  An object that the
\* informer never knew is not told as deleted.
ObjectDeleted(r, x) ==
    /\ Ready(r, x) /\ behind[r][x] /\ ~Exists(cluster[x])
    /\ cache' = [cache EXCEPT ![r][x] = Absent]
    /\ behind' = [behind EXCEPT ![r][x] = FALSE]
    /\ \/ Exists(cache[r][x]) /\ Sending(r, x, cluster[x]) /\ UNCHANGED missed
       \/ ~Exists(cache[r][x]) /\ UNCHANGED <<hPC, hVal, missed>>
       \/ /\ Exists(cache[r][x])
          /\ missed' = [missed EXCEPT ![r] = @ \cup {x}]
          /\ UNCHANGED <<hPC, hVal>>
    /\ UNCHANGED <<clusterVars, monitorVars, runPC, rs, outVars>>

\* Faulty variant of ResyncState: a derived state is the one last cached.
ResyncCached(r, x) == cache[r][x]

\* The periodic resync calls ObjectUpdated with the cached object; a derived
\* state is calculated anew from the other objects.
ResyncState(r, x) ==
    IF x \in Derived /\ Exists(cluster[x]) THEN cluster[x] ELSE cache[r][x]

Resync(r, x) ==
    /\ Ready(r, x) /\ ~behind[r][x] /\ Exists(cache[r][x])
    /\ Sending(r, x, ResyncState(r, x))
    /\ UNCHANGED <<clusterVars, monitorVars, runPC, rs, cache, behind, outVars, missed>>

\* informer.Run returns once its context is done and its handler, too.
StopInformer(r, x) ==
    /\ ctxDone[r] /\ hPC[r][x] = "idle"
    /\ hPC' = [hPC EXCEPT ![r][x] = "stopped"]
    /\ UNCHANGED <<clusterVars, monitorVars, runPC, rs, cache, behind, hVal, outVars, missed>>

-----------------------------------------------------------------------------
(***************************************************************************)
(* AppMonitor.run and runInformers                                         *)
(***************************************************************************)

\* What an Apply counts: after Shutdown only the informers it starts.
ApplyCounts == Counts(Cardinality(Followed) + IF monitor = "up" THEN 2 ELSE 0)

\* Faulty variant of Apply: the previous run is not cancelled.
ApplyOnly(sameSequence) ==
    /\ ApplyCounts
    /\ applied < MaxApplies /\ monitor # "closed" /\ sameSequence
    /\ applied' = applied + 1
    /\ owner' = [owner EXCEPT ![applied + 1] = owner[applied]]
    /\ runPC' = [runPC EXCEPT ![applied + 1] = "reset"]
    /\ UNCHANGED <<informers, cluster, monitor, appMonitor, ctxDone, crashed, rs,
                   informerVars, outVars>>

\* Faulty variant of Apply: every call replaces the AppMonitor.
ApplyReplaces(sameSequence) ==
    /\ ApplyCounts
    /\ applied < MaxApplies /\ monitor # "closed"
    /\ applied' = applied + 1
    /\ appMonitor' = [appMonitor EXCEPT ![owner[applied]] = "cancelled",
                                        ![applied + 1] = "up"]
    /\ owner' = [owner EXCEPT ![applied + 1] = IF sameSequence THEN 1 ELSE applied + 1]
    /\ ctxDone' = [ctxDone EXCEPT ![applied] = TRUE]
    /\ runPC' = [runPC EXCEPT ![applied + 1] = "reset"]
    /\ UNCHANGED <<informers, cluster, monitor, crashed, rs, informerVars, outVars>>

\* Apply, received by Monitor.run, which replaces the AppMonitor if the
\* sequence is another one, and by AppMonitor.run: "cancel previous loop".
\* Monitor.run may still take it when it is cancelled, as its select may
\* choose either, and then waits until AppMonitor.run, which it alone
\* cancels, has taken the informers: the two are one step.
Apply(sameSequence) ==
    /\ ApplyCounts
    /\ applied < MaxApplies /\ monitor # "closed"
    /\ applied' = applied + 1
    /\ ctxDone' = [ctxDone EXCEPT ![applied] = TRUE]
    /\ runPC' = [runPC EXCEPT ![applied + 1] = "reset"]
    /\ \/ /\ sameSequence
          /\ owner' = [owner EXCEPT ![applied + 1] = owner[applied]]
          /\ UNCHANGED appMonitor
       \/ /\ ~sameSequence
          /\ owner' = [owner EXCEPT ![applied + 1] = applied + 1]
          /\ appMonitor' = [appMonitor EXCEPT ![owner[applied]] = "cancelled",
                                              ![applied + 1] = "up"]
    /\ UNCHANGED <<informers, cluster, monitor, crashed, rs, informerVars, outVars>>

\* Operator.Shutdown cancels the context of Monitor.run.
Shutdown ==
    /\ Counts(3)
    /\ monitor = "up"
    /\ monitor' = "cancelled"
    /\ UNCHANGED <<informers, cluster, applied, owner, appMonitor, ctxDone, crashed,
                   runPC, rs, informerVars, outVars>>

\* Monitor.run returns: it shuts its AppMonitor down and closes its channel.
MonitorReturns ==
    /\ monitor = "cancelled"
    /\ monitor' = "closed"
    /\ appMonitor' = [appMonitor EXCEPT ![owner[applied]] = "cancelled"]
    /\ ctxDone' = [ctxDone EXCEPT ![applied] = TRUE]
    /\ UNCHANGED <<clusterVars, applied, owner, crashed, runPC, rs, informerVars, outVars>>

\* AppMonitor.run returns and closes its channels.
AppMonitorReturns(a) ==
    /\ appMonitor[a] = "cancelled"
    /\ appMonitor' = [appMonitor EXCEPT ![a] = "closed"]
    /\ UNCHANGED <<clusterVars, applied, monitor, owner, ctxDone, crashed, runPC, rs,
                   informerVars, outVars>>

\* Somebody sends on a channel that is closed, or waits to when it is closed:
\* a run, a forwarder, or a handler of a run.
SendsOnClosed ==
    \/ \E r \in Run : runPC[r] \in {"reset", "send"} /\ appMonitor[owner[r]] = "closed"
    \/ \E a \in Run : forwarding[a] # NoStatus /\ monitor = "closed"
    \/ \E r \in Run, x \in Watched : hPC[r][x] = "sending" /\ runPC[r] = "done"

Panic ==
    /\ SendsOnClosed
    /\ crashed' = TRUE
    /\ UNCHANGED <<clusterVars, applied, monitor, owner, appMonitor, ctxDone, runPC, rs,
                   informerVars, outVars>>

\* A send on appStatusCh waits for the forwarder and looks at no context.
Forwarder(r) ==
    /\ appMonitor[owner[r]] # "closed"
    /\ forwarding[owner[r]] = NoStatus
    /\ forwarding' = [forwarding EXCEPT ![owner[r]] = StatusOf(r)]

SendReset(r) ==
    /\ runPC[r] = "reset"
    /\ Forwarder(r)
    /\ runPC' = [runPC EXCEPT ![r] = "start"]
    /\ UNCHANGED <<clusterVars, monitorVars, rs, informerVars, delivered>>

\* One informer per watched resource, which lists the objects there are.
StartControllers(r) ==
    /\ runPC[r] = "start"
    /\ hPC' = [hPC EXCEPT ![r] = [x \in Watched |-> IF x \in Followed THEN "idle" ELSE "off"]]
    /\ behind' = [behind EXCEPT ![r] = [x \in Watched |-> x \in Followed /\ Exists(cluster[x])]]
    /\ runPC' = [runPC EXCEPT ![r] = "select"]
    /\ UNCHANGED <<clusterVars, monitorVars, rs, cache, hVal, outVars, missed>>

\* The select receives from a handler: resourceStatesApplyNew and GetState.
ReceiveState(r, x) ==
    /\ runPC[r] = "select" /\ hPC[r][x] = "sending"
    /\ rs' = [rs EXCEPT ![r][x] = hVal[r][x]]
    /\ hPC' = [hPC EXCEPT ![r][x] = "idle"]
    /\ runPC' = [runPC EXCEPT ![r] = "send"]
    /\ UNCHANGED <<clusterVars, monitorVars, cache, behind, hVal, outVars, missed>>

SendStatus(r) ==
    /\ runPC[r] = "send"
    /\ Forwarder(r)
    /\ runPC' = [runPC EXCEPT ![r] = "select"]
    /\ UNCHANGED <<clusterVars, monitorVars, rs, informerVars, delivered>>

\* The select sees ctx.Done(); the deferred function waits for the informers.
Cancelled(r) ==
    /\ runPC[r] = "select" /\ ctxDone[r]
    /\ runPC' = [runPC EXCEPT ![r] = "wait"]
    /\ UNCHANGED <<clusterVars, monitorVars, rs, informerVars, outVars>>

\* Faulty variant of ShutdownWait: the channel is closed without waiting.
ShutdownNoWait(r) ==
    /\ runPC[r] = "wait"
    /\ runPC' = [runPC EXCEPT ![r] = "done"]
    /\ UNCHANGED <<clusterVars, monitorVars, rs, informerVars, outVars>>

\* shutdown.Wait, then resourceStateCh is closed.
ShutdownWait(r) ==
    /\ runPC[r] = "wait"
    /\ \A x \in Followed : hPC[r][x] = "stopped"
    /\ runPC' = [runPC EXCEPT ![r] = "done"]
    /\ UNCHANGED <<clusterVars, monitorVars, rs, informerVars, outVars>>

\* The forwarder's send is received by the operator's loop.
Forward(a) ==
    /\ forwarding[a] # NoStatus /\ monitor # "closed"
    /\ delivered' = forwarding[a]
    /\ forwarding' = [forwarding EXCEPT ![a] = NoStatus]
    /\ UNCHANGED <<clusterVars, monitorVars, runPC, rs, informerVars>>

-----------------------------------------------------------------------------
Handler(r, x) ==
    \/ ObjectUpdated(r, x)
    \/ ObjectDeleted(r, x)
    \/ Resync(r, x)
    \/ StopInformer(r, x)

Loop(r) ==
    \/ SendReset(r)
    \/ StartControllers(r)
    \/ \E x \in Watched : ReceiveState(r, x)
    \/ SendStatus(r)
    \/ ShutdownWait(r)

Next ==
    /\ ~crashed
    /\ \/ \E x \in Followed, s \in ClusterState : Change(x, s)
       \/ \E r \in Run, x \in Watched : Handler(r, x)
       \/ \E sameSequence \in BOOLEAN : Apply(sameSequence)
       \/ Shutdown
       \/ MonitorReturns
       \/ \E a \in Run : AppMonitorReturns(a) \/ Forward(a)
       \/ \E r \in Run : Loop(r) \/ Cancelled(r)
       \/ Panic

(***************************************************************************)
(* The informers and the goroutines that can run do run.  Resyncs come for *)
(* ever, but nobody starves: those who wait to send on a channel are       *)
(* served in order, and a select picks each ready case in the end.         *)
(***************************************************************************)
Fairness ==
    /\ \A r \in Run :
        /\ WF_vars(~crashed /\ (StartControllers(r) \/ ShutdownWait(r)))
        /\ SF_vars(~crashed /\ (SendReset(r) \/ SendStatus(r)))
        /\ WF_vars(~crashed /\ AppMonitorReturns(r))
        /\ WF_vars(~crashed /\ Forward(r))
        /\ \A x \in Watched : WF_vars(~crashed /\ Handler(r, x))
    /\ \A x \in Watched : SF_vars(~crashed /\ \E r \in Run : ReceiveState(r, x))
    /\ SF_vars(~crashed /\ \E r \in Run : Cancelled(r))
    /\ WF_vars(~crashed /\ (MonitorReturns \/ Panic))

Spec == Init /\ [][Next]_vars /\ Fairness

-----------------------------------------------------------------------------
(***************************************************************************)
(* Properties                                                              *)
(***************************************************************************)

StatusType == [run : 0..MaxApplies, states : [Resource -> Object], state : State]

\* The types of the variables.
TypeOK ==
    /\ informers \subseteq Resource
    /\ cluster \in [Resource -> Object]
    /\ changes \in 0..MaxChanges
    /\ applied \in Run
    /\ ctxDone \in [Run -> BOOLEAN]
    /\ runPC \in [Run -> RunStep]
    /\ rs \in [Run -> [Resource -> Object]]
    /\ cache \in [Run -> [Watched -> Object]]
    /\ behind \in [Run -> [Watched -> BOOLEAN]]
    /\ hPC \in [Run -> [Watched -> {"off", "idle", "sending", "stopped"}]]
    /\ hVal \in [Run -> [Watched -> Object]]
    /\ monitor \in {"up", "cancelled", "closed"}
    /\ owner \in [Run -> Run]
    /\ appMonitor \in [Run -> {"none", "up", "cancelled", "closed"}]
    /\ forwarding \in [Run -> StatusType]
    /\ crashed \in BOOLEAN
    /\ delivered \in StatusType
    /\ missed \in [Run -> SUBSET Watched]

\* From one status of a run to the next, no resource goes back to a state it
\* was in before: events, resyncs and sends keep their order on their way
\* through the channels (appstate.go:276-287, 97-101).
StatesMoveForward ==
    [][delivered'.run = delivered.run =>
         \A x \in Resource : delivered.states[x].ver <= delivered'.states[x].ver]_vars

\* Once the cluster is at rest the status the operator has is that of the
\* cluster, for each resource with a controller and for the app, whose state is
\* "missing" when a resource is of a kind without one (runInformers; the
\* handlers of the six kinds; the resync).  What can stay wrong is the state of
\* a deleted object whose tombstone the handlers ignore (deployments.go:79-90).
\* It is so while informers are applied once, as bootstrap does: a late status
\* of a run that was replaced may come after all those of the new one.
StatusConverges ==
    <>[](applied = 1 /\ monitor = "up" =>
         /\ \A x \in Followed :
              \/ delivered.states[x].state = cluster[x].state
              \/ x \in missed[applied] /\ ~Exists(cluster[x])
         /\ informers \subseteq Watched /\ missed[applied] = {} =>
              delivered.state = Aggregate(cluster)
         /\ ~(informers \subseteq Watched) => delivered.state = "missing")

\* A run that was replaced or whose monitor was shut down comes to its end, or
\* waits for handlers that are blocked sending to it, and is never heard of
\* again, unless the process ends (appstate.go:74-83, 145-155, 164, 192-197,
\* 276-286).
CancelledRunFallsSilent ==
    \A r \in Run : (applied > r \/ (applied = r /\ monitor # "up")) ~>
        [](\/ crashed
           \/ runPC[r] = "done"
           \/ runPC[r] = "wait" /\ \E x \in Followed : hPC[r][x] = "sending")

\* The process ends by a send on a closed channel only when the monitor was shut
\* down or its AppMonitor was replaced for another sequence, which closes the
\* channel under the runs that may be sending on it: an Apply with the same
\* sequence never does, nor does a run close the channel of its handlers while
\* one of them is sending (appstate.go:74, 92-95, 147-148, 194-197).
NoSendOnClosed ==
    crashed => monitor = "closed" \/ \E a \in Run : a # 1 /\ owner[applied] = a

=============================================================================
