-------------------------- MODULE AppMonitorProofs --------------------------
(***************************************************************************)
(* What holds of pkg/appstate, its pods excepted: of AppMonitor for every  *)
(* set of resources and any number of changes and calls of Apply; of       *)
(* Exposure for any ports and endpoint slices; and of Rollout for any      *)
(* number of replicas, revisions and failures.                             *)
(***************************************************************************)
EXTENDS AppMonitor, Exposure, Rollout, FiniteSetTheorems, SequenceTheorems, TLAPS

\* How many resources a run follows is a number.
LEMMA FollowedCount == Cardinality(Followed) \in Nat
BY ResourcesAssumption, FS_Subset, FS_CardinalityType DEF Followed, Resource

\* The rank of a state is its place in the order of severity.
LEMMA RankOfState ==
    /\ Rank("missing") = 1
    /\ Rank("unavailable") = 2
    /\ Rank("degraded") = 3
    /\ Rank("updating") = 4
    /\ Rank("ready") = 5
BY DEF Rank, Severity

\* MinState finds the worst state of a set that has one.
LEMMA MinStateIsWorst ==
    ASSUME NEW S, S \cap State # {}
    PROVE  /\ MinState(S) \in S \cap State
           /\ \A t \in S \cap State : AtLeast(t, MinState(S))
<1> DEFINE T == S \cap State
<1>1. \E s \in T : \A t \in T : AtLeast(t, s)
  <2>1. CASE "missing" \in T
    BY <2>1, RankOfState DEF AtLeast, State
  <2>2. CASE "missing" \notin T /\ "unavailable" \in T
    BY <2>2, RankOfState DEF AtLeast, State
  <2>3. CASE {"missing", "unavailable"} \cap T = {} /\ "degraded" \in T
    BY <2>3, RankOfState DEF AtLeast, State
  <2>4. CASE {"missing", "unavailable", "degraded"} \cap T = {} /\ "updating" \in T
    BY <2>4, RankOfState DEF AtLeast, State
  <2>5. CASE T = {"ready"}
    BY <2>5, RankOfState DEF AtLeast, State
  <2> QED
    BY <2>1, <2>2, <2>3, <2>4, <2>5 DEF State
<1> QED
  BY <1>1 DEF MinState

\* The state of an app is a state, and none of its resources has a worse one.
LEMMA GetStateIsWorst ==
    ASSUME NEW S, S \subseteq State
    PROVE  /\ GetState(S) \in State
           /\ \A s \in S : Rank(GetState(S)) <= Rank(s)
<1>1. CASE S = {}
  BY <1>1 DEF GetState, State
<1>2. CASE S # {}
  <2>1. "ready" \in (S \cup {"ready"}) \cap State
    BY DEF State
  <2> QED
    BY <1>2, <2>1, MinStateIsWorst DEF GetState, AtLeast
<1> QED
  BY <1>1, <1>2

\* What a run tells is a status.
LEMMA StatusOfType ==
    ASSUME TypeOK, NEW r \in Run
    PROVE  /\ StatusOf(r) \in StatusType
           /\ StatusOf(r).run = r
           /\ StatusOf(r).states = rs[r]
<1>1. {rs[r][x].state : x \in informers} \subseteq State
  BY DEF TypeOK, Object
<1>2. Aggregate(rs[r]) \in State
  BY <1>1, GetStateIsWorst DEF Aggregate
<1> QED
  BY <1>2, BoundsAssumption DEF StatusOf, StatusType, TypeOK, Run

-----------------------------------------------------------------------------
\* Every step of the monitor, its runs and their handlers keeps the types.
LEMMA TypeInvariant ==
    ASSUME TypeOK, [Next]_vars
    PROVE  TypeOK'
<1> USE BoundsAssumption DEF TypeOK
<1>0. Absent \in Object /\ NoStatus \in StatusType
  BY DEF Absent, Object, NoStatus, StatusType, State
<1>1. CASE UNCHANGED vars
  BY <1>1 DEF vars, StatusType
<1>2. ASSUME NEW x \in Followed, NEW s \in ClusterState, Change(x, s) PROVE TypeOK'
  <2>1. x \in Resource /\ x \in Watched
    BY DEF Followed, Resource
  <2>2. cluster' \in [Resource -> Object]
    BY <1>2, <2>1 DEF Change, Object, ClusterState, State
  <2>3. behind' \in [Run -> [Watched -> BOOLEAN]]
    <3>1. ASSUME NEW r \in Run, NEW b \in BOOLEAN
          PROVE  [behind[r] EXCEPT ![x] = b] \in [Watched -> BOOLEAN]
      OBVIOUS
    <3>2. ASSUME NEW r \in Run
          PROVE  (behind[r][x] \/ hPC[r][x] \notin {"off", "stopped"}) \in BOOLEAN
      OBVIOUS
    <3>3. [r \in Run |-> [behind[r] EXCEPT ![x] = @ \/ hPC[r][x] \notin {"off", "stopped"}]]
            \in [Run -> [Watched -> BOOLEAN]]
      BY <2>1, <3>1, <3>2
    <3> QED
      BY <1>2, <3>3 DEF Change
  <2>4. changes' \in 0..MaxChanges
    BY <1>2 DEF Change, Counts
  <2> QED
    BY <1>2, <2>2, <2>3, <2>4 DEF Change, monitorVars, outVars
<1>3. ASSUME NEW r \in Run, NEW x \in Watched, Handler(r, x) PROVE TypeOK'
  <2>1. x \in Resource /\ cluster[x] \in Object /\ cache[r][x] \in Object
    BY DEF Resource
  <2>2. ASSUME NEW o \in Object, Sending(r, x, o)
        PROVE  /\ hPC' \in [Run -> [Watched -> {"off", "idle", "sending", "stopped"}]]
               /\ hVal' \in [Run -> [Watched -> Object]]
    BY <2>2 DEF Sending
  <2>3. CASE ObjectUpdated(r, x)
    BY <2>1, <2>2, <2>3 DEF ObjectUpdated, clusterVars, monitorVars, outVars
  <2>4. CASE ObjectDeleted(r, x)
    <3>1. /\ hPC' \in [Run -> [Watched -> {"off", "idle", "sending", "stopped"}]]
          /\ hVal' \in [Run -> [Watched -> Object]]
          /\ missed' \in [Run -> SUBSET Watched]
      <4>1. CASE UNCHANGED <<hPC, hVal>>
        <5>1. \/ missed' = missed
              \/ missed' = [missed EXCEPT ![r] = @ \cup {x}]
          BY <2>4 DEF ObjectDeleted
        <5>2. missed[r] \cup {x} \in SUBSET Watched
          OBVIOUS
        <5>3. ASSUME NEW M \in SUBSET Watched
              PROVE  [missed EXCEPT ![r] = M] \in [Run -> SUBSET Watched]
          OBVIOUS
        <5>4. missed' \in [Run -> SUBSET Watched]
          BY <5>1, <5>2, <5>3
        <5> QED
          BY <4>1, <5>4
      <4>2. CASE Sending(r, x, cluster[x]) /\ UNCHANGED missed
        BY <2>1, <2>2, <4>2
      <4> QED
        BY <2>4, <4>1, <4>2 DEF ObjectDeleted
    <3> QED
      BY <1>0, <2>4, <3>1 DEF ObjectDeleted, clusterVars, monitorVars, outVars
  <2>5. CASE Resync(r, x)
    <3>1. ResyncState(r, x) \in Object
      BY <2>1 DEF ResyncState
    <3> QED
      BY <2>2, <2>5, <3>1 DEF Resync, clusterVars, monitorVars, outVars
  <2>6. CASE StopInformer(r, x)
    BY <2>6 DEF StopInformer, clusterVars, monitorVars, outVars
  <2> QED
    BY <1>3, <2>3, <2>4, <2>5, <2>6 DEF Handler
<1>4. ASSUME NEW sameSequence \in BOOLEAN, Apply(sameSequence) PROVE TypeOK'
  <2>1. applied + 1 \in Run /\ changes' \in 0..MaxChanges
    <3>1. ASSUME NEW n \in Nat, Counts(n) PROVE changes' \in 0..MaxChanges
      BY <3>1 DEF Counts
    <3>2. applied < MaxApplies /\ ApplyCounts
      BY <1>4 DEF Apply
    <3>3. Cardinality(Followed) + (IF monitor = "up" THEN 2 ELSE 0) \in Nat
      BY FollowedCount
    <3> QED
      BY <3>1, <3>2, <3>3 DEF Run, ApplyCounts
  <2>2. owner' \in [Run -> Run] /\ runPC' \in [Run -> RunStep]
    <3>1. /\ runPC' = [runPC EXCEPT ![applied + 1] = "reset"]
          /\ \E a \in Run : owner' = [owner EXCEPT ![applied + 1] = a]
      BY <1>4, <2>1 DEF Apply
    <3> QED
      BY <3>1 DEF RunStep
  <2>3. /\ appMonitor' \in [Run -> {"none", "up", "cancelled", "closed"}]
        /\ ctxDone' \in [Run -> BOOLEAN]
    BY <1>4, <2>1 DEF Apply
  <2> QED
    BY <1>4, <2>1, <2>2, <2>3 DEF Apply, informerVars, outVars
<1>5. CASE Shutdown
  BY <1>5 DEF Shutdown, Counts, informerVars, outVars
<1>6. CASE MonitorReturns
  BY <1>6 DEF MonitorReturns, clusterVars, informerVars, outVars
<1>7. ASSUME NEW a \in Run, AppMonitorReturns(a) \/ Forward(a) PROVE TypeOK'
  <2>1. CASE AppMonitorReturns(a)
    BY <2>1 DEF AppMonitorReturns, clusterVars, informerVars, outVars
  <2>2. CASE Forward(a)
    <3>1. forwarding' \in [Run -> StatusType] /\ delivered' \in StatusType
      BY <1>0, <2>2 DEF Forward
    <3> QED
      BY <2>2, <3>1 DEF Forward, clusterVars, monitorVars, informerVars
  <2> QED
    BY <1>7, <2>1, <2>2
<1>8. ASSUME NEW r \in Run, SendReset(r) \/ SendStatus(r) PROVE TypeOK'
  <2>1. forwarding' \in [Run -> StatusType]
    BY <1>8, StatusOfType DEF SendReset, SendStatus, Forwarder
  <2> QED
    BY <1>8, <2>1
    DEF SendReset, SendStatus, RunStep, clusterVars, monitorVars, informerVars
<1>9. ASSUME NEW r \in Run, StartControllers(r) PROVE TypeOK'
  <2>1. [x \in Watched |-> x \in Followed /\ Exists(cluster[x])] \in [Watched -> BOOLEAN]
    OBVIOUS
  <2> QED
    BY <1>9, <2>1 DEF StartControllers, RunStep, clusterVars, monitorVars, outVars
<1>10. ASSUME NEW r \in Run, NEW x \in Watched, ReceiveState(r, x) PROVE TypeOK'
  <2>1. rs' \in [Run -> [Resource -> Object]]
    BY <1>10 DEF ReceiveState, Resource
  <2> QED
    BY <1>10, <2>1 DEF ReceiveState, RunStep, clusterVars, monitorVars, outVars
<1>11. ASSUME NEW r \in Run, ShutdownWait(r) \/ Cancelled(r) PROVE TypeOK'
  BY <1>11
  DEF ShutdownWait, Cancelled, RunStep, clusterVars, monitorVars, informerVars, outVars
<1>12. CASE Panic
  BY <1>12 DEF Panic, clusterVars, informerVars, outVars
<1> QED
  BY <1>1, <1>2, <1>3, <1>4, <1>5, <1>6, <1>7, <1>8, <1>9, <1>10, <1>11, <1>12
  DEF Next, Loop

\* The type invariant holds for every set of resources and number of runs.
THEOREM TypeCorrect == Spec => []TypeOK
<1>1. Init => TypeOK
  <2> SUFFICES ASSUME Init PROVE TypeOK
    OBVIOUS
  <2> USE BoundsAssumption DEF Init
  <2>1. Absent \in Object /\ NoStatus \in StatusType
    BY DEF Absent, Object, NoStatus, StatusType, State
  <2>2. cluster \in [Resource -> Object]
    <3>1. {[ver |-> 1, state |-> s] : s \in {"missing", "ready"}} \subseteq Object
      BY DEF Object, State
    <3> QED
      BY <3>1
  <2>3. 1 \in Run
    BY DEF Run
  <2>4. /\ rs \in [Run -> [Resource -> Object]]
        /\ cache \in [Run -> [Watched -> Object]]
        /\ hVal \in [Run -> [Watched -> Object]]
        /\ behind \in [Run -> [Watched -> BOOLEAN]]
        /\ hPC \in [Run -> [Watched -> {"off", "idle", "sending", "stopped"}]]
        /\ forwarding \in [Run -> StatusType]
    BY <2>1 DEF AllMissing
  <2>5. missed \in [Run -> SUBSET Watched]
    OBVIOUS
  <2>6. /\ informers \subseteq Resource
        /\ applied \in Run /\ owner \in [Run -> Run]
        /\ delivered \in StatusType
    BY <2>1, <2>3
  <2>7. /\ appMonitor \in [Run -> {"none", "up", "cancelled", "closed"}]
        /\ ctxDone \in [Run -> BOOLEAN]
        /\ runPC \in [Run -> RunStep]
    BY DEF RunStep
  <2>8. /\ monitor \in {"up", "cancelled", "closed"}
        /\ crashed \in BOOLEAN
    OBVIOUS
  <2>9. changes \in 0..MaxChanges
    <3>1. changes = 0
      OBVIOUS
    <3> HIDE DEF Init
    <3> QED
      BY <3>1
  <2> QED
    BY <2>2, <2>4, <2>5, <2>6, <2>7, <2>8, <2>9 DEF TypeOK
<1> QED
  BY <1>1, TypeInvariant, PTL DEF Spec

-----------------------------------------------------------------------------
(***************************************************************************)
(* The inductive invariant.  The handlers of a run live only while the run *)
(* can receive from them.  The AppMonitor in charge is up for as long as   *)
(* the monitor is.  What a handler sends is never older than what the run  *)
(* has of that resource: it is the object as it was cached, or as it is    *)
(* now.  What the operator has of a run is never newer than what a         *)
(* forwarder holds of it, nor is that newer than what the run has.         *)
(***************************************************************************)
RunsInv ==
    /\ \A r \in Run : r > applied => runPC[r] = "none"
    /\ \A r \in Run, x \in Watched :
          hPC[r][x] # "off" => runPC[r] \in {"select", "send", "wait", "done"}
    /\ \A r \in Run, x \in Watched :
          hPC[r][x] = "sending" => x \in Followed /\ runPC[r] # "done"
    /\ \A r \in Run, x \in Watched :
          hPC[r][x] = "idle" => x \in Followed /\ runPC[r] # "done"

MonitorInv ==
    /\ owner[applied] = 1 => \A r \in Run : owner[r] = 1
    /\ appMonitor[owner[applied]] \in {"cancelled", "closed"} => monitor = "closed"
    /\ NoSendOnClosed

HandlerInv(r, x) ==
    /\ rs[r][x].ver <= cluster[x].ver
    /\ cache[r][x].ver <= cluster[x].ver
    /\ hPC[r][x] = "sending" => rs[r][x].ver <= hVal[r][x].ver
    /\ hPC[r][x] = "sending" => hVal[r][x].ver <= cluster[x].ver
    /\ hPC[r][x] = "off" => ~Exists(cache[r][x])
    /\ x \in Direct /\ Exists(cache[r][x]) => rs[r][x].ver <= cache[r][x].ver
    /\ x \in Direct /\ Exists(cache[r][x]) /\ hPC[r][x] = "sending" =>
          hVal[r][x].ver <= cache[r][x].ver
    /\ x \in Derived /\ Exists(cache[r][x]) /\ hPC[r][x] \notin {"off", "stopped"} =>
          behind[r][x] \/ Exists(cluster[x])

VersionInv == \A r \in Run, x \in Watched : HandlerInv(r, x)

NotNewer(s, t) == \A x \in Resource : s[x].ver <= t[x].ver

FlowInv ==
    /\ delivered.run <= applied
    /\ delivered.run # 0 => NotNewer(delivered.states, rs[delivered.run])
    /\ \A a \in Run : forwarding[a] # NoStatus =>
          /\ forwarding[a].run \in 1..applied
          /\ owner[forwarding[a].run] = a
          /\ NotNewer(forwarding[a].states, rs[forwarding[a].run])
          /\ delivered.run = forwarding[a].run =>
                NotNewer(delivered.states, forwarding[a].states)

IInv == RunsInv /\ MonitorInv /\ VersionInv /\ FlowInv

\* Every step keeps the handlers within the life of their run.
LEMMA RunsInvariant ==
    ASSUME TypeOK, RunsInv, [Next]_vars
    PROVE  RunsInv'
<1>0. /\ runPC \in [Run -> RunStep] /\ applied \in Run
      /\ hPC \in [Run -> [Watched -> {"off", "idle", "sending", "stopped"}]]
  BY DEF TypeOK
<1>1. CASE UNCHANGED <<informers, applied, runPC, hPC>>
  BY <1>1 DEF RunsInv, Followed
<1>2. ASSUME NEW r \in Run, NEW x \in Watched, Handler(r, x) PROVE RunsInv'
  <2>1. UNCHANGED <<informers, applied, runPC>>
    BY <1>2 DEF Handler, ObjectUpdated, ObjectDeleted, Resync, StopInformer,
                clusterVars, monitorVars
  <2>2. \/ hPC' = hPC
        \/ /\ hPC[r][x] = "idle"
           /\ \E step \in {"sending", "stopped"} : hPC' = [hPC EXCEPT ![r][x] = step]
    BY <1>2 DEF Handler, ObjectUpdated, ObjectDeleted, Resync, StopInformer, Ready, Sending
  <2>3. CASE hPC' = hPC
    BY <2>1, <2>3, <1>1
  <2>4. ASSUME NEW step \in {"sending", "stopped"}, hPC[r][x] = "idle",
               hPC' = [hPC EXCEPT ![r][x] = step]
        PROVE  RunsInv'
    BY <1>0, <2>1, <2>4 DEF RunsInv, Followed
  <2> QED
    BY <2>2, <2>3, <2>4
<1>3. ASSUME NEW sameSequence \in BOOLEAN, Apply(sameSequence) PROVE RunsInv'
  <2>1. applied + 1 \in Run /\ runPC[applied + 1] = "none"
    BY <1>0, <1>3, BoundsAssumption DEF Apply, RunsInv, Run
  <2>2. /\ applied' = applied + 1
        /\ runPC' = [runPC EXCEPT ![applied + 1] = "reset"]
        /\ UNCHANGED <<hPC, informers>>
    BY <1>3 DEF Apply, informerVars
  <2> QED
    BY <1>0, <2>1, <2>2, BoundsAssumption DEF RunsInv, Followed, Run
\* A run that goes on to another step of its life, with all its handlers.
<1>4. ASSUME NEW r \in Run, UNCHANGED <<informers, applied, hPC>>,
             NEW step \in {"start", "select", "send", "wait"},
             runPC' = [runPC EXCEPT ![r] = step],
             runPC[r] \in IF step = "start" THEN {"reset"} ELSE {"select", "send"}
      PROVE  RunsInv'
  BY <1>0, <1>4 DEF RunsInv, Followed
<1>5. ASSUME NEW r \in Run, SendReset(r) \/ SendStatus(r) \/ Cancelled(r)
      PROVE  RunsInv'
  BY <1>4, <1>5 DEF SendReset, SendStatus, Cancelled, clusterVars, monitorVars, informerVars
<1>6. ASSUME NEW r \in Run, StartControllers(r) PROVE RunsInv'
  BY <1>0, <1>6 DEF StartControllers, clusterVars, monitorVars, RunsInv, Followed
<1>7. ASSUME NEW r \in Run, NEW x \in Watched, ReceiveState(r, x) PROVE RunsInv'
  BY <1>0, <1>7 DEF ReceiveState, clusterVars, monitorVars, RunsInv, Followed
<1>8. ASSUME NEW r \in Run, ShutdownWait(r) PROVE RunsInv'
  <2>1. /\ UNCHANGED <<informers, applied, hPC>>
        /\ runPC[r] = "wait" /\ runPC' = [runPC EXCEPT ![r] = "done"]
        /\ \A x \in Followed : hPC[r][x] = "stopped"
    BY <1>8 DEF ShutdownWait, clusterVars, monitorVars, informerVars
  <2>2. \A x \in Watched : hPC[r][x] \notin {"idle", "sending"}
    BY <2>1 DEF RunsInv
  <2> QED
    BY <1>0, <2>1, <2>2 DEF RunsInv, Followed
<1> QED
  BY <1>1, <1>2, <1>3, <1>5, <1>6, <1>7, <1>8
  DEF Next, Loop, vars, clusterVars, monitorVars, informerVars, Change, Shutdown,
      MonitorReturns, Panic, AppMonitorReturns, Forward

\* Every step keeps the AppMonitor in charge up for as long as the monitor is,
\* and the process alive until the monitor ends or a sequence is replaced.
LEMMA MonitorInvariant ==
    ASSUME TypeOK, RunsInv, MonitorInv, [Next]_vars
    PROVE  MonitorInv'
<1> USE BoundsAssumption DEF TypeOK, MonitorInv, NoSendOnClosed
<1>1. CASE UNCHANGED monitorVars
  BY <1>1 DEF monitorVars
<1>2. ASSUME NEW sameSequence \in BOOLEAN, Apply(sameSequence), ~crashed
      PROVE  MonitorInv'
  <2>1. /\ applied + 1 \in Run /\ applied + 1 # 1
        /\ applied' = applied + 1 /\ UNCHANGED <<crashed, monitor>>
        /\ monitor # "closed"
    BY <1>2 DEF Apply, Run
  <2>2. CASE owner' = [owner EXCEPT ![applied + 1] = owner[applied]]
             /\ UNCHANGED appMonitor
    BY <1>2, <2>1, <2>2
  <2>3. CASE /\ owner' = [owner EXCEPT ![applied + 1] = applied + 1]
             /\ appMonitor' = [appMonitor EXCEPT ![owner[applied]] = "cancelled",
                                                 ![applied + 1] = "up"]
    BY <1>2, <2>1, <2>3
  <2> QED
    BY <1>2, <2>2, <2>3 DEF Apply
<1>3. CASE Shutdown /\ ~crashed
  BY <1>3 DEF Shutdown
<1>4. CASE MonitorReturns /\ ~crashed
  BY <1>4 DEF MonitorReturns
<1>5. ASSUME NEW a \in Run, AppMonitorReturns(a), ~crashed PROVE MonitorInv'
  BY <1>5 DEF AppMonitorReturns
<1>6. CASE Panic
  <2>1. ASSUME NEW r \in Run, appMonitor[owner[r]] = "closed"
        PROVE  monitor = "closed" \/ owner[applied] # 1
    BY <2>1
  <2>2. ~\E r \in Run, x \in Watched : hPC[r][x] = "sending" /\ runPC[r] = "done"
    BY DEF RunsInv
  <2>3. monitor = "closed" \/ owner[applied] # 1
    BY <1>6, <2>1, <2>2 DEF Panic, SendsOnClosed
  <2> QED
    BY <1>6, <2>3 DEF Panic
<1>7. ASSUME NEW r \in Run, Loop(r) \/ Cancelled(r) PROVE UNCHANGED monitorVars
  BY <1>7 DEF Loop, SendReset, StartControllers, ReceiveState, SendStatus,
              ShutdownWait, Cancelled, monitorVars
<1>8. ASSUME NEW r \in Run, NEW x \in Watched, Handler(r, x)
      PROVE  UNCHANGED monitorVars
  BY <1>8 DEF Handler, ObjectUpdated, ObjectDeleted, Resync, StopInformer, monitorVars
<1> QED
  BY <1>1, <1>2, <1>3, <1>4, <1>5, <1>6, <1>7, <1>8
  DEF Next, Change, Forward, vars, monitorVars

-----------------------------------------------------------------------------
\* A handler is disturbed only through its own run and its own resource.
LEMMA HandlerUndisturbed ==
    ASSUME NEW r \in Run, NEW x \in Watched, HandlerInv(r, x),
           cluster' = cluster,
           rs'[r][x] = rs[r][x], cache'[r][x] = cache[r][x], hPC'[r][x] = hPC[r][x],
           hVal'[r][x] = hVal[r][x], behind'[r][x] = behind[r][x]
    PROVE  HandlerInv(r, x)'
BY DEF HandlerInv

\* Every step keeps the versions in order, from a run back to the cluster.
LEMMA VersionInvariant ==
    ASSUME TypeOK, RunsInv, VersionInv, [Next]_vars
    PROVE  VersionInv'
<1> SUFFICES ASSUME NEW r \in Run, NEW x \in Watched PROVE HandlerInv(r, x)'
  BY DEF VersionInv
<1> USE ResourcesAssumption DEF TypeOK
<1>0. /\ HandlerInv(r, x) /\ x \in Resource
      /\ \A y \in Resource : cluster[y].ver \in Nat
      /\ rs[r][x].ver \in Nat /\ cache[r][x].ver \in Nat /\ hVal[r][x].ver \in Nat
      /\ hPC[r][x] \in {"off", "idle", "sending", "stopped"}
  BY DEF VersionInv, Resource, Object
<1>1. CASE UNCHANGED <<cluster, informerVars, rs>>
  BY <1>0, <1>1, HandlerUndisturbed DEF informerVars
<1>2. ASSUME NEW y \in Followed, NEW s \in ClusterState, Change(y, s)
      PROVE  HandlerInv(r, x)'
  <2>1. /\ UNCHANGED <<rs, cache, hPC, hVal>>
        /\ cluster' = [cluster EXCEPT ![y] = [ver |-> cluster[y].ver + 1, state |-> s]]
        /\ y \in Resource
    BY <1>2 DEF Change, Followed, Resource
  <2>2. /\ cluster'[x].ver \in Nat
        /\ cluster[x].ver <= cluster'[x].ver
    BY <1>0, <2>1
  <2>3. x \in Derived /\ Exists(cache[r][x]) /\ hPC[r][x] \notin {"off", "stopped"} =>
          behind'[r][x] \/ Exists(cluster'[x])
    <3>1. CASE behind' = [q \in Run |->
                [behind[q] EXCEPT ![y] = @ \/ hPC[q][y] \notin {"off", "stopped"}]]
      <4>1. CASE y = x
        BY <3>1, <4>1
      <4>2. CASE y # x
        BY <1>0, <2>1, <3>1, <4>2 DEF HandlerInv
      <4> QED
        BY <4>1, <4>2
    <3>2. CASE s # "missing" /\ UNCHANGED behind
      <4>1. CASE y = x
        BY <1>0, <2>1, <3>2, <4>1 DEF Exists
      <4>2. CASE y # x
        BY <1>0, <2>1, <3>2, <4>2 DEF HandlerInv
      <4> QED
        BY <4>1, <4>2
    <3> QED
      BY <1>2, <3>1, <3>2 DEF Change
  <2>4. /\ rs[r][x].ver <= cluster'[x].ver /\ cache[r][x].ver <= cluster'[x].ver
        /\ hPC[r][x] = "sending" => hVal[r][x].ver <= cluster'[x].ver
    BY <1>0, <2>2 DEF HandlerInv
  <2> QED
    BY <1>0, <2>1, <2>3, <2>4 DEF HandlerInv
<1>3. ASSUME NEW q \in Run, NEW y \in Watched, Handler(q, y)
      PROVE  HandlerInv(r, x)'
  <2>1. cluster' = cluster /\ rs' = rs
    BY <1>3 DEF Handler, ObjectUpdated, ObjectDeleted, Resync, StopInformer, clusterVars
  <2>2. CASE q # r \/ y # x
    <3>1. /\ cache'[r][x] = cache[r][x] /\ hPC'[r][x] = hPC[r][x]
          /\ hVal'[r][x] = hVal[r][x] /\ behind'[r][x] = behind[r][x]
      BY <1>3, <2>2 DEF Handler, ObjectUpdated, ObjectDeleted, Resync, StopInformer, Sending
    <3> QED
      BY <1>0, <2>1, <3>1, HandlerUndisturbed
  <2>3. CASE q = r /\ y = x
    <3>1. CASE ObjectUpdated(r, x)
      <4>1. /\ cache'[r][x] = cluster[x] /\ hVal'[r][x] = cluster[x]
            /\ hPC'[r][x] = "sending" /\ Exists(cluster[x])
        BY <3>1 DEF ObjectUpdated, Sending
      <4> QED
        BY <1>0, <2>1, <4>1 DEF HandlerInv
    <3>2. CASE ObjectDeleted(r, x)
      <4>1. /\ cache'[r][x] = Absent
            /\ \/ hVal'[r][x] = cluster[x] /\ hPC'[r][x] = "sending"
               \/ hPC'[r][x] = "idle" /\ hVal'[r][x] = hVal[r][x]
        BY <3>2 DEF ObjectDeleted, Sending, Ready
      <4> QED
        BY <1>0, <2>1, <4>1 DEF HandlerInv, Absent, Exists
    <3>3. CASE Resync(r, x)
      <4>1. /\ UNCHANGED <<cache, behind>>
            /\ hVal'[r][x] = ResyncState(r, x)
            /\ hPC'[r][x] = "sending" /\ hPC[r][x] = "idle"
            /\ ~behind[r][x] /\ Exists(cache[r][x])
        BY <3>3 DEF Resync, Sending, Ready
      <4>2. CASE x \in Derived
        <5>1. ResyncState(r, x) = cluster[x] /\ x \notin Direct
          BY <1>0, <4>1, <4>2 DEF ResyncState, HandlerInv
        <5> QED
          BY <1>0, <2>1, <4>1, <5>1 DEF HandlerInv
      <4>3. CASE x \in Direct
        <5>1. ResyncState(r, x) = cache[r][x] /\ x \notin Derived
          BY <4>3 DEF ResyncState
        <5> QED
          BY <1>0, <2>1, <4>1, <4>3, <5>1 DEF HandlerInv
      <4> QED
        BY <4>2, <4>3 DEF Watched
    <3>4. CASE StopInformer(r, x)
      <4>1. /\ UNCHANGED <<cache, behind, hVal>>
            /\ hPC'[r][x] = "stopped" /\ hPC[r][x] = "idle"
        BY <3>4 DEF StopInformer
      <4> QED
        BY <1>0, <2>1, <4>1 DEF HandlerInv
    <3> QED
      BY <1>3, <2>3, <3>1, <3>2, <3>3, <3>4 DEF Handler
  <2> QED
    BY <2>2, <2>3
<1>4. ASSUME NEW q \in Run, StartControllers(q) PROVE HandlerInv(r, x)'
  <2>1. UNCHANGED <<cluster, rs, cache, hVal>>
    BY <1>4 DEF StartControllers, clusterVars
  <2>2. CASE q # r
    <3>1. hPC'[r][x] = hPC[r][x] /\ behind'[r][x] = behind[r][x]
      BY <1>4, <2>2 DEF StartControllers
    <3> QED
      BY <1>0, <2>1, <3>1, HandlerUndisturbed
  <2>3. CASE q = r
    <3>1. hPC[r][x] = "off" /\ hPC'[r][x] \in {"idle", "off"}
      BY <1>4, <2>3 DEF StartControllers, RunsInv
    <3> QED
      BY <1>0, <2>1, <3>1 DEF HandlerInv
  <2> QED
    BY <2>2, <2>3
<1>5. ASSUME NEW q \in Run, NEW y \in Watched, ReceiveState(q, y)
      PROVE  HandlerInv(r, x)'
  <2>1. UNCHANGED <<cluster, cache, behind, hVal>>
    BY <1>5 DEF ReceiveState, clusterVars
  <2>2. CASE q # r \/ y # x
    <3>1. rs'[r][x] = rs[r][x] /\ hPC'[r][x] = hPC[r][x]
      BY <1>0, <1>5, <2>2 DEF ReceiveState, Resource
    <3> QED
      BY <1>0, <2>1, <3>1, HandlerUndisturbed
  <2>3. CASE q = r /\ y = x
    <3>1. /\ rs'[r][x] = hVal[r][x]
          /\ hPC[r][x] = "sending" /\ hPC'[r][x] = "idle"
      BY <1>0, <1>5, <2>3 DEF ReceiveState, Resource
    <3> QED
      BY <1>0, <2>1, <3>1 DEF HandlerInv
  <2> QED
    BY <2>2, <2>3
<1> QED
  BY <1>1, <1>2, <1>3, <1>4, <1>5
  DEF Next, Loop, vars, clusterVars, informerVars, Apply, Shutdown, MonitorReturns,
      AppMonitorReturns, Forward, Panic, Cancelled, SendReset, SendStatus, ShutdownWait

-----------------------------------------------------------------------------
\* What a run has of a resource is only ever replaced by something newer.
LEMMA RunForward ==
    ASSUME TypeOK, VersionInv, [Next]_vars, NEW r \in Run
    PROVE  NotNewer(rs[r], rs'[r])
<1> SUFFICES ASSUME NEW x \in Resource PROVE rs[r][x].ver <= rs'[r][x].ver
  BY DEF NotNewer
<1>0. rs[r][x].ver \in Nat
  BY DEF TypeOK, Object
<1>1. CASE UNCHANGED rs
  BY <1>0, <1>1
<1>2. ASSUME NEW q \in Run, NEW y \in Watched, ReceiveState(q, y)
      PROVE  rs[r][x].ver <= rs'[r][x].ver
  <2>1. rs' = [rs EXCEPT ![q][y] = hVal[q][y]] /\ hPC[q][y] = "sending"
    BY <1>2 DEF ReceiveState
  <2>2. rs[q][y].ver <= hVal[q][y].ver
    BY <2>1 DEF VersionInv, HandlerInv
  <2>3. CASE q = r /\ y = x
    BY <2>1, <2>2, <2>3 DEF TypeOK
  <2>4. CASE q # r \/ y # x
    <3>1. rs'[r][x] = rs[r][x]
      BY <2>1, <2>4 DEF TypeOK
    <3> QED
      BY <1>0, <3>1
  <2> QED
    BY <2>3, <2>4
<1> QED
  BY <1>1, <1>2
  DEF Next, Loop, vars, Change, Handler, ObjectUpdated, ObjectDeleted, Resync,
      StopInformer, Apply, Shutdown, MonitorReturns, AppMonitorReturns, Forward,
      Panic, Cancelled, SendReset, StartControllers, SendStatus, ShutdownWait

\* "Not newer" is transitive on the statuses of the resources.
LEMMA NotNewerTransitive ==
    ASSUME NEW s \in [Resource -> Object], NEW t \in [Resource -> Object],
           NEW u \in [Resource -> Object], NotNewer(s, t), NotNewer(t, u)
    PROVE  NotNewer(s, u)
BY DEF NotNewer, Object

\* A step that gives the operator and the forwarders nothing new keeps what
\* they have behind what the runs have.
LEMMA FlowUndisturbed ==
    ASSUME TypeOK, VersionInv, FlowInv, [Next]_vars, UNCHANGED outVars,
           applied' \in Run, applied <= applied',
           \A r \in 1..applied : owner'[r] = owner[r]
    PROVE  FlowInv'
<1>0. /\ delivered' = delivered /\ forwarding' = forwarding
      /\ applied \in Nat /\ applied' \in Nat /\ applied <= MaxApplies
      /\ delivered \in StatusType /\ delivered.run \in Nat
      /\ \A a \in Run : forwarding[a] \in StatusType
  <2>1. delivered' = delivered /\ forwarding' = forwarding
    BY DEF outVars
  <2>2. applied \in Run /\ applied' \in Run
    BY DEF TypeOK
  <2>3. delivered \in StatusType /\ \A a \in Run : forwarding[a] \in StatusType
    BY DEF TypeOK
  <2>4. delivered.run \in Nat
    BY <2>3, BoundsAssumption DEF StatusType
  <2> QED
    BY <2>1, <2>2, <2>3, <2>4, BoundsAssumption DEF Run
<1>1. ASSUME NEW s \in StatusType, s.run \in Run, NotNewer(s.states, rs[s.run])
      PROVE  NotNewer(s.states, rs'[s.run])
  <2>1. NotNewer(rs[s.run], rs'[s.run])
    BY <1>1, RunForward
  <2>2. /\ s.states \in [Resource -> Object]
        /\ rs[s.run] \in [Resource -> Object]
        /\ rs'[s.run] \in [Resource -> Object]
    BY <1>1, TypeInvariant DEF StatusType, TypeOK
  <2> QED
    BY <1>1, <2>1, <2>2, NotNewerTransitive
<1>2. delivered.run # 0 => NotNewer(delivered.states, rs'[delivered.run])
  <2>1. delivered.run # 0 => delivered.run \in Run
    BY <1>0, BoundsAssumption DEF StatusType, Run
  <2> QED
    BY <1>0, <1>1, <2>1 DEF FlowInv
<1>3. ASSUME NEW a \in Run, forwarding[a] # NoStatus
      PROVE  /\ forwarding[a].run \in 1..applied'
             /\ owner'[forwarding[a].run] = a
             /\ NotNewer(forwarding[a].states, rs'[forwarding[a].run])
  <2>1. /\ forwarding[a].run \in 1..applied
        /\ owner[forwarding[a].run] = a
        /\ NotNewer(forwarding[a].states, rs[forwarding[a].run])
    BY <1>3 DEF FlowInv
  <2>2. forwarding[a].run \in Run /\ forwarding[a].run \in 1..applied'
    <3>1. 1..applied \subseteq Run /\ 1..applied \subseteq 1..applied'
      BY <1>0, BoundsAssumption DEF Run
    <3> QED
      BY <2>1, <3>1
  <2>3. owner'[forwarding[a].run] = a
    BY <2>1
  <2>4. forwarding[a] \in StatusType
    BY <1>0
  <2> QED
    BY <1>1, <2>1, <2>2, <2>3, <2>4
<1> QED
  BY <1>0, <1>2, <1>3 DEF FlowInv

\* Every step keeps what the operator has behind what is on its way to it.
LEMMA FlowInvariant ==
    ASSUME TypeOK, RunsInv, VersionInv, FlowInv, [Next]_vars
    PROVE  FlowInv'
<1>1. CASE UNCHANGED <<applied, owner, outVars>>
  <2>1. applied' = applied /\ owner' = owner /\ UNCHANGED outVars
    BY <1>1
  <2>2. applied \in Run /\ applied \in Int
    BY BoundsAssumption DEF TypeOK, Run
  <2> QED
    BY <2>1, <2>2, FlowUndisturbed
<1> USE BoundsAssumption DEF TypeOK, StatusType
<1>2. ASSUME NEW sameSequence \in BOOLEAN, Apply(sameSequence) PROVE FlowInv'
  <2>1. applied' = applied + 1 /\ applied + 1 \in Run /\ UNCHANGED outVars
    BY <1>2 DEF Apply, Run
  <2>2. \E a : owner' = [owner EXCEPT ![applied + 1] = a]
    BY <1>2 DEF Apply
  <2>3. applied' \in Run /\ applied <= applied' /\ \A r \in 1..applied : owner'[r] = owner[r]
    BY <2>1, <2>2 DEF Run
  <2> HIDE DEF TypeOK
  <2> QED
    BY <2>1, <2>3, FlowUndisturbed
<1>3. ASSUME NEW r \in Run, SendReset(r) \/ SendStatus(r) PROVE FlowInv'
  <2>1. /\ UNCHANGED <<applied, owner, delivered, rs>>
        /\ forwarding' = [forwarding EXCEPT ![owner[r]] = StatusOf(r)]
        /\ runPC[r] # "none"
    BY <1>3 DEF SendReset, SendStatus, Forwarder, clusterVars, monitorVars
  <2>2. r \in 1..applied
    BY <2>1 DEF RunsInv, Run
  <2>3. /\ StatusOf(r).run = r /\ StatusOf(r).states = rs[r]
        /\ NotNewer(rs[r], rs[r])
        /\ delivered.run = r => NotNewer(delivered.states, rs[r])
    BY <2>2, StatusOfType DEF FlowInv, NotNewer, Object
  <2>4. ASSUME NEW a \in Run, forwarding'[a] # NoStatus
        PROVE  /\ forwarding'[a].run \in 1..applied
               /\ owner[forwarding'[a].run] = a
               /\ NotNewer(forwarding'[a].states, rs[forwarding'[a].run])
               /\ delivered.run = forwarding'[a].run =>
                     NotNewer(delivered.states, forwarding'[a].states)
    <3>1. CASE a = owner[r]
      BY <2>1, <2>2, <2>3, <3>1
    <3>2. CASE a # owner[r]
      BY <2>1, <2>4, <3>2 DEF FlowInv
    <3> QED
      BY <3>1, <3>2
  <2> QED
    BY <2>1, <2>4 DEF FlowInv
<1>4. ASSUME NEW b \in Run, Forward(b) PROVE FlowInv'
  <2>1. /\ UNCHANGED <<applied, owner, rs>>
        /\ forwarding[b] # NoStatus
        /\ delivered' = forwarding[b]
        /\ forwarding' = [forwarding EXCEPT ![b] = NoStatus]
    BY <1>4 DEF Forward, clusterVars, monitorVars
  <2>2. /\ delivered'.run \in 1..applied
        /\ NotNewer(delivered'.states, rs[delivered'.run])
    BY <2>1 DEF FlowInv
  <2>3. ASSUME NEW a \in Run, forwarding'[a] # NoStatus
        PROVE  /\ a # b /\ forwarding'[a] = forwarding[a]
               /\ forwarding[a].run # delivered'.run
    <3>1. a # b /\ forwarding'[a] = forwarding[a]
      BY <2>1, <2>3
    <3>2. owner[forwarding[a].run] = a /\ owner[forwarding[b].run] = b
      BY <2>1, <2>3, <3>1 DEF FlowInv
    <3> QED
      BY <2>1, <3>1, <3>2
  <2> QED
    BY <2>1, <2>2, <2>3 DEF FlowInv
<1>5. ASSUME NEW r \in Run, StartControllers(r) \/ ShutdownWait(r) \/ Cancelled(r)
             \/ \E x \in Watched : ReceiveState(r, x) \/ Handler(r, x)
      PROVE  UNCHANGED <<applied, owner, outVars>>
  BY <1>5 DEF StartControllers, ShutdownWait, Cancelled, ReceiveState, Handler,
     ObjectUpdated, ObjectDeleted, Resync, StopInformer, monitorVars
<1> QED
  BY <1>1, <1>2, <1>3, <1>4, <1>5
  DEF Next, Loop, vars, monitorVars, outVars, Change, Shutdown, MonitorReturns,
      AppMonitorReturns, Panic

\* IInv holds in every reachable state.
THEOREM Invariance == Spec => [](TypeOK /\ IInv)
<1>1. Init => IInv
  <2> SUFFICES ASSUME Init PROVE IInv
    OBVIOUS
  <2>1. RunsInv
    BY BoundsAssumption DEF Init, RunsInv, Run
  <2>2. MonitorInv
    BY BoundsAssumption DEF Init, MonitorInv, NoSendOnClosed, Run
  <2>3. VersionInv
    <3>1. \A x \in Watched : x \in Resource /\ cluster[x].ver = 1
      BY DEF Init, Resource
    <3>2. \A r \in Run, x \in Watched :
             /\ rs[r][x] = Absent /\ cache[r][x] = Absent /\ hPC[r][x] = "off"
      BY <3>1 DEF Init, AllMissing
    <3> QED
      BY <3>1, <3>2 DEF VersionInv, HandlerInv, Absent, Exists
  <2>4. FlowInv
    <3>1. applied = 1 /\ delivered.run = 0 /\ \A a \in Run : forwarding[a] = NoStatus
      BY DEF Init, NoStatus
    <3> QED
      BY <3>1 DEF FlowInv
  <2> QED
    BY <2>1, <2>2, <2>3, <2>4 DEF IInv
<1>2. TypeOK /\ IInv /\ [Next]_vars => IInv'
  BY RunsInvariant, MonitorInvariant, VersionInvariant, FlowInvariant DEF IInv
<1> QED
  BY <1>1, <1>2, TypeCorrect, TypeInvariant, PTL DEF Spec

\* A send on a closed channel ends the process only after the monitor ended or
\* another sequence replaced an AppMonitor, whatever the handlers, the runs and
\* the calls of Apply do.
THEOREM SendsOnOpen == Spec => []NoSendOnClosed
<1>1. IInv => NoSendOnClosed
  BY DEF IInv, MonitorInv
<1> QED
  BY <1>1, Invariance, PTL

\* From one status of a run to the next no resource goes back, for any set of
\* resources and any interleaving of events, resyncs, sends and calls of Apply.
THEOREM StatusesForward == Spec => StatesMoveForward
<1>1. TypeOK /\ IInv /\ [Next]_vars =>
        [delivered'.run = delivered.run =>
           \A x \in Resource : delivered.states[x].ver <= delivered'.states[x].ver]_vars
  <2> SUFFICES ASSUME TypeOK, IInv, Next, delivered'.run = delivered.run
               PROVE  \A x \in Resource : delivered.states[x].ver <= delivered'.states[x].ver
    OBVIOUS
  <2>1. CASE UNCHANGED delivered
    BY <2>1 DEF TypeOK, StatusType, Object
  <2>2. ASSUME NEW a \in Run, Forward(a)
        PROVE  NotNewer(delivered.states, delivered'.states)
    BY <2>2 DEF Forward, IInv, FlowInv
  <2> QED
    BY <2>1, <2>2
    DEF Next, Loop, NotNewer, outVars, Change, Handler, ObjectUpdated, ObjectDeleted,
        Resync, StopInformer, Apply, Shutdown, MonitorReturns, AppMonitorReturns,
        Panic, Cancelled, SendReset, StartControllers, ReceiveState, SendStatus,
        ShutdownWait
<1> QED
  BY <1>1, Invariance, PTL DEF Spec, StatesMoveForward

-----------------------------------------------------------------------------
(***************************************************************************)
(* What the states of resources say: when each calculator answers ready.   *)
(***************************************************************************)

\* A state of a resource that is there.
Told == State \ {"missing"}

\* MinState is ready where every state there is is ready.
LEMMA MinStateReady ==
    ASSUME NEW S
    PROVE  /\ MinState(S) = "ready" <=> S \cap State = {"ready"}
           /\ S # {} /\ S \subseteq Told \cup {NoState} => MinState(S) \in Told \cup {NoState}
           /\ S \cap Told # {} /\ S \subseteq Told \cup {NoState} => MinState(S) \in Told
<1>1. CASE S \cap State = {}
  BY <1>1 DEF MinState, NoState, Told
<1>2. CASE S \cap State # {}
  <2>1. MinState(S) \in S \cap State /\ \A t \in S \cap State : AtLeast(t, MinState(S))
    BY <1>2, MinStateIsWorst
  <2>2. \A t \in State : AtLeast(t, "ready") => t = "ready"
    BY RankOfState DEF AtLeast, State
  <2>3. NoState \notin State
    BY DEF NoState, State
  <2> QED
    BY <2>1, <2>2, <2>3 DEF Told
<1> QED
  BY <1>1, <1>2

\* So is an app, if it watches anything.
LEMMA GetStateReady ==
    ASSUME NEW S, S # {}, S \subseteq Told \cup {NoState}
    PROVE  /\ GetState(S) \in Told
           /\ GetState(S) = "ready" <=> S \cap State \subseteq {"ready"}
<1> DEFINE T == S \cup {"ready"}
<1>1. T \cap Told # {} /\ T \subseteq Told \cup {NoState} /\ GetState(S) = MinState(T)
  <2>1. "ready" \in Told
    BY DEF Told, State
  <2> QED
    BY <2>1 DEF GetState
<1>2. T \cap State = {"ready"} <=> S \cap State \subseteq {"ready"}
  BY DEF State
<1> HIDE DEF T
<1> QED
  BY <1>1, <1>2, MinStateReady

\* A port is ready if there are slices of it, each with ready endpoints only, and
\* no endpoint without ports is down.
LEMMA PortReady ==
    ASSUME NEW S, NEW p
    PROVE  /\ PortState(S, p) \in Told
           /\ PortState(S, p) = "ready" <=>
                 /\ \E s \in S : p \in s.ports
                 /\ \A s \in S : p \in s.ports => s.endpoints = {"yes"}
                 /\ \A s \in S : s.ports = {} => "no" \notin s.endpoints
<1> DEFINE matching == {s \in S : p \in s.ports}
           down == \E s \in {s \in S : s.ports = {}} : "no" \in s.endpoints
           A == {SlicePortState(s) : s \in matching}
           B == IF down THEN {"degraded"} ELSE {}
<1>1. \A s : /\ SlicePortState(s) \in Told
             /\ SlicePortState(s) = "ready" <=> s.endpoints = {"yes"}
  BY DEF SlicePortState, Told, State
<1>2. CASE matching = {}
  BY <1>2 DEF PortState, Told, State
<1>3. CASE matching # {}
  <2>1. PortState(S, p) = MinState(A \cup B)
    BY <1>3 DEF PortState
  <2>2. (A \cup B) \cap Told # {} /\ A \cup B \subseteq Told
    BY <1>1, <1>3 DEF Told, State
  <2>3. (A \cup B) \cap State = {"ready"} <=> (\A s \in matching : s.endpoints = {"yes"}) /\ ~down
    <3>1. (A \cup B) \cap State = A \cup B
      BY <2>2 DEF Told
    <3>2. down => "degraded" \in A \cup B
      OBVIOUS
    <3>3. ~down => A \cup B = A
      OBVIOUS
    <3>4. A = {"ready"} <=> \A s \in matching : s.endpoints = {"yes"}
      BY <1>1, <1>3
    <3> HIDE DEF A, B, down, matching
    <3> QED
      BY <3>1, <3>2, <3>3, <3>4
  <2> HIDE DEF A, B
  <2>4. PortState(S, p) \in Told
    BY <2>1, <2>2, MinStateReady DEF Told, State, NoState
  <2>5. PortState(S, p) = "ready" <=> (\A s \in matching : s.endpoints = {"yes"}) /\ ~down
    BY <2>1, <2>3, MinStateReady
  <2> QED
    BY <1>3, <2>4, <2>5
<1> QED
  BY <1>2, <1>3

\* The endpoints of a service are ready if each of its ports is.
LEMMA EndpointsReady ==
    ASSUME NEW svc
    PROVE  /\ EndpointsState(svc) \in Told \cup {NoState}
           /\ EndpointsState(svc) = NoState <=> svc.slices # {} /\ svc.ports = {}
           /\ EndpointsState(svc) = "ready" <=>
                 /\ svc.slices # {} /\ svc.ports # {}
                 /\ \A p \in svc.ports : PortState(svc.slices, p) = "ready"
<1>1. CASE svc.slices = {} \/ svc.ports = {}
  BY <1>1 DEF EndpointsState, Told, State, NoState
<1>2. CASE svc.slices # {} /\ svc.ports # {}
  <2> DEFINE A == {PortState(svc.slices, p) : p \in svc.ports}
  <2>1. EndpointsState(svc) = MinState(A)
    BY <1>2 DEF EndpointsState
  <2>2. A \subseteq Told /\ A # {} /\ NoState \notin Told
    BY <1>2, PortReady DEF Told, State, NoState
  <2>3. A \cap State = {"ready"} <=> \A p \in svc.ports : PortState(svc.slices, p) = "ready"
    <3>1. A \cap State = A
      BY <2>2 DEF Told
    <3> QED
      BY <1>2, <3>1
  <2> HIDE DEF A
  <2> QED
    BY <1>2, <2>1, <2>2, <2>3, MinStateReady
<1> QED
  BY <1>1, <1>2

-----------------------------------------------------------------------------
(***************************************************************************)
(* Exposure.                                                               *)
(***************************************************************************)
ExposureInv ==
    /\ ports \subseteq Ports
    /\ external \in [loadBalancer : BOOLEAN, ip : BOOLEAN]
    /\ slices \in [Slices -> Slice \cup {NoSlice}]
    /\ backends \in {{"svc"}, {"gone"}, {"svc", "gone"}}
    /\ addresses \subseteq {"service", "ingress"}
    /\ phase \in Phase

\* Every step of the cluster keeps its objects.
LEMMA ExposureInvariant == ExposureSpec => []ExposureInv
<1>1. ExposureInit => ExposureInv
  BY DEF ExposureInit, ExposureInv, Phase
<1>2. ExposureInv /\ [ExposureNext]_exposureVars => ExposureInv'
  <2> SUFFICES ASSUME ExposureInv, [ExposureNext]_exposureVars PROVE ExposureInv'
    OBVIOUS
  <2> USE DEF ExposureInv
  <2>1. CASE UNCHANGED exposureVars
    BY <2>1 DEF exposureVars
  <2>2. ASSUME NEW i \in Slices, AddSlice(i) \/ RemoveSlice(i) \/ ChangeEndpoints(i)
        PROVE  ExposureInv'
    <3>1. slices' \in [Slices -> Slice \cup {NoSlice}]
      <4>1. CASE AddSlice(i)
        BY <4>1 DEF AddSlice, Slice
      <4>2. CASE RemoveSlice(i)
        BY <4>2 DEF RemoveSlice
      <4>3. CASE ChangeEndpoints(i)
        <5>1. PICK E \in SUBSET Condition : slices' = [slices EXCEPT ![i].endpoints = E]
          BY <4>3 DEF ChangeEndpoints
        <5>2. slices[i] \in Slice
          BY <4>3 DEF ChangeEndpoints
        <5>3. [slices[i] EXCEPT !.endpoints = E] \in Slice
          BY <5>1, <5>2 DEF Slice
        <5> QED
          BY <5>1, <5>3
      <4> QED
        BY <2>2, <4>1, <4>2, <4>3
    <3> QED
      BY <2>2, <3>1 DEF AddSlice, RemoveSlice, ChangeEndpoints, spec
  <2>3. CASE AssignAddress
    BY <2>3 DEF AssignAddress, spec
  <2>4. CASE ChangePhase
    BY <2>4 DEF ChangePhase, spec
  <2> QED
    BY <2>1, <2>2, <2>3, <2>4 DEF ExposureNext
<1> QED
  BY <1>1, <1>2, PTL DEF ExposureSpec

\* The endpoints of the service are ready if each of its ports is served.
LEMMA ServiceEndpoints ==
    /\ EndpointsState(Service) \in Told \cup {NoState}
    /\ EndpointsState(Service) = NoState <=> Present # {} /\ ports = {}
    /\ EndpointsState(Service) = "ready" <=>
          ports # {} /\ PortlessUp /\ \A p \in ports : Served(p)
<1>1. Service.slices = Present /\ Service.ports = ports
  BY DEF Service, Present
<1>2. (\A p \in ports : PortState(Present, p) = "ready" <=> Served(p) /\ PortlessUp)
  BY PortReady DEF Served, PortlessUp
<1>3. \A p : Served(p) => Present # {}
  BY DEF Served
<1> QED
  BY <1>1, <1>2, <1>3, EndpointsReady

\* A service is ready if its endpoints do not say otherwise and it has the
\* address it needs.
LEMMA ServiceReady ==
    ASSUME ExposureInv
    PROVE  /\ ServiceState \in Told
           /\ ServiceState = "ready" <=>
                 EndpointsState(Service) \in {"ready", NoState} /\ Addressed
<1> DEFINE E == EndpointsState(Service)
           X == ExternalIPState(Service)
<1>1. X \in {"ready", "unavailable"} /\ (X = "ready" <=> Addressed)
  BY DEF ExternalIPState, Service, Addressed, ExposureInv
<1>2. ServiceState = MinState({E, X})
  BY DEF ServiceState, CalculateServiceState
<1>3. E \in Told \cup {NoState}
  BY ServiceEndpoints
<1> HIDE DEF E, X
<1>4. {E, X} \cap Told # {} /\ {E, X} \subseteq Told \cup {NoState}
  BY <1>1, <1>3 DEF Told, State
<1>5. {E, X} \cap State = {"ready"} <=> E \in {"ready", NoState} /\ X = "ready"
  BY <1>1, <1>3 DEF Told, State, NoState
<1> QED
  BY <1>1, <1>2, <1>4, <1>5, MinStateReady DEF E

\* An ingress is ready, or without a state, only if the services it names are
\* there and it has the address it needs.
LEMMA IngressReady ==
    ASSUME ExposureInv
    PROVE  /\ IngressState \in Told \cup {NoState}
           /\ IngressState \in {"ready", NoState} =>
                 /\ backends = {"svc"}
                 /\ external.loadBalancer => "ingress" \in addresses
           /\ /\ backends = {"svc"} /\ EndpointsState(Service) = "ready"
              /\ external.loadBalancer => "ingress" \in addresses
              => IngressState = "ready"
<1> DEFINE E == EndpointsState(Service)
           exposed == \E s \in IngressServices \ {NoService} : s.loadBalancer
           A == {BackendState(s) : s \in IngressServices}
           B == IF ~exposed THEN {} ELSE {IF "ingress" \in addresses THEN "ready" ELSE "unavailable"}
<1>1. IngressState = MinState(A \cup B)
  BY DEF IngressState, CalculateIngressState
<1>2. Service # NoService
  <2>1. "ports" \in DOMAIN Service /\ "ports" \notin DOMAIN NoService
    BY DEF Service, NoService
  <2> QED
    BY <2>1
<1>3. BackendState(Service) = E /\ BackendState(NoService) = "unavailable"
  BY <1>2 DEF BackendState
<1>4. /\ backends = {"svc"} => IngressServices = {Service}
      /\ backends # {"svc"} => NoService \in IngressServices
      /\ IngressServices \subseteq {Service, NoService} /\ IngressServices # {}
  BY DEF IngressServices, ExposureInv
<1>5. E \in Told \cup {NoState}
  BY ServiceEndpoints
<1>6. A \subseteq {E, "unavailable"} /\ A # {}
  BY <1>3, <1>4
<1>7. backends = {"svc"} => A = {E}
  BY <1>3, <1>4
<1>8. backends # {"svc"} => "unavailable" \in A
  BY <1>3, <1>4
<1>9. backends = {"svc"} => (exposed <=> external.loadBalancer)
  BY <1>2, <1>4 DEF Service, ExposureInv
<1> HIDE DEF A, E, exposed
<1>10. A \cup B \subseteq Told \cup {NoState} /\ A \cup B # {}
  BY <1>5, <1>6 DEF Told, State
<1>11. IngressState \in Told \cup {NoState}
  BY <1>1, <1>10, MinStateReady
<1>12. ASSUME "unavailable" \in A \cup B PROVE IngressState \notin {"ready", NoState}
  <2>1. (A \cup B) \cap Told # {} /\ (A \cup B) \cap State # {"ready"}
    BY <1>12 DEF Told, State
  <2>2. NoState \notin Told
    BY DEF NoState, Told, State
  <2> QED
    BY <1>1, <1>10, <2>1, <2>2, MinStateReady
<1>13. ASSUME IngressState \in {"ready", NoState}
       PROVE  /\ backends = {"svc"}
              /\ external.loadBalancer => "ingress" \in addresses
  BY <1>8, <1>9, <1>12, <1>13
<1>14. ASSUME backends = {"svc"}, E = "ready", external.loadBalancer => "ingress" \in addresses
       PROVE  IngressState = "ready"
  <2>1. A = {"ready"} /\ B \subseteq {"ready"}
    BY <1>7, <1>9, <1>14
  <2>2. (A \cup B) \cap State = {"ready"}
    BY <2>1 DEF State
  <2> QED
    BY <1>1, <2>2, MinStateReady
<1> QED
  BY <1>11, <1>13, <1>14 DEF E

\* The app is ready if none of its three resources says otherwise.
LEMMA AppReady ==
    ASSUME ExposureInv
    PROVE  /\ AppState \in Told
           /\ AppState = "ready" <=>
                 /\ ServiceState = "ready" /\ IngressState \in {"ready", NoState}
                 /\ phase = "Bound"
<1> DEFINE P == CalculatePersistentVolumeClaimState(phase)
           S == {ServiceState, IngressState, P}
<1>1. P \in {"ready", "unavailable"} /\ (P = "ready" <=> phase = "Bound")
  BY DEF CalculatePersistentVolumeClaimState
<1>2. ServiceState \in Told /\ IngressState \in Told \cup {NoState}
  BY ServiceReady, IngressReady
<1>3. S # {} /\ S \subseteq Told \cup {NoState} /\ AppState = GetState(S)
  BY <1>1, <1>2 DEF AppState, Told, State
<1>4. S \cap State \subseteq {"ready"} <=>
        ServiceState = "ready" /\ IngressState \in {"ready", NoState} /\ P = "ready"
  <2> HIDE DEF P
  <2>1. "ready" \in State /\ NoState \notin State /\ P \in State
    BY <1>1 DEF State, NoState
  <2> QED
    BY <1>2, <2>1 DEF Told
<1> HIDE DEF S, P
<1> QED
  BY <1>1, <1>3, <1>4, GetStateReady

\* The app's states are those of resources that exist, and never the zero value
\* (types.go).
THEOREM ExposureTypeCorrect == ExposureSpec => []ExposureTypeOK
<1>1. ExposureInv => ExposureTypeOK
  BY ServiceReady, AppReady DEF ExposureInv, ExposureTypeOK, Told
<1> QED
  BY <1>1, ExposureInvariant, PTL

\* An app that is told ready can be used (service.go, ingress.go,
\* persistentvolumeclaim.go).
THEOREM ReadyUsable == ExposureSpec => []ReadyIsUsable
<1>1. ExposureInv => ReadyIsUsable
  <2> SUFFICES ASSUME ExposureInv, AppState = "ready" PROVE ReadyIsUsable
    BY DEF ReadyIsUsable
  <2>1. /\ ServiceState = "ready" /\ IngressState \in {"ready", NoState}
        /\ phase = "Bound"
    BY AppReady
  <2>2. EndpointsState(Service) \in {"ready", NoState} /\ Addressed
    BY <2>1, ServiceReady
  <2>3. ports # {} => PortlessUp /\ \A p \in ports : Served(p)
    BY <2>2, ServiceEndpoints
  <2>4. ports # {} => Present # {}
    BY <2>3 DEF Served
  <2> QED
    BY <2>1, <2>2, <2>3, <2>4, IngressReady DEF ReadyIsUsable
<1> QED
  BY <1>1, ExposureInvariant, PTL

\* And an app that can be used is told ready.
THEOREM UsableReady == ExposureSpec => []UsableIsReady
<1>1. ExposureInv => UsableIsReady
  BY ServiceEndpoints, ServiceReady, IngressReady, AppReady DEF UsableIsReady
<1> QED
  BY <1>1, ExposureInvariant, PTL

-----------------------------------------------------------------------------
(***************************************************************************)
(* Rollout.                                                                *)
(***************************************************************************)

\* What the handler may be called with.
RolloutObject ==
    [generation : 1..MaxGeneration, observed : 1..MaxGeneration, ready : 0..Replicas,
     replicas : {Replicas}, desired : {Replicas}, current : 0..Replicas,
     misscheduled : {0}, unavailable : 0..Replicas]

RolloutInv == RolloutTypeOK /\ (handler = "listing" => object \in RolloutObject)

\* There are at most as many pods as the workload wants.
LEMMA PodsCount ==
    /\ IsFiniteSet(Live) /\ Cardinality(Live) \in 0..Replicas
    /\ Cardinality(ReadyPods) \in 0..Replicas
<1>1. IsFiniteSet(Slot) /\ Cardinality(Slot) = Replicas
  BY RolloutAssumption, FS_Interval DEF Slot
<1>2. Live \subseteq Slot /\ ReadyPods \subseteq Slot
  BY DEF Live, ReadyPods
<1> QED
  BY <1>1, <1>2, FS_Subset, FS_CardinalityType

\* The pods tell at most that the workload is updating or unavailable.
LEMMA PodsTell ==
    ASSUME NEW list
    PROVE  /\ PodsState(list) \in {NoState, "unavailable", "updating"}
           /\ PodsState(list) = NoState => OddPods(list) = {}
BY DEF PodsState, NoState

\* What is computed of a workload is the state of one that is there.
LEMMA CalculateStateTold ==
    ASSUME RolloutInv, NEW list
    PROVE  CalculateState(object, list) \in Told
<1>1. PodsState(list) # NoState => PodsState(list) \in Told
  BY PodsTell DEF Told, State
<1>2. {"unavailable", "updating", "degraded", "ready"} \subseteq Told
  BY DEF Told, State
<1>3. kind \in {"StatefulSet", "DaemonSet", "Deployment"}
  BY DEF RolloutInv, RolloutTypeOK
<1>4. CalculateStatefulSetState(object, list) \in Told
  BY <1>1, <1>2 DEF CalculateStatefulSetState, SomeReady
<1>5. CalculateDaemonSetState(object, list) \in Told
  BY <1>1, <1>2 DEF CalculateDaemonSetState, SomeReady
<1>6. CalculateDeploymentState(object) \in Told
  BY <1>2 DEF CalculateDeploymentState, SomeReady
<1> QED
  BY <1>3, <1>4, <1>5, <1>6 DEF CalculateState

\* Every step keeps the types.
LEMMA RolloutInvariant == RolloutSpec => []RolloutInv
<1> USE RolloutAssumption
<1>1. RolloutInit => RolloutInv
  <2> SUFFICES ASSUME RolloutInit PROVE RolloutInv
    OBVIOUS
  <2>1. status \in Status /\ pods \in [Slot -> Pod \cup {NoPod}] /\ generation = 1
    BY DEF RolloutInit, Status, Pod
  <2> QED
    BY <2>1 DEF RolloutInit, RolloutInv, RolloutTypeOK, State
<1>2. RolloutInv /\ [RolloutNext]_rolloutVars => RolloutInv'
  <2> SUFFICES ASSUME RolloutInv, [RolloutNext]_rolloutVars PROVE RolloutInv'
    OBVIOUS
  <2> USE DEF RolloutInv, RolloutTypeOK
  <2>1. CASE UNCHANGED rolloutVars
    BY <2>1 DEF rolloutVars, workload
  <2>2. CASE Edit
    BY <2>2 DEF Edit, workload, handlerVars
  <2>3. ASSUME NEW i \in Slot,
               DeletePod(i) \/ CreatePod(i) \/ PodReady(i) \/ PodFails(i) \/ Unlabel(i)
        PROVE  RolloutInv'
    <3>1. pods' \in [Slot -> Pod \cup {NoPod}]
      <4>1. CASE DeletePod(i)
        BY <4>1 DEF DeletePod
      <4>2. CASE CreatePod(i)
        BY <4>2 DEF CreatePod, Pod
      <4>3. CASE PodReady(i) \/ PodFails(i)
        <5>1. i \in Live
          BY <4>3 DEF PodReady, PodFails, ReadyPods
        <5>2. pods[i] \in Pod
          BY <5>1 DEF Live
        <5>3. PICK b \in BOOLEAN : pods' = [pods EXCEPT ![i].ready = b]
          BY <4>3 DEF PodReady, PodFails
        <5>4. [pods[i] EXCEPT !.ready = b] \in Pod
          BY <5>2 DEF Pod
        <5> QED
          BY <5>3, <5>4
      <4>4. CASE Unlabel(i)
        <5>1. pods[i] \in Pod
          BY <4>4 DEF Unlabel, Live
        <5>2. [pods[i] EXCEPT !.version = NoLabel] \in Pod
          BY <5>1 DEF Pod
        <5> QED
          BY <4>4, <5>2 DEF Unlabel
      <4> QED
        BY <2>3, <4>1, <4>2, <4>3, <4>4
    <3>2. failures' \in 0..MaxFailures
      BY <2>3 DEF DeletePod, CreatePod, PodReady, PodFails, Unlabel
    <3> QED
      BY <2>3, <3>1, <3>2
         DEF DeletePod, CreatePod, PodReady, PodFails, Unlabel, workload, handlerVars
  <2>4. CASE SyncStatus
    <3>1. CurrentStatus \in Status
      BY PodsCount DEF CurrentStatus, Status
    <3> QED
      BY <2>4, <3>1 DEF SyncStatus, workload, handlerVars
  <2>5. CASE CallHandler
    <3>1. ObjectNow \in RolloutObject
      BY DEF ObjectNow, RolloutObject, Status
    <3> QED
      BY <2>5, <3>1 DEF CallHandler, workloadVars, workload
  <2>6. CASE Send
    BY <2>6, CalculateStateTold DEF Send, workloadVars, workload, Told
  <2>7. CASE SendUnlisted
    <3>1. reported' \in State
      BY <2>7 DEF SendUnlisted, State
    <3> QED
      BY <2>7, <3>1 DEF SendUnlisted, workloadVars, workload
  <2> QED
    BY <2>1, <2>2, <2>3, <2>4, <2>5, <2>6, <2>7 DEF RolloutNext, ReplacePods
<1> QED
  BY <1>1, <1>2, PTL DEF RolloutSpec

\* Each of the workload's pods is listed as its own.
LEMMA LiveIsListed ==
    ASSUME RolloutInv, NEW i \in Live
    PROVE  \E k \in DOMAIN Listed :
              Listed[k] = [owned |-> TRUE, version |-> pods[i].version]
<1> DEFINE upTo(k) == {j \in Live : j <= k}
           S == IF hasStray THEN <<[owned |-> FALSE, version |-> MaxGeneration + 1]>> ELSE <<>>
           Q == [n \in 1..Cardinality(Live) |->
                   [owned |-> TRUE,
                    version |-> pods[CHOOSE k \in Live : Cardinality({j \in Live : j <= k}) = n].version]]
           n == Cardinality(upTo(i))
<1>1. Listed = S \o Q
  BY DEF Listed
<1>2. Live \subseteq Int /\ IsFiniteSet(Live) /\ Cardinality(Live) \in Nat
  BY PodsCount, RolloutAssumption DEF Live, Slot
<1>3. \A k \in Live : /\ IsFiniteSet(upTo(k)) /\ k \in upTo(k)
                      /\ Cardinality(upTo(k)) \in 1..Cardinality(Live)
  <2> SUFFICES ASSUME NEW k \in Live
               PROVE  /\ IsFiniteSet(upTo(k)) /\ k \in upTo(k)
                      /\ Cardinality(upTo(k)) \in 1..Cardinality(Live)
    OBVIOUS
  <2>1. IsFiniteSet(upTo(k)) /\ Cardinality(upTo(k)) <= Cardinality(Live)
    BY <1>2, FS_Subset
  <2>2. k \in upTo(k) /\ Cardinality(upTo(k)) \in Nat
    BY <1>2, <2>1, FS_CardinalityType
  <2>3. Cardinality(upTo(k)) # 0
    BY <2>1, <2>2, FS_EmptySet
  <2> QED
    BY <1>2, <2>1, <2>2, <2>3
<1>4. ASSUME NEW k \in Live, NEW l \in Live, k <= l, Cardinality(upTo(k)) = Cardinality(upTo(l))
      PROVE  k = l
  <2>1. ASSUME NEW j \in Live, j <= k PROVE j <= l
    BY <1>2, <1>4, <2>1
  <2>2. upTo(k) = upTo(l)
    <3>1. upTo(k) \in SUBSET upTo(l)
      BY <2>1
    <3> QED
      BY <1>3, <1>4, <3>1, FS_Subset
  <2>3. l <= k
    BY <1>3, <2>2
  <2> QED
    BY <1>2, <1>4, <2>3
<1>5. (CHOOSE k \in Live : Cardinality(upTo(k)) = n) = i
  <2>1. \A k \in Live : Cardinality(upTo(k)) = n => k = i
    BY <1>2, <1>4
  <2> QED
    BY <2>1
<1>6. n \in 1..Cardinality(Live) /\ Q[n] = [owned |-> TRUE, version |-> pods[i].version]
  BY <1>3, <1>5
<1>7. \E R : S \in Seq(R) /\ Q \in Seq(R) /\ Len(Q) = Cardinality(Live)
  <2> DEFINE R == {Q[m] : m \in 1..Cardinality(Live)}
                    \cup {[owned |-> FALSE, version |-> MaxGeneration + 1]}
  <2>1. S \in Seq(R)
    <3> DEFINE stray == [owned |-> FALSE, version |-> MaxGeneration + 1]
    <3>1. <<>> \in Seq(R) /\ stray \in R
      BY EmptySeq
    <3> HIDE DEF stray, R
    <3>2. <<stray>> \in Seq(R)
      BY <3>1
    <3> QED
      BY <3>1, <3>2 DEF stray
  <2>2. Q \in [1..Cardinality(Live) -> R]
    OBVIOUS
  <2> HIDE DEF S, Q, R
  <2>3. Q \in Seq(R) /\ Len(Q) = Cardinality(Live)
    BY <1>2, <2>2
  <2> QED
    BY <2>1, <2>3
<1> HIDE DEF S, Q, n
<1>8. Len(S) + n \in DOMAIN (S \o Q) /\ (S \o Q)[Len(S) + n] = Q[n]
  <2>1. PICK R : S \in Seq(R) /\ Q \in Seq(R) /\ Len(Q) = Cardinality(Live)
    BY <1>7
  <2>2. Len(S) \in Nat /\ Len(S) + n \in 1..(Len(S) + Len(Q)) /\ ~(Len(S) + n <= Len(S))
    BY <1>2, <1>6, <2>1, LenProperties
  <2>3. /\ S \o Q \in Seq(R) /\ Len(S \o Q) = Len(S) + Len(Q)
        /\ (S \o Q)[Len(S) + n] = Q[(Len(S) + n) - Len(S)]
    BY <2>1, <2>2, ConcatProperties
  <2>4. DOMAIN (S \o Q) = 1..(Len(S) + Len(Q))
    BY <2>3, LenProperties
  <2>5. (Len(S) + n) - Len(S) = n
    BY <1>2, <1>6, <2>2
  <2> QED
    BY <2>2, <2>3, <2>4, <2>5
<1> QED
  BY <1>1, <1>6, <1>8

\* Where no pod is odd, all of the workload's are of one revision, and have one.
LEMMA NoneOdd ==
    ASSUME RolloutInv, OddPods(Listed) = {}, NEW i \in Live, NEW j \in Live
    PROVE  pods[i].version = pods[j].version /\ pods[i].version # NoLabel
<1>1. ASSUME NEW k \in Live
      PROVE  /\ pods[k].version = Listed[Min(OwnPods(Listed))].version
             /\ pods[k].version # NoLabel
  <2>1. PICK l \in DOMAIN Listed : Listed[l] = [owned |-> TRUE, version |-> pods[k].version]
    BY LiveIsListed
  <2>2. Listed[l].owned /\ Listed[l].version = pods[k].version
    BY <2>1
  <2>3. l \in OwnPods(Listed)
    BY <2>2 DEF OwnPods
  <2> QED
    BY <2>2, <2>3 DEF OddPods
<1> QED
  BY <1>1

\* The types of a rollout, for every number of replicas, edits and failures.
THEOREM RolloutTypeCorrect == RolloutSpec => []RolloutTypeOK
<1>1. RolloutInv => RolloutTypeOK
  BY DEF RolloutInv
<1> QED
  BY <1>1, RolloutInvariant, PTL

\* Ready is never told while pods of two revisions exist or one without, nor from
\* a status with a pod missing or not ready (statefulsets.go, daemonsets.go).
THEOREM ReadyWhole == RolloutSpec => ReadyIsWhole
<1>1. RolloutInv => [Send /\ reported' = "ready" =>
                       /\ kind # "Deployment" =>
                             \A i, j \in Live :
                                 pods[i].version = pods[j].version /\ pods[i].version # NoLabel
                       /\ object.ready = Replicas /\ object.observed = object.generation]_rolloutVars
  <2> SUFFICES ASSUME RolloutInv, Send, reported' = "ready"
               PROVE  /\ kind # "Deployment" =>
                            \A i, j \in Live :
                                 pods[i].version = pods[j].version /\ pods[i].version # NoLabel
                      /\ object.ready = Replicas /\ object.observed = object.generation
    OBVIOUS
  <2>1. CalculateState(object, Listed) = "ready" /\ kind \in {"StatefulSet", "DaemonSet", "Deployment"}
    BY DEF Send, RolloutInv, RolloutTypeOK
  <2>2. object \in RolloutObject
    BY DEF Send, RolloutInv
  <2>3. /\ object.ready \in 0..Replicas /\ object.desired = Replicas
        /\ Replicas \in Nat /\ Desired(object) = Replicas
    BY <2>2, RolloutAssumption DEF RolloutObject, Desired, NoReplicas
  <2>4. SomeReady(object) # "ready" /\ PodsState(Listed) # "ready"
    BY PodsTell DEF SomeReady, NoState
  <2>5. CASE kind = "StatefulSet"
    <3>1. /\ object.observed = object.generation /\ PodsState(Listed) = NoState
          /\ object.ready >= Desired(object)
      BY <2>1, <2>4, <2>5 DEF CalculateState, CalculateStatefulSetState
    <3> QED
      BY <2>3, <3>1, PodsTell, NoneOdd
  <2>6. CASE kind = "DaemonSet"
    <3>1. /\ object.observed = object.generation /\ PodsState(Listed) = NoState
          /\ object.ready >= object.desired
      BY <2>1, <2>4, <2>6 DEF CalculateState, CalculateDaemonSetState
    <3> QED
      BY <2>3, <3>1, PodsTell, NoneOdd
  <2>7. CASE kind = "Deployment"
    <3>1. object.observed = object.generation /\ ~(object.ready < Desired(object))
      BY <2>1, <2>4, <2>7 DEF CalculateState, CalculateDeploymentState
    <3> QED
      BY <2>3, <2>7, <3>1
  <2> QED
    BY <2>1, <2>5, <2>6, <2>7
<1> QED
  BY <1>1, RolloutInvariant, PTL DEF ReadyIsWhole

=============================================================================
