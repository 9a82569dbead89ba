------------------------------ MODULE Rollout ------------------------------
(***************************************************************************)
(* The state reported for a stateful set, a daemon set or a deployment     *)
(* while it rolls out: the handler computes it from the object its         *)
(* informer delivered, whose status may be old by then, and, except for a  *)
(* deployment, from the pods it lists itself (pkg/appstate/                *)
(* statefulsets.go, daemonsets.go, deployments.go).                        *)
(*                                                                         *)
(* The controller of the cluster, the kubelet and the informer are         *)
(* external: an edit raises the generation; the controller replaces the    *)
(* pods of old revisions and keeps the status up to date; the informer     *)
(* calls the handler for a change of the object, those not yet handled     *)
(* being coalesced, and at every resync, so that a call may come any time. *)
(* Someone may remove the revision label of a pod; to the controller such  *)
(* a pod is of an old revision.                                            *)
(***************************************************************************)
EXTENDS Integers, Sequences, FiniteSets, ResourceStates

CONSTANTS
    Replicas,       \* the pods it wants
    MaxGeneration,  \* bound: revisions of its specification
    MaxFailures     \* bound: pods that stop being ready or lose their label,
                    \* and failed listings

ASSUME RolloutAssumption ==
    Replicas \in Nat \ {0} /\ MaxGeneration \in Nat \ {0} /\ MaxFailures \in Nat

VARIABLES
    kind,       \* "StatefulSet", "DaemonSet" or "Deployment"
    hasStray,   \* does its selector also match the pod of another owner?
    generation, \* of the object's specification
    pods,       \* its pods, by ordinal or node
    status,     \* the object's status
    failures,
    handler,    \* "idle" or "listing"
    object,     \* the object the handler was called with, while it lists
    reported    \* the last state it sent

workload == <<kind, hasStray>>
rolloutVars == <<workload, generation, pods, status, failures, handler, object, reported>>
workloadVars == <<workload, generation, pods, status>>
handlerVars == <<handler, object, reported>>

Slot == 1..Replicas
NoPod == [version |-> -1, ready |-> FALSE]
NoObject == [absent |-> TRUE]
Pod == [version : {NoLabel} \cup 1..MaxGeneration, ready : BOOLEAN]
Status == [observed : 1..MaxGeneration, ready : 0..Replicas, current : 0..Replicas]

Live == {i \in Slot : pods[i] # NoPod}
ReadyPods == {i \in Live : pods[i].ready}

\* The status the controller would write now.
CurrentStatus ==
    [observed |-> generation, ready |-> Cardinality(ReadyPods), current |-> Cardinality(Live)]

\* The pods that match the selector, in the order they are listed.
Listed ==
    LET stray == [owned |-> FALSE, version |-> MaxGeneration + 1]
        own(i) == [owned |-> TRUE, version |-> pods[i].version]
    IN  (IF hasStray THEN <<stray>> ELSE <<>>)
        \o [n \in 1..Cardinality(Live) |->
              own(CHOOSE i \in Live : Cardinality({j \in Live : j <= i}) = n)]

\* The fields of the object that the calculators read.
ObjectNow ==
    [generation |-> generation, observed |-> status.observed, ready |-> status.ready,
     replicas |-> Replicas, desired |-> Replicas, current |-> status.current,
     misscheduled |-> 0, unavailable |-> Replicas - status.ready]

CalculateState(r, list) ==
    CASE kind = "StatefulSet" -> CalculateStatefulSetState(r, list)
      [] kind = "DaemonSet"   -> CalculateDaemonSetState(r, list)
      [] kind = "Deployment"  -> CalculateDeploymentState(r)

-----------------------------------------------------------------------------
(***************************************************************************)
(* The cluster.                                                            *)
(***************************************************************************)

RolloutInit ==
    /\ kind \in {"StatefulSet", "DaemonSet", "Deployment"}
    /\ hasStray \in BOOLEAN
    /\ generation = 1
    /\ pods = [i \in Slot |-> [version |-> 1, ready |-> TRUE]]
    /\ status = [observed |-> 1, ready |-> Replicas, current |-> Replicas]
    /\ failures = 0
    /\ handler = "idle"
    /\ object = NoObject
    /\ reported = "missing"

Edit ==
    /\ generation < MaxGeneration
    /\ generation' = generation + 1
    /\ UNCHANGED <<workload, pods, status, failures, handlerVars>>

\* A rolling update: one pod at a time, while the others are ready.
DeletePod(i) ==
    /\ status.observed = generation
    /\ Live = Slot /\ Slot \ {i} \subseteq ReadyPods
    /\ pods[i].version # generation
    /\ pods' = [pods EXCEPT ![i] = NoPod]
    /\ UNCHANGED <<workload, generation, status, failures, handlerVars>>

CreatePod(i) ==
    /\ pods[i] = NoPod
    /\ pods' = [pods EXCEPT ![i] = [version |-> generation, ready |-> FALSE]]
    /\ UNCHANGED <<workload, generation, status, failures, handlerVars>>

PodReady(i) ==
    /\ i \in Live \ ReadyPods
    /\ pods' = [pods EXCEPT ![i].ready = TRUE]
    /\ UNCHANGED <<workload, generation, status, failures, handlerVars>>

PodFails(i) ==
    /\ failures < MaxFailures
    /\ i \in ReadyPods
    /\ pods' = [pods EXCEPT ![i].ready = FALSE]
    /\ failures' = failures + 1
    /\ UNCHANGED <<workload, generation, status, handlerVars>>

\* The revision label is removed from a pod.
Unlabel(i) ==
    /\ failures < MaxFailures
    /\ kind # "Deployment" /\ i \in Live /\ pods[i].version # NoLabel
    /\ pods' = [pods EXCEPT ![i].version = NoLabel]
    /\ failures' = failures + 1
    /\ UNCHANGED <<workload, generation, status, handlerVars>>

SyncStatus ==
    /\ status # CurrentStatus
    /\ status' = CurrentStatus
    /\ UNCHANGED <<workload, generation, pods, failures, handlerVars>>

-----------------------------------------------------------------------------
(***************************************************************************)
(* The handler: ObjectCreated and ObjectUpdated, for an event or a resync. *)
(***************************************************************************)

\* The informer calls it with a copy of the object.
CallHandler ==
    /\ handler = "idle"
    /\ handler' = "listing"
    /\ object' = ObjectNow
    /\ UNCHANGED <<workloadVars, failures, reported>>

\* It lists the pods, as they are by now, and sends the state.
Send ==
    /\ handler = "listing"
    /\ handler' = "idle"
    /\ reported' = CalculateState(object, Listed)
    /\ object' = NoObject
    /\ UNCHANGED <<workloadVars, failures>>

\* The listing fails: unavailable, unless the generation already told.
SendUnlisted ==
    /\ handler = "listing" /\ kind # "Deployment"
    /\ failures < MaxFailures
    /\ failures' = failures + 1
    /\ handler' = "idle"
    /\ reported' = IF object.observed # object.generation THEN "updating" ELSE "unavailable"
    /\ object' = NoObject
    /\ UNCHANGED workloadVars

ReplacePods == \E i \in Slot : DeletePod(i) \/ CreatePod(i)

RolloutNext ==
    \/ Edit \/ SyncStatus \/ ReplacePods
    \/ \E i \in Slot : PodReady(i) \/ PodFails(i) \/ Unlabel(i)
    \/ CallHandler \/ Send \/ SendUnlisted

\* The controller does its work, and the handler is called again: a resync
\* comes every minute.  Nothing makes a pod ready, an edit or a failure.
RolloutFairness ==
    /\ WF_rolloutVars(SyncStatus \/ ReplacePods)
    /\ WF_rolloutVars(CallHandler \/ Send)

RolloutSpec == RolloutInit /\ [][RolloutNext]_rolloutVars /\ RolloutFairness

-----------------------------------------------------------------------------
(***************************************************************************)
(* Properties.                                                             *)
(***************************************************************************)

\* Every part of the state has its type.
RolloutTypeOK ==
    /\ kind \in {"StatefulSet", "DaemonSet", "Deployment"} /\ hasStray \in BOOLEAN
    /\ generation \in 1..MaxGeneration
    /\ pods \in [Slot -> Pod \cup {NoPod}]
    /\ status \in Status
    /\ failures \in 0..MaxFailures
    /\ handler \in {"idle", "listing"}
    /\ reported \in State

(***************************************************************************)
(* "If the pod version labels are not all the same, then the statefulset   *)
(* is updating": ready is never told while pods of two revisions exist, or *)
(* one without a revision, however old the status is that the handler was  *)
(* called with, and never from a status with a pod missing or not ready.   *)
(***************************************************************************)
ReadyIsWhole ==
    [][Send /\ reported' = "ready" =>
          /\ kind # "Deployment" =>
                \A i, j \in Live :
                    pods[i].version = pods[j].version /\ pods[i].version # NoLabel
          /\ object.ready = Replicas /\ object.observed = object.generation]_rolloutVars

\* Is there a pod without a label, and those before it are of one revision?
LabelMissing ==
    \E i \in Live :
        /\ pods[i].version = NoLabel
        /\ \A j, k \in {n \in Live : n < i} : pods[j].version = pods[k].version

\* What the state should be, once nothing happens any more.
Health ==
    IF kind # "Deployment" /\ LabelMissing THEN "unavailable"
    ELSE IF kind # "Deployment" /\ \E i, j \in Slot : pods[i].version # pods[j].version
    THEN "updating"
    ELSE IF ReadyPods = Slot THEN "ready"
    ELSE IF ReadyPods # {} \/ kind = "DaemonSet" THEN "degraded" ELSE "unavailable"

(***************************************************************************)
(* In the end the right state is reported, whatever the handler listed on  *)
(* the way, whichever listing failed, and although another owner's pods    *)
(* match the selector: it is not left at updating after a rollout, at      *)
(* unavailable after a failed listing or once a pod without a label was    *)
(* replaced, or at ready when a pod stays down or blocks the rollout.  A   *)
(* daemon set is degraded even when none of its pods is ready.             *)
(***************************************************************************)
RolloutConverges == <>[](reported = Health)

=============================================================================
