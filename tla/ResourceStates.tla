--------------------------- MODULE ResourceStates ---------------------------
(***************************************************************************)
(* The state of each kind of resource a status informer watches, computed  *)
(* from its object and from what the handler lists beside it               *)
(* (pkg/appstate/deployments.go, statefulsets.go, daemonsets.go,           *)
(* service.go, ingress.go, persistentvolumeclaim.go).                      *)
(*                                                                         *)
(* Objects are records of the fields the code reads.  A list the code only *)
(* searches or folds with MinState is a set.                               *)
(***************************************************************************)
EXTENDS Integers, Sequences, FiniteSetsExt, AppStates

\* A number of replicas, a label or a service that is not there.
NoReplicas == -1
NoLabel == 0
NoService == [absent |-> TRUE]

Desired(r) == IF r.replicas = NoReplicas THEN 1 ELSE r.replicas

SomeReady(r) == IF r.ready > 0 THEN "degraded" ELSE "unavailable"

CalculateDeploymentState(r) ==
    IF r.observed # r.generation THEN "updating"
    ELSE IF r.ready < Desired(r) THEN SomeReady(r)
    ELSE IF r.unavailable > 0 THEN "updating" ELSE "ready"

-----------------------------------------------------------------------------
(***************************************************************************)
(* The pods of a stateful set or a daemon set, in the order they are       *)
(* listed: the first of its own pods that has no revision label, or        *)
(* another revision than the first, ends the walk.                         *)
(***************************************************************************)

\* Faulty variant of OwnPods: the pods of other owners count.
OwnPodsAll(pods) == DOMAIN pods

OwnPods(pods) == {i \in DOMAIN pods : pods[i].owned}

\* Faulty variant of OddPods: only pods without a label end the walk.
OddPodsUnlabelled(pods) == {i \in OwnPods(pods) : pods[i].version = NoLabel}

OddPods(pods) ==
    LET own == OwnPods(pods)
    IN  {i \in own : pods[i].version = NoLabel \/ pods[i].version # pods[Min(own)].version}

\* NoState when the walk ends without a verdict.
PodsState(pods) ==
    LET odd == OddPods(pods)
    IN  IF odd = {} THEN NoState
        ELSE IF pods[Min(odd)].version = NoLabel THEN "unavailable" ELSE "updating"

CalculateStatefulSetState(r, pods) ==
    IF r.observed # r.generation THEN "updating"
    ELSE IF PodsState(pods) # NoState THEN PodsState(pods)
    ELSE IF r.ready >= Desired(r) THEN "ready" ELSE SomeReady(r)

CalculateDaemonSetState(r, pods) ==
    IF r.observed # r.generation THEN "updating"
    ELSE IF PodsState(pods) # NoState THEN PodsState(pods)
    ELSE IF r.unavailable > 0 \/ r.misscheduled > 0 \/ r.current # r.desired THEN "degraded"
    ELSE IF r.ready >= r.desired THEN "ready" ELSE SomeReady(r)

-----------------------------------------------------------------------------
(***************************************************************************)
(* Services.  A slice has the names of its ports and the ready conditions  *)
(* ("yes", "no", "unset") that occur among its endpoints; of how many      *)
(* endpoints have each, the code asks only whether there is one.           *)
(***************************************************************************)

\* Faulty variant of SlicePortState: one ready endpoint is enough.
SlicePortStateOne(slice) == IF "yes" \in slice.endpoints THEN "ready" ELSE "unavailable"

SlicePortState(slice) ==
    IF "yes" \notin slice.endpoints THEN "unavailable"
    ELSE IF slice.endpoints # {"yes"} THEN "degraded" ELSE "ready"

\* Faulty variant of PortState: the slices without ports decide for every
\* port too.
PortStateStrict(slices, port) ==
    MinState({IF port \in s.ports THEN SlicePortState(s) ELSE "unavailable" : s \in slices})

PortState(slices, port) ==
    LET portless == {s \in slices : s.ports = {}}
        matching == {s \in slices : port \in s.ports}
    IN  IF matching = {} THEN "unavailable"
        ELSE MinState({SlicePortState(s) : s \in matching}
                      \cup (IF \E s \in portless : "no" \in s.endpoints THEN {"degraded"} ELSE {}))

\* A service without ports gets no state from its endpoints.  No slices stands
\* for a listing that fails too: one line of the code returns for both.
EndpointsState(svc) ==
    IF svc.slices = {} THEN "unavailable"
    ELSE IF svc.ports = {} THEN NoState
    ELSE MinState({PortState(svc.slices, p) : p \in svc.ports})

ExternalIPState(svc) ==
    IF svc.loadBalancer /\ ~svc.externalIP /\ ~svc.balancerIP THEN "unavailable" ELSE "ready"

CalculateServiceState(svc) == MinState({EndpointsState(svc), ExternalIPState(svc)})

(***************************************************************************)
(* Ingresses: the services its default backend and its paths name.  The    *)
(* lookup of a service that is not there returns an empty one, which has   *)
(* no endpoints.  Before Kubernetes 1.22 an ingress without a default      *)
(* backend has that of the cluster, here a member of its services.  Every  *)
(* rule is one for HTTP and every backend a service, as the code takes     *)
(* them to be: it dereferences nil for any other.                          *)
(***************************************************************************)

BackendState(svc) == IF svc = NoService THEN "unavailable" ELSE EndpointsState(svc)

CalculateIngressState(services, balancerIP) ==
    LET exposed == \E s \in services \ {NoService} : s.loadBalancer
    IN  MinState({BackendState(s) : s \in services}
                 \cup (IF ~exposed THEN {} ELSE {IF balancerIP THEN "ready" ELSE "unavailable"}))

CalculatePersistentVolumeClaimState(phase) ==
    IF phase = "Bound" THEN "ready" ELSE "unavailable"
=============================================================================
