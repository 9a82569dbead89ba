------------------------------ MODULE Exposure ------------------------------
(***************************************************************************)
(* An app whose status informers watch a service, the ingress in front of  *)
(* it and the claim for its volume: what its state says about what a       *)
(* client of the app would find (pkg/appstate/service.go, ingress.go,      *)
(* persistentvolumeclaim.go, types/types.go).                              *)
(*                                                                         *)
(* The cluster is external: its endpoint slices, addresses and volumes     *)
(* come and go one at a time.                                              *)
(***************************************************************************)
EXTENDS ResourceStates

CONSTANTS
    Ports,      \* names a port may have
    Slices      \* endpoint slices the service may have

ASSUME ExposureAssumption == Ports # {} /\ Slices # {}

Condition == {"yes", "no", "unset"}
NoSlice == [none |-> TRUE]
Slice == [ports : SUBSET Ports, endpoints : SUBSET Condition]
Phase == {"Pending", "Bound", "Lost"}

VARIABLES
    ports,      \* of the service
    external,   \* its spec: is it a load balancer, has it external IPs?
    slices,     \* its endpoint slices
    backends,   \* the ingress's services: "svc", and perhaps one not there
    addresses,  \* the resources whose load balancer has an address
    phase       \* of the claim

exposureVars == <<ports, external, slices, backends, addresses, phase>>

Service ==
    [ports |-> ports, slices |-> {slices[i] : i \in Slices} \ {NoSlice},
     loadBalancer |-> external.loadBalancer, externalIP |-> external.ip,
     balancerIP |-> "service" \in addresses]

IngressServices == {IF b = "svc" THEN Service ELSE NoService : b \in backends}

ServiceState == CalculateServiceState(Service)
IngressState == CalculateIngressState(IngressServices, "ingress" \in addresses)

AppState == GetState({ServiceState, IngressState, CalculatePersistentVolumeClaimState(phase)})

-----------------------------------------------------------------------------
ExposureInit ==
    /\ ports \in SUBSET Ports
    /\ external \in [loadBalancer : BOOLEAN, ip : BOOLEAN]
    /\ slices = [i \in Slices |-> NoSlice]
    /\ backends \in {{"svc"}, {"gone"}, {"svc", "gone"}}
    /\ addresses = {}
    /\ phase = "Pending"

spec == <<ports, external, backends>>

AddSlice(i) ==
    /\ slices[i] = NoSlice
    /\ \E P \in SUBSET Ports : slices' = [slices EXCEPT ![i] = [ports |-> P, endpoints |-> {}]]
    /\ UNCHANGED <<spec, addresses, phase>>

RemoveSlice(i) ==
    /\ slices[i] # NoSlice
    /\ slices' = [slices EXCEPT ![i] = NoSlice]
    /\ UNCHANGED <<spec, addresses, phase>>

\* Endpoints are added and removed, or change their condition.
ChangeEndpoints(i) ==
    /\ slices[i] # NoSlice
    /\ \E E \in SUBSET Condition : slices' = [slices EXCEPT ![i].endpoints = E]
    /\ UNCHANGED <<spec, addresses, phase>>

AssignAddress ==
    /\ \E r \in {"service", "ingress"} \ addresses : addresses' = addresses \cup {r}
    /\ UNCHANGED <<spec, slices, phase>>

ChangePhase ==
    /\ \E p \in Phase : phase' = p
    /\ UNCHANGED <<spec, slices, addresses>>

ExposureNext ==
    \/ \E i \in Slices : AddSlice(i) \/ RemoveSlice(i) \/ ChangeEndpoints(i)
    \/ AssignAddress \/ ChangePhase

ExposureSpec == ExposureInit /\ [][ExposureNext]_exposureVars

-----------------------------------------------------------------------------
(***************************************************************************)
(* Properties.                                                             *)
(***************************************************************************)

Present == {slices[i] : i \in Slices} \ {NoSlice}

\* A client that connects to the port reaches an endpoint, and a ready one.
Served(p) ==
    /\ \E s \in Present : p \in s.ports
    /\ \A s \in Present : p \in s.ports => s.endpoints = {"yes"}

\* No endpoint without ports is known to be down.
PortlessUp == \A s \in Present : s.ports = {} => "no" \notin s.endpoints

Addressed ==
    external.loadBalancer => external.ip \/ "service" \in addresses

(***************************************************************************)
(* The app's states are those of resources that exist: never missing, and  *)
(* never the zero value, although one of its parts may have none.          *)
(***************************************************************************)
ExposureTypeOK ==
    /\ slices \in [Slices -> Slice \cup {NoSlice}]
    /\ ServiceState \in State /\ AppState \in State \ {"missing"}

(***************************************************************************)
(* An app that is told ready can be used: every port of the service is     *)
(* answered by ready endpoints only, every service the ingress names is    *)
(* there, each load balancer has its address and the volume is bound.      *)
(***************************************************************************)
ReadyIsUsable ==
    AppState = "ready" =>
        /\ ports # {} => Present # {} /\ PortlessUp /\ \A p \in ports : Served(p)
        /\ Addressed
        /\ backends = {"svc"}
        /\ external.loadBalancer => "ingress" \in addresses
        /\ phase = "Bound"

(***************************************************************************)
(* And an app that can be used is told ready: no slice of other ports, and *)
(* no address nobody asked for, makes it worse.  (For a service with ports *)
(* only: an ingress in front of one without any has no state to show.)     *)
(***************************************************************************)
UsableIsReady ==
    /\ ports # {} /\ PortlessUp /\ \A p \in ports : Served(p)
    /\ Addressed
    /\ backends = {"svc"}
    /\ external.loadBalancer => "ingress" \in addresses
    /\ phase = "Bound"
    => AppState = "ready"
=============================================================================
