------------------------------ MODULE PodImages ------------------------------
(***************************************************************************)
(* The images that run in the cluster: a pod informer for each namespace   *)
(* keeps InMemoryStore.podImages, from which the reports take              *)
(* RunningImages.                                                          *)
(*                                                                         *)
(* podImages is a Go map that nothing locks.  An access during a write is  *)
(* a data race: it goes well, or the runtime throws and the container      *)
(* restarts with an empty store and new informers.                         *)
(*                                                                         *)
(* A pod here is one UID: it runs once, with images that may change, and   *)
(* does not come back once it is deleted.                                  *)
(***************************************************************************)
EXTENDS FiniteSets, Integers

CONSTANTS
    Pods, Namespaces,
    Images,         \* what a container status tells: image name and digest
    NoDigest,       \* those of them with no digest: the image is not pulled yet
    ReleaseImages,  \* those whose name is an image of the release
    ReportAll,      \* the store's reportAllImages
    MaxChanges,     \* bound: changes of the pods
    MaxCrashes,     \* bound: crashes
    Idle            \* an informer or report that does nothing

ASSUME ImagesAssumption == NoDigest \subseteq Images /\ ReleaseImages \subseteq Images
ASSUME IdleAssumption == Idle \notin Pods
ASSUME BoundsAssumption == MaxChanges \in Nat /\ MaxCrashes \in Nat

VARIABLES
    namespaceOf,
    cluster,    \* the pods: [phase, images]
    changes,
    cache,      \* the pod as its informer knows it
    behind,     \* is there an event its informer has not handled?
    handling,   \* the pod each informer's handler is changing podImages for
    podImages,  \* what the store has of each pod; {} for no entry
    reading,    \* is a report inside GetRunningImages?
    missed,     \* history: pods whose delete a tombstone told to this process
    crashes

vars == <<namespaceOf, cluster, changes, cache, behind, handling, podImages,
          reading, missed, crashes>>

Phase == {"none", "Pending", "Running", "Succeeded", "deleted"}
Pod == [phase : Phase, images : SUBSET Images]
Unknown == [phase |-> "none", images |-> {}]
Exists(o) == o.phase \notin {"none", "deleted"}

Init ==
    /\ namespaceOf \in [Pods -> Namespaces]
    /\ cluster = [p \in Pods |-> Unknown]
    /\ changes = 0
    /\ cache = [p \in Pods |-> Unknown]
    /\ behind = [p \in Pods |-> FALSE]
    /\ handling = [n \in Namespaces |-> Idle]
    /\ podImages = [p \in Pods |-> {}]
    /\ reading = FALSE
    /\ missed = {}
    /\ crashes = 0

-----------------------------------------------------------------------------
MayFollow(s, t) ==
    \/ s = "none" /\ t \in {"Pending", "Running"}
    \/ s \in {"Pending", "Running"} /\ t \in {"Running", "Succeeded", "deleted"}
    \/ s = "Succeeded" /\ t = "deleted"

\* A pod is created, moves on, pulls an image, or is deleted.
Change(p, phase, images) ==
    /\ changes < MaxChanges
    /\ MayFollow(cluster[p].phase, phase)
    /\ phase = "deleted" => images = cluster[p].images
    /\ cluster[p] # [phase |-> phase, images |-> images]
    /\ changes' = changes + 1
    /\ cluster' = [cluster EXCEPT ![p] = [phase |-> phase, images |-> images]]
    /\ behind' = [behind EXCEPT ![p] = TRUE]
    /\ UNCHANGED <<namespaceOf, cache, handling, podImages, reading, missed, crashes>>

\* The filter of SetPodImages, on the images extractPodImages returns.
Reported(images) ==
    LET pulled == images \ NoDigest
    IN  IF ReportAll \/ ReleaseImages = {} THEN pulled ELSE pulled \cap ReleaseImages

\* "Only track running pods": the images the store is to have of a pod.
Tracked(o) == IF o.phase = "Running" THEN Reported(o.images) ELSE {}

\* Faulty variant of Forgets: the handler knows no deletes.
ForgetsNothing(p) == FALSE

\* A delete reaches the store, of a pod the informer knows.
Forgets(p) == Exists(cache[p])

\* The informer has an event of a pod: its handler enters the store's methods.
\* The delete of a pod it knows may be told by a tombstone, whose cast is nil.
Handle(p) ==
    /\ behind[p] /\ handling[namespaceOf[p]] = Idle
    /\ behind' = [behind EXCEPT ![p] = FALSE]
    /\ cache' = [cache EXCEPT ![p] = cluster[p]]
    /\ \/ /\ Exists(cluster[p]) \/ Forgets(p)
          /\ handling' = [handling EXCEPT ![namespaceOf[p]] = p]
          /\ UNCHANGED missed
       \/ /\ ~Exists(cluster[p]) /\ ~Forgets(p)
          /\ UNCHANGED <<handling, missed>>
       \/ /\ ~Exists(cluster[p]) /\ Exists(cache[p])
          /\ missed' = missed \cup {p}
          /\ UNCHANGED handling
    /\ UNCHANGED <<namespaceOf, cluster, changes, podImages, reading, crashes>>

\* SetPodImages or DeletePodImages, of the pod the event was about.
Store(p) ==
    /\ handling[namespaceOf[p]] = p
    /\ podImages' = [podImages EXCEPT ![p] = Tracked(cache[p])]
    /\ handling' = [handling EXCEPT ![namespaceOf[p]] = Idle]
    /\ UNCHANGED <<namespaceOf, cluster, changes, cache, behind, reading, missed, crashes>>

\* GetInstanceData enters or leaves GetRunningImages.
Read ==
    /\ reading' = ~reading
    /\ UNCHANGED <<namespaceOf, cluster, changes, cache, behind, handling,
                   podImages, missed, crashes>>

\* Two handlers, or a handler and a report, are in the map at once: fatal
\* error: concurrent map writes.  The new container lists the pods anew.
Crash ==
    /\ crashes < MaxCrashes
    /\ \E n \in Namespaces :
        /\ handling[n] # Idle
        /\ reading \/ \E m \in Namespaces \ {n} : handling[m] # Idle
    /\ crashes' = crashes + 1
    /\ podImages' = [p \in Pods |-> {}]
    /\ cache' = [p \in Pods |-> Unknown]
    /\ behind' = [p \in Pods |-> Exists(cluster[p])]
    /\ handling' = [n \in Namespaces |-> Idle]
    /\ reading' = FALSE
    /\ missed' = {}
    /\ UNCHANGED <<namespaceOf, cluster, changes>>

Next ==
    \/ \E p \in Pods :
        \/ \E phase \in Phase, images \in SUBSET Images : Change(p, phase, images)
        \/ Handle(p)
        \/ Store(p)
    \/ Read
    \/ Crash

\* The informers deliver every event, and their handlers return.
Fairness == \A p \in Pods : WF_vars(Store(p)) /\ SF_vars(Handle(p))

Spec == Init /\ [][Next]_vars /\ Fairness

-----------------------------------------------------------------------------
(***************************************************************************)
(* Properties                                                              *)
(***************************************************************************)

\* The types of the variables.
TypeOK ==
    /\ namespaceOf \in [Pods -> Namespaces]
    /\ cluster \in [Pods -> Pod]
    /\ changes \in 0 .. MaxChanges
    /\ cache \in [Pods -> Pod]
    /\ behind \in [Pods -> BOOLEAN]
    /\ handling \in [Namespaces -> Pods \cup {Idle}]
    /\ podImages \in [Pods -> SUBSET Images]
    /\ reading \in BOOLEAN
    /\ missed \subseteq Pods
    /\ crashes \in 0 .. MaxCrashes

\* Once the cluster is at rest the store has, of each pod that runs, the images
\* that are pulled and of the release, and of no other pod any, also after a
\* crash of the SDK (pods.go:60-98, memory_store.go:191-226).  What can stay
\* behind is a pod whose delete was told by a tombstone, until a restart.
ImagesConverge ==
    <>[](\A p \in Pods : podImages[p] =
            IF cluster[p].phase = "Running"
            THEN {i \in cluster[p].images \ NoDigest :
                    ReportAll \/ ReleaseImages = {} \/ i \in ReleaseImages}
            ELSE IF p \in missed THEN podImages[p] ELSE {})
=============================================================================
