----------------------------- MODULE ServerProofs -----------------------------
(***************************************************************************)
(* Proofs about Server: one monitor reports, the server starts on the      *)
(* license it checked and watches the images it reports, and uploads are   *)
(* honest, for any number of failures, changes of the license, oddities of *)
(* the configuration and requests.                                         *)
(***************************************************************************)
EXTENDS Server, TLAPS

-----------------------------------------------------------------------------
(***************************************************************************)
(* Bootstrap.  Its inductive invariant says what an attempt has done from  *)
(* where it is: no step after "apply" leads back to the first line, so     *)
(* that the attempts that did are one.                                     *)
(***************************************************************************)
Applied == {"heartbeat", "tls", "serving"}

\* The steps after the license was checked for expiry, and those after the store.
Stored == {"integration", "updates", "operator", "release", "apply"} \cup Applied
Checked == {"store"} \cup Stored

MonitorInv ==
    /\ monitors \in [started : Nat, applied : 0..1]
    /\ monitors.applied <= monitors.started
    /\ monitors.applied = 1 => pc \in Applied \cup {"dead"}
    /\ pc \in {"release", "apply"} => monitors.started > 0
    /\ pc \in Applied => monitors.applied = 1
    /\ pc \in {"tls", "serving"} => entries = 1

LicenseInv ==
    /\ pc \in Checked => ~license.expired
    /\ pc \in Stored => stored = license.version

BootInv == MonitorInv /\ LicenseInv

\* The first attempt begins with nothing applied.
LEMMA BootStarts == Init => BootInv
  BY DEF Init, BootInv, MonitorInv, LicenseInv, Applied, Stored, Checked

\* The end of an attempt, or of the process, takes nothing back that was applied.
LEMMA BootStops ==
    ASSUME BootInv, pc' \in {"waiting", "clientset", "dead"},
           pc \in Applied => pc' = "dead",
           pc = "dead" => pc' = "dead",
           UNCHANGED <<license, outVars>>
    PROVE  BootInv'
  BY DEF BootInv, MonitorInv, LicenseInv, outVars, Applied, Stored, Checked

\* A step that changes nothing but the position.
LEMMA BootPasses == ASSUME BootInv, Pass PROVE BootInv'
<1> USE DEF Pass, Proceeds, BootInv, MonitorInv, LicenseInv, outVars
<1>1. pc \in {"arguments", "clientset", "ids", "verify", "sync", "expiry",
              "integration", "updates", "release", "tls"}
  BY DEF Skipped
<1>2. CASE pc \in {"arguments", "clientset", "ids", "verify", "sync"}
  <2>1. pc' \in {"clientset", "ids", "distribution", "sync", "expiry"}
    BY <1>2 DEF StepAfter
  <2> QED
    BY <1>2, <2>1 DEF Applied, Stored, Checked
<1>3. CASE pc = "expiry"
  <2>1. pc' = "store" /\ ~license.expired
    BY <1>3 DEF StepAfter, Fatal
  <2> QED
    BY <1>3, <2>1 DEF Applied, Stored, Checked
<1>4. CASE pc \in {"integration", "updates"}
  <2>1. pc' \in {"updates", "operator"}
    BY <1>4 DEF StepAfter
  <2> QED
    BY <1>4, <2>1 DEF Applied, Stored, Checked
<1>5. CASE pc = "release"
  <2>1. pc' = "apply"
    BY <1>5 DEF StepAfter
  <2> QED
    BY <1>5, <2>1 DEF Applied, Stored, Checked
<1>6. CASE pc = "tls"
  <2>1. pc' = "serving"
    BY <1>6 DEF StepAfter
  <2> QED
    BY <1>6, <2>1 DEF Applied, Stored, Checked
<1> QED
  BY <1>1, <1>2, <1>3, <1>4, <1>5, <1>6

\* Every step of bootstrap and of what is beside it keeps the invariant.
LEMMA BootInvariant == BootInv /\ [Next]_vars => BootInv'
<1> SUFFICES ASSUME BootInv, [Next]_vars PROVE BootInv'
  OBVIOUS
<1> USE DEF BootInv, MonitorInv, LicenseInv
<1>1. CASE VendorChange \/ CreateNamespace \/ WatchImages \/ UNCHANGED vars
  BY <1>1 DEF VendorChange, CreateNamespace, WatchImages, vars, outVars
<1>2. CASE CallFails
  <2>1. pc \in {"clientset", "ids", "sync", "integration", "updates", "release",
                "tls", "license"}
    BY <1>2 DEF CallFails, Calls
  <2> QED
    BY <1>2, <2>1, BootStops DEF CallFails, Applied
<1>3. CASE GiveUp
  BY <1>3, BootStops DEF GiveUp
<1>4. CASE Refuse
  <2>1. pc \in {"license", "expiry"}
    BY <1>4 DEF Refuse, Hopeless
  <2> QED
    BY <1>4, <2>1, BootStops DEF Refuse, Applied
<1>5. CASE Retry
  BY <1>5, BootStops DEF Retry, Applied
<1>6. CASE Pass
  BY <1>6, BootPasses
<1>7. CASE ReadLicense \/ SyncLicense \/ DetectDistribution
  <2>1. pc \in {"license", "sync", "distribution"} /\ pc' = StepAfter(pc)
    BY <1>7 DEF ReadLicense, SyncLicense, DetectDistribution, Proceeds
  <2>2. pc' \in {"verify", "expiry", "license"}
    BY <2>1 DEF StepAfter
  <2> QED
    BY <1>7, <2>1, <2>2
    DEF ReadLicense, SyncLicense, DetectDistribution, outVars, Applied, Stored, Checked
<1>8. CASE InitInMemory
  <2>1. pc = "store" /\ pc' = "integration"
    BY <1>8 DEF InitInMemory, Proceeds, StepAfter
  <2> QED
    BY <1>8, <2>1 DEF InitInMemory, Applied, Stored, Checked
<1>9. CASE StartOperator
  <2>1. pc = "operator" /\ pc' = "release"
    BY <1>9 DEF StartOperator, Proceeds, StepAfter
  <2> QED
    BY <1>9, <2>1 DEF StartOperator, Applied, Stored, Checked
<1>10. CASE ApplyAppInformers
  <2>1. pc = "apply" /\ pc' = "heartbeat"
    BY <1>10 DEF ApplyAppInformers, Proceeds, StepAfter
  <2>2. monitors.applied = 0
    BY <2>1 DEF Applied
  <2> QED
    BY <1>10, <2>1, <2>2 DEF ApplyAppInformers, Applied, Stored, Checked
<1>11. CASE StartHeartbeat
  <2>1. pc = "heartbeat" /\ pc' = "tls"
    BY <1>11 DEF StartHeartbeat, Proceeds, StepAfter
  <2> QED
    BY <1>11, <2>1 DEF StartHeartbeat, Applied, Stored, Checked
<1> QED
  BY <1>1, <1>2, <1>3, <1>4, <1>5, <1>6, <1>7, <1>8, <1>9, <1>10, <1>11 DEF Next, Step

-----------------------------------------------------------------------------
(***************************************************************************)
(* Images.  What GetDistribution tells of the clusters a configuration may *)
(* have, and that bootstrap and the run of the informers act on it: what   *)
(* an attempt found stays until the next one asks again, and nobody asks   *)
(* again once informers were applied.                                      *)
(***************************************************************************)

\* Of the four calls in their order, the first with a known answer decides.
LEMMA FirstKnownIs ==
    ASSUME NEW cluster, NEW n \in 1..4, NEW answer, answer # {Unknown},
           LET calls == <<"groups", "provider", "labels", "version">>
           IN  /\ Asked(calls[n], cluster) = answer
               /\ \A i \in 1..n - 1 : Asked(calls[i], cluster) = {Unknown}
    PROVE  GetDistribution(cluster, {}) = answer
<1> DEFINE calls == <<"groups", "provider", "labels", "version">>
           known == {i \in DOMAIN calls :
                       calls[i] \notin {} /\ Asked(calls[i], cluster) # {Unknown}}
<1>1. DOMAIN calls = 1..4
  OBVIOUS
<1> HIDE DEF calls
<1>2. n \in known /\ \A j \in known : n <= j
  BY <1>1 DEF calls
<1>3. known \subseteq 1..4
  BY <1>1
<1> HIDE DEF known
<1>4. Foremost(known) = n
  <2>1. ASSUME NEW i \in known, \A j \in known : i <= j PROVE i = n
    <3>1. i \in Int /\ n \in Int /\ i <= n /\ n <= i
      BY <1>2, <1>3, <2>1
    <3> QED
      BY <3>1
  <2> QED
    BY <1>2, <2>1, Zenon DEF Foremost
<1>5. GetDistribution(cluster, {}) =
        IF known = {} THEN {Unknown} ELSE Asked(calls[Foremost(known)], cluster)
  BY Zenon DEF GetDistribution, FirstKnown, known, calls
<1>6. Asked(calls[n], cluster) = answer
  BY DEF calls
<1> QED
  BY <1>2, <1>4, <1>5, <1>6

\* An Embedded Cluster is told by the label of a node, whichever node has it.
LEMMA EmbeddedIsTold == GetDistribution(Embedded, {}) = {"embedded-cluster"}
<1> DEFINE nodes == <<Node({}), Node({"embedded-cluster"})>>
           labelled == {i \in DOMAIN nodes : nodes[i].labels # {}}
<1>1. Asked("groups", Embedded) = {Unknown}
  BY DEF Asked, Embedded, Cluster, distributionFromServerGroupAndResources, FirstOf
<1>2. Asked("provider", Embedded) = {Unknown}
  BY DEF Asked, Embedded, Cluster, Node, distributionFromProviderId
<1>3. Asked("labels", Embedded) = {"embedded-cluster"}
  <2>1. labelled = {2}
    BY DEF Node
  <2>2. Foremost({2}) = 2
    BY DEF Foremost
  <2>3. Embedded.nodes = nodes
    BY DEF Embedded, Cluster
  <2>4. nodes[2].labels = {"embedded-cluster"}
    BY DEF Node
  <2> HIDE DEF nodes
  <2>5. distributionFromLabels(Embedded) = {"embedded-cluster"}
    BY <2>1, <2>2, <2>3, <2>4 DEF distributionFromLabels
  <2> QED
    BY <2>5 DEF Asked
<1> QED
  BY <1>1, <1>2, <1>3, FirstKnownIs DEF Unknown

\* A cluster of kind is told by the provider of its node, before its labels.
LEMMA OtherIsTold == GetDistribution(Other, {}) = {"kind"}
<1>1. Asked("groups", Other) = {Unknown}
  BY DEF Asked, Other, Cluster, distributionFromServerGroupAndResources, FirstOf
<1>2. Asked("provider", Other) = {"kind"}
  BY DEF Asked, Other, Cluster, distributionFromProviderId
<1> QED
  BY <1>1, <1>2, FirstKnownIs DEF Unknown

\* The steps after the distribution was detected.
Detected == {"license", "verify", "sync", "expiry"} \cup Checked

\* What the attempt told of the cluster, if no call failed it.
Told ==
    ~misread =>
        /\ config.cluster = Embedded => reportAll
        /\ config.cluster = Other /\ ~config.reportAll => ~reportAll

ImagesInv ==
    /\ Namespace \ {"later"} \subseteq namespaces /\ namespaces \subseteq Namespace
    /\ pc \in Detected \/ monitors.applied = 1 => Told
    /\ watched # NotYet => monitors.applied = 1
    /\ ImagesAreWatched

\* The first attempt begins with nothing watched.
LEMMA ImagesStart == Init => ImagesInv
  BY DEF Init, ImagesInv, ImagesAreWatched, Namespace, Detected, Checked, Stored, Applied

\* A step that asks nothing about the cluster keeps what was told and watched.
LEMMA ImagesUndisturbed ==
    ASSUME ImagesInv, MonitorInv, UNCHANGED <<config, imageVars>>,
           namespaces' \in {namespaces, Namespace},
           pc' \in Detected => pc \in Detected,
           monitors'.applied = monitors.applied \/ (pc \in Detected /\ monitors'.applied = 1)
    PROVE  ImagesInv'
  BY DEF ImagesInv, ImagesAreWatched, Told, imageVars, MonitorInv

\* What an attempt finds out of the cluster it tells its store, before anything
\* is watched.
LEMMA DetectionTells ==
    ASSUME ImagesInv, MonitorInv, DetectDistribution
    PROVE  ImagesInv'
<1>1. pc = "distribution" /\ UNCHANGED <<world, license, outVars, watched>>
  BY DEF DetectDistribution, Proceeds
<1>2. monitors.applied # 1 /\ watched = NotYet
  BY <1>1 DEF MonitorInv, ImagesInv, Applied
<1>3. Told'
  <2>1. CASE config.reportAll /\ reportAll' = TRUE
    BY <1>1, <2>1 DEF Told, world
  <2>2. ASSUME NEW failing, misread' = (failing # {}), ~config.reportAll,
               NEW d \in GetDistribution(config.cluster, failing),
               reportAll' = (d = "embedded-cluster")
        PROVE  Told'
    <3>1. CASE failing # {}
      BY <2>2, <3>1 DEF Told
    <3>2. CASE failing = {}
      <4>1. config.cluster = Embedded => reportAll'
        BY <2>2, <3>2, EmbeddedIsTold
      <4>2. config.cluster = Other => ~reportAll'
        BY <2>2, <3>2, OtherIsTold
      <4> QED
        BY <1>1, <4>1, <4>2 DEF Told, world
    <3> QED
      BY <3>1, <3>2
  <2> QED
    BY <2>1, <2>2 DEF DetectDistribution
<1> QED
  BY <1>1, <1>2, <1>3 DEF ImagesInv, ImagesAreWatched, world, outVars

\* The run of the informers finds out the same for itself.
LEMMA WatchingFindsOut ==
    ASSUME ImagesInv, MonitorInv, WatchImages
    PROVE  ImagesInv'
<1>1. UNCHANGED <<world, pc, license, outVars, reportAll>> /\ monitors.applied = 1
  BY DEF WatchImages, MonitorInv
<1>2. PICK failing : /\ misread' = (misread \/ failing # {})
                     /\ \E d \in GetDistribution(config.cluster, failing) :
                          watched' = NamespacesToWatch(reportAll \/ d = "embedded-cluster", failing)
  BY DEF WatchImages
<1>3. Told'
  BY <1>1, <1>2 DEF ImagesInv, Told, world
<1>4. ASSUME ~misread' PROVE ImagesAreWatched'
  <2>1. failing = {} /\ Told
    BY <1>1, <1>2, <1>4 DEF ImagesInv
  <2>2. ASSUME config.cluster = Embedded, config.mayList
        PROVE  Readable \cap (Namespace \ {"later"}) \subseteq watched'
    <3>1. watched' = {n \in namespaces : n \in Readable}
      BY <1>2, <2>1, <2>2, EmbeddedIsTold
      DEF NamespacesToWatch, canListNamespaces, canAccessPodsInNamespace
    <3> QED
      BY <3>1 DEF ImagesInv
  <2>3. ASSUME config.cluster = Other, ~config.reportAll
        PROVE  watched' \subseteq informerNamespaces
    <3>1. ~reportAll
      BY <1>1, <1>2, <1>4, <2>1, <2>3 DEF Told
    <3> QED
      BY <1>2, <2>1, <2>3, <3>1, OtherIsTold DEF NamespacesToWatch
  <2> QED
    BY <1>1, <1>2, <1>4, <2>1, <2>2, <2>3 DEF ImagesAreWatched, Told, world
<1> QED
  BY <1>1, <1>3, <1>4 DEF ImagesInv, ImagesAreWatched, world, outVars

\* Every step of bootstrap and of what is beside it keeps what was found out.
LEMMA ImagesInvariant == ImagesInv /\ MonitorInv /\ [Next]_vars => ImagesInv'
<1> SUFFICES ASSUME ImagesInv, MonitorInv, [Next]_vars PROVE ImagesInv'
  OBVIOUS
<1> USE DEF Detected, Checked, Stored, Applied
<1>1. CASE VendorChange \/ CreateNamespace \/ UNCHANGED vars
  <2>1. /\ UNCHANGED <<config, imageVars, pc, monitors>>
        /\ namespaces' \in {namespaces, Namespace}
    BY <1>1 DEF VendorChange, CreateNamespace, vars, outVars, imageVars
  <2> QED
    BY <2>1, ImagesUndisturbed
<1>2. CASE CallFails \/ GiveUp \/ Refuse \/ Retry
  <2>1. /\ UNCHANGED <<world, imageVars, monitors>>
        /\ pc' \in {"dead", "waiting", "clientset"}
    BY <1>2 DEF CallFails, GiveUp, Refuse, Retry, outVars
  <2> QED
    BY <2>1, ImagesUndisturbed DEF world
<1>3. CASE Pass \/ ReadLicense \/ SyncLicense \/ InitInMemory \/ StartOperator
           \/ StartHeartbeat
  <2>1. /\ UNCHANGED <<world, imageVars>> /\ monitors'.applied = monitors.applied
        /\ pc' = StepAfter(pc)
    BY <1>3 DEF Pass, ReadLicense, SyncLicense, InitInMemory, StartOperator,
                StartHeartbeat, Proceeds, outVars, MonitorInv
  <2>2. /\ pc # "distribution"
        /\ pc \in {"arguments", "clientset", "ids"} \cup Detected
    BY <1>3 DEF Pass, ReadLicense, SyncLicense, InitInMemory, StartOperator,
                StartHeartbeat, Proceeds, Skipped
  <2>3. pc' \in Detected => pc \in Detected
    BY <2>1, <2>2 DEF StepAfter
  <2> QED
    BY <2>1, <2>3, ImagesUndisturbed DEF world
<1>4. CASE ApplyAppInformers
  <2>1. /\ UNCHANGED <<world, imageVars>> /\ pc = "apply"
        /\ monitors' = [monitors EXCEPT !.applied = @ + 1]
    BY <1>4 DEF ApplyAppInformers, Proceeds
  <2>2. monitors.applied = 0
    BY <2>1 DEF MonitorInv
  <2>3. monitors'.applied = 1
    BY <2>1, <2>2 DEF MonitorInv
  <2> QED
    BY <2>1, <2>3, ImagesUndisturbed DEF world
<1>5. CASE DetectDistribution
  BY <1>5, DetectionTells
<1>6. CASE WatchImages
  BY <1>6, WatchingFindsOut
<1> QED
  BY <1>1, <1>2, <1>3, <1>4, <1>5, <1>6 DEF Next, Step

-----------------------------------------------------------------------------
(***************************************************************************)
(* Uploads.  What is known of a bundle is never lost: the vendor's bundles *)
(* only grow, in number and in what was done to them.                      *)
(***************************************************************************)
Bundle == [whole : BOOLEAN, marked : BOOLEAN]

\* The bundles are no fewer, and each is as whole as it was.
Grow(before, after) ==
    /\ Len(before) <= Len(after)
    /\ \A b \in 1..Len(before) :
         /\ before[b].whole => after[b].whole
         /\ before[b].marked => after[b].marked

Honest == \A b \in 1..Len(vendor) : vendor[b].marked => vendor[b].whole

\* A call about bundle b is one that the handler makes when it should.
Due(call, b) ==
    /\ call \in UploadCalls
    /\ call # "GetSupportBundleUploadURL" => b \in 1..Len(vendor)
    /\ call = "MarkSupportBundleUploaded" => vendor[b].whole

LateInv == \A e \in late : Due(e[1], e[2])

UploadInv ==
    /\ vendor \in Seq(Bundle) /\ held \in Nat
    /\ Honest
    /\ step \in UploadCalls \cup {"idle", "answered"}
    /\ silent \in {"nobody", "server", "client"}
    /\ silent # "nobody" => step \in UploadCalls
    /\ step \in UploadCalls => reply = 0 /\ Due(step, held)
    /\ LateInv
    /\ reply = 201 => held \in 1..Len(vendor) /\ vendor[held].whole /\ vendor[held].marked

\* One bundle of the vendor's is replaced.
LEMMA Replaced ==
    ASSUME vendor \in Seq(Bundle), NEW b \in 1..Len(vendor), NEW new \in Bundle
    PROVE  LET after == [vendor EXCEPT ![b] = new]
           IN  /\ after \in Seq(Bundle) /\ Len(after) = Len(vendor)
               /\ after[b] = new
               /\ \A i \in 1..Len(vendor) : i # b => after[i] = vendor[i]
  OBVIOUS

\* A call that is due keeps the bundles honest, and makes them grow.
LEMMA ServedGrows ==
    ASSUME vendor \in Seq(Bundle), Honest, NEW call, NEW b, Due(call, b)
    PROVE  /\ Served(call, b) \in Seq(Bundle)
           /\ Grow(vendor, Served(call, b))
           /\ \A i \in 1..Len(Served(call, b)) :
                Served(call, b)[i].marked => Served(call, b)[i].whole
<1>1. CASE call = "GetSupportBundleUploadURL"
  <2> DEFINE new == [whole |-> FALSE, marked |-> FALSE]
  <2>1. Served(call, b) = Append(vendor, new)
    BY <1>1 DEF Served
  <2>2. new \in Bundle
    BY DEF Bundle
  <2> HIDE DEF new
  <2>3. /\ Append(vendor, new) \in Seq(Bundle)
        /\ Len(Append(vendor, new)) = Len(vendor) + 1
        /\ \A i \in 1..Len(vendor) : Append(vendor, new)[i] = vendor[i]
        /\ Append(vendor, new)[Len(vendor) + 1] = new
    BY <2>2
  <2> QED
    BY <2>1, <2>3 DEF Grow, Honest, new
<1>2. CASE call = "UploadToS3"
  <2> DEFINE new == [vendor[b] EXCEPT !.whole = TRUE]
             after == [vendor EXCEPT ![b] = new]
  <2>1. Served(call, b) = after
    BY <1>2 DEF Served
  <2>2. b \in 1..Len(vendor)
    BY <1>2 DEF Due
  <2>3. vendor[b] \in Bundle
    BY <2>2
  <2>4. new \in Bundle /\ new.whole = TRUE /\ new.marked = vendor[b].marked
    BY <2>3 DEF Bundle
  <2> HIDE DEF new
  <2>5. /\ after \in Seq(Bundle) /\ Len(after) = Len(vendor)
        /\ after[b] = new
        /\ \A i \in 1..Len(vendor) : i # b => after[i] = vendor[i]
    BY <2>2, <2>4, Replaced
  <2> HIDE DEF after
  <2> QED
    BY <2>1, <2>2, <2>4, <2>5 DEF Grow, Honest
<1>3. CASE call = "MarkSupportBundleUploaded"
  <2> DEFINE new == [vendor[b] EXCEPT !.marked = TRUE]
             after == [vendor EXCEPT ![b] = new]
  <2>1. Served(call, b) = after
    BY <1>3 DEF Served
  <2>2. b \in 1..Len(vendor) /\ vendor[b].whole
    BY <1>3 DEF Due
  <2>3. vendor[b] \in Bundle
    BY <2>2
  <2>4. new \in Bundle /\ new.marked /\ new.whole
    BY <2>2, <2>3 DEF Bundle
  <2> HIDE DEF new
  <2>5. /\ after \in Seq(Bundle) /\ Len(after) = Len(vendor)
        /\ after[b] = new
        /\ \A i \in 1..Len(vendor) : i # b => after[i] = vendor[i]
    BY <2>2, <2>4, Replaced
  <2> HIDE DEF after
  <2> QED
    BY <2>1, <2>2, <2>4, <2>5 DEF Grow, Honest
<1> QED
  BY <1>1, <1>2, <1>3 DEF Due, UploadCalls

\* What was due stays due while bundles grow.
LEMMA DueStays ==
    ASSUME vendor \in Seq(Bundle), vendor' \in Seq(Bundle), Grow(vendor, vendor'),
           NEW call, NEW b, Due(call, b)
    PROVE  Due(call, b)'
  BY DEF Due, Grow

\* There are no bundles and no calls given up before the first request.
LEMMA UploadStarts == UploadInit => UploadInv
<1> SUFFICES ASSUME UploadInit PROVE UploadInv
  OBVIOUS
<1>1. vendor \in Seq(Bundle) /\ Len(vendor) = 0
  BY DEF UploadInit
<1>2. silent = "nobody"
  BY DEF UploadInit
<1>3. step = "idle" /\ step \notin UploadCalls /\ reply = 0 /\ held = 0
  BY DEF UploadInit, UploadCalls
<1>4. LateInv
  BY DEF UploadInit, LateInv
<1> QED
  BY <1>1, <1>2, <1>3, <1>4 DEF UploadInv, Honest

\* A call takes effect, now or late, and those that were due still are.
LEMMA EffectKeeps ==
    ASSUME vendor \in Seq(Bundle), Honest, NEW call, NEW b, Due(call, b),
           vendor' \in {vendor, Served(call, b)}
    PROVE  /\ vendor' \in Seq(Bundle) /\ Honest'
           /\ Grow(vendor, vendor')
<1>1. CASE vendor' = vendor
  BY <1>1 DEF Honest, Grow
<1>2. CASE vendor' = Served(call, b)
  BY <1>2, ServedGrows DEF Honest
<1> QED
  BY <1>1, <1>2

\* A request that was answered with an error leaves what holds of bundles.
LEMMA ErrorKeeps ==
    ASSUME UploadInv, AnswerError, UNCHANGED held, silent' = "nobody",
           vendor' \in Seq(Bundle), Honest', Grow(vendor, vendor'),
           \A e \in late' : Due(e[1], e[2])
    PROVE  UploadInv'
<1>1. LateInv'
  BY DueStays DEF UploadInv, LateInv
<1>2. silent' = "nobody"
  OBVIOUS
<1>3. step' = "answered" /\ step' \notin UploadCalls /\ reply' = 500
  BY DEF AnswerError, UploadCalls
<1>4. held' \in Nat
  BY DEF UploadInv
<1> QED
  BY <1>1, <1>2, <1>3, <1>4 DEF UploadInv

\* Bundles stay honest, whatever becomes of a request and of the calls given up.
LEMMA UploadInvariant ==
    UploadInv /\ (Upload \/ Handler \/ Environment \/ UNCHANGED uploadVars) => UploadInv'
<1> SUFFICES ASSUME UploadInv,
                    Upload \/ Handler \/ Environment \/ UNCHANGED uploadVars
             PROVE  UploadInv'
  OBVIOUS
<1>1. CASE Upload
  <2>1. /\ UNCHANGED <<vendor, silent, late>> /\ held' = 0 /\ silent = "nobody"
        /\ \/ step' = "answered" /\ reply' = 400
           \/ step' = "GetSupportBundleUploadURL" /\ reply' = 0
    BY <1>1 DEF Upload, UploadSupportBundle, UploadInv, UploadCalls
  <2> QED
    BY <2>1 DEF UploadInv, Honest, LateInv, Due, UploadCalls
<1>2. CASE CallServed
  <2>1. Due(step, held) /\ vendor' = Served(step, held) /\ reply = 0
        /\ vendor \in Seq(Bundle) /\ Honest /\ silent = "nobody"
    BY <1>2 DEF CallServed, Calling, UploadInv
  <2>2. vendor' \in Seq(Bundle) /\ Honest' /\ Grow(vendor, vendor')
    BY <2>1, EffectKeeps
  <2>3. LateInv'
    BY <1>2, <2>1, <2>2, DueStays DEF CallServed, UploadInv, LateInv
  <2>4. UNCHANGED silent
    BY <1>2 DEF CallServed
  <2>5. CASE step = "GetSupportBundleUploadURL"
    <3>1. step' = "UploadToS3" /\ reply' = 0 /\ held' = Len(vendor) + 1
      BY <1>2, <2>1, <2>5 DEF CallServed, CallAfter
    <3>2. Len(vendor') = Len(vendor) + 1
      BY <2>1, <2>5 DEF Served
    <3> QED
      BY <2>1, <2>2, <2>3, <2>4, <3>1, <3>2 DEF UploadInv, Due, UploadCalls
  <2>6. CASE step = "UploadToS3"
    <3>1. step' = "MarkSupportBundleUploaded" /\ reply' = 0 /\ held' = held
      BY <1>2, <2>1, <2>6 DEF CallServed, CallAfter
    <3>2. held \in 1..Len(vendor)
      BY <2>1, <2>6 DEF Due
    <3>3. vendor'[held].whole = TRUE /\ held \in 1..Len(vendor')
      BY <2>1, <2>2, <2>6, <3>2 DEF Served, Grow, Bundle
    <3> QED
      BY <2>1, <2>2, <2>3, <2>4, <3>1, <3>3 DEF UploadInv, Due, UploadCalls
  <2>7. CASE step = "MarkSupportBundleUploaded"
    <3>1. step' = "answered" /\ reply' = 201 /\ held' = held
      BY <1>2, <2>1, <2>7 DEF CallServed, CallAfter
    <3>2. held \in 1..Len(vendor)
      BY <2>1, <2>7 DEF Due
    <3>3. vendor'[held].marked = TRUE /\ held \in 1..Len(vendor')
      BY <2>1, <2>2, <2>7, <3>2 DEF Served, Grow, Bundle
    <3>4. vendor'[held].whole
      BY <2>2, <3>3 DEF Honest
    <3> QED
      BY <2>1, <2>2, <2>3, <2>4, <3>1, <3>3, <3>4 DEF UploadInv, UploadCalls
  <2> QED
    BY <1>2, <2>5, <2>6, <2>7 DEF CallServed, Calling, UploadCalls
<1>3. CASE CallGoesWrong
  <2>1. vendor' \in Seq(Bundle) /\ Honest' /\ Grow(vendor, vendor')
    BY <1>3, EffectKeeps DEF CallGoesWrong, Calling, UploadInv
  <2> QED
    BY <1>3, <2>1, ErrorKeeps DEF CallGoesWrong, Calling, UploadInv, LateInv
<1>4. CASE TimeOut
  <2>1. Due(step, held)
    BY <1>4 DEF TimeOut, UploadInv
  <2>2. \A e \in late' : Due(e[1], e[2])
    BY <1>4, <2>1 DEF TimeOut, UploadInv, LateInv
  <2>3. vendor' \in Seq(Bundle) /\ Honest' /\ Grow(vendor, vendor')
    BY <1>4 DEF TimeOut, UploadInv, Honest, Grow
  <2> QED
    BY <1>4, <2>2, <2>3, ErrorKeeps DEF TimeOut
<1>5. CASE Stall \/ ClientFallsSilent
  BY <1>5 DEF Stall, ClientFallsSilent, FallsSilent, Calling, UploadInv, Honest, LateInv, Due
<1>6. CASE ClientIsBack
  <2>1. /\ silent' = "nobody" /\ UNCHANGED <<held, vendor, late>>
        /\ UNCHANGED <<step, reply>> \/ AnswerError
    BY <1>6 DEF ClientIsBack
  <2>2. vendor' \in Seq(Bundle) /\ Honest' /\ Grow(vendor, vendor')
    BY <2>1 DEF UploadInv, Honest, Grow
  <2>3. CASE AnswerError
    BY <2>1, <2>2, <2>3, ErrorKeeps DEF UploadInv, LateInv
  <2>4. CASE UNCHANGED <<step, reply>>
    BY <2>1, <2>4 DEF UploadInv, Honest, LateInv, Due
  <2> QED
    BY <2>1, <2>3, <2>4
<1>7. CASE LateEffect
  <2>1. PICK e \in late : late' = late \ {e} /\ vendor' = Served(e[1], e[2])
    BY <1>7 DEF LateEffect
  <2>2. vendor' \in Seq(Bundle) /\ Honest' /\ Grow(vendor, vendor')
    BY <2>1, EffectKeeps DEF UploadInv, LateInv
  <2>3. LateInv'
    BY <2>1, <2>2, DueStays DEF UploadInv, LateInv
  <2>4. UNCHANGED <<step, held, reply, silent>>
    BY <1>7 DEF LateEffect
  <2>5. step \in UploadCalls => Due(step, held)'
    BY <2>2, <2>4, DueStays DEF UploadInv
  <2>6. reply = 201 => held \in 1..Len(vendor') /\ vendor'[held].whole /\ vendor'[held].marked
    BY <2>2 DEF UploadInv, Grow
  <2> QED
    BY <2>2, <2>3, <2>4, <2>5, <2>6 DEF UploadInv, Due
<1>8. CASE UNCHANGED uploadVars
  BY <1>8 DEF uploadVars, UploadInv, Honest, LateInv, Due
<1> QED
  BY <1>1, <1>2, <1>3, <1>4, <1>5, <1>6, <1>7, <1>8 DEF Handler, Environment

-----------------------------------------------------------------------------
(***************************************************************************)
(* Types.  Each attempt that started a monitor and was followed by another *)
(* had a call that failed, for what is tried again without one comes       *)
(* before the operator.                                                    *)
(***************************************************************************)
Started == {"release", "apply", "dead"} \cup Applied

CountInv ==
    /\ failures \in 0..MaxFailures
    /\ monitors \in [started : Nat, applied : Nat]
    /\ monitors.started <= failures + 1
    /\ pc \notin Started => monitors.started <= failures

TypeInv ==
    /\ config \in Config
    /\ latest \in License /\ license \in License
    /\ stored \in Version \cup {None}
    /\ entries \in 0..1
    /\ reportAll \in BOOLEAN /\ misread \in BOOLEAN
    /\ watched = NotYet \/ watched \subseteq Namespace
    /\ namespaces \subseteq Namespace

\* The first attempt begins with nothing started.
LEMMA TypesStart == Init => CountInv /\ TypeInv
<1> SUFFICES ASSUME Init PROVE CountInv /\ TypeInv
  OBVIOUS
<1>1. CountInv
  BY BootstrapAssumption DEF Init, CountInv
<1>2. config \in Config
  BY DEF Init
<1>3. latest \in License /\ license \in License
  BY BootstrapAssumption DEF Init, License, Version
<1>4. stored = None /\ entries \in 0..1 /\ watched = NotYet
  BY DEF Init
<1>5. reportAll \in BOOLEAN /\ misread \in BOOLEAN
  BY DEF Init
<1>6. namespaces \subseteq Namespace
  BY DEF Init
<1> QED
  BY <1>1, <1>2, <1>3, <1>4, <1>5, <1>6 DEF TypeInv

\* Every step keeps the types.
LEMMA TypeInvariant == TypeInv /\ [Next]_vars => TypeInv'
<1> SUFFICES ASSUME TypeInv, [Next]_vars PROVE TypeInv'
  OBVIOUS
<1> USE DEF TypeInv, world, outVars, imageVars
<1>1. CASE UNCHANGED vars
  BY <1>1 DEF vars
<1>2. CASE VendorChange
  <2>1. latest' \in License
    BY <1>2, BootstrapAssumption DEF VendorChange, License, Version
  <2> QED
    BY <1>2, <2>1 DEF VendorChange
<1>3. CASE CreateNamespace
  BY <1>3 DEF CreateNamespace
<1>4. CASE CallFails \/ GiveUp \/ Refuse \/ Retry \/ Pass \/ StartOperator
           \/ ApplyAppInformers \/ StartHeartbeat
  BY <1>4 DEF CallFails, GiveUp, Refuse, Retry, Pass, StartOperator,
              ApplyAppInformers, StartHeartbeat
<1>5. CASE ReadLicense
  <2>1. license' \in License
    BY <1>5, BootstrapAssumption DEF ReadLicense, License, Version
  <2> QED
    BY <1>5, <2>1 DEF ReadLicense
<1>6. CASE SyncLicense
  BY <1>6 DEF SyncLicense
<1>7. CASE DetectDistribution
  BY <1>7 DEF DetectDistribution
<1>8. CASE InitInMemory
  BY <1>8 DEF InitInMemory, License
<1>9. CASE WatchImages
  <2>1. watched' \subseteq Namespace
    BY <1>9 DEF WatchImages, NamespacesToWatch, informerNamespaces, Namespace
  <2>2. misread' \in BOOLEAN
    BY <1>9 DEF WatchImages
  <2> QED
    BY <1>9, <2>1, <2>2 DEF WatchImages
<1> QED
  BY <1>1, <1>2, <1>3, <1>4, <1>5, <1>6, <1>7, <1>8, <1>9 DEF Next, Step

\* At most one monitor is started between two calls that fail.
LEMMA CountInvariant == CountInv /\ [Next]_vars => CountInv'
<1> SUFFICES ASSUME CountInv, [Next]_vars PROVE CountInv'
  OBVIOUS
<1> USE BootstrapAssumption DEF CountInv, outVars
<1>1. ASSUME NEW failing, MayFail(failing)
      PROVE  failures' \in 0..MaxFailures /\ failures' >= failures
  BY <1>1 DEF MayFail
<1>2. ASSUME failures' \in 0..MaxFailures, failures' >= failures, UNCHANGED monitors,
             pc' \notin Started => pc \notin Started
      PROVE  CountInv'
  BY <1>2
<1>3. CASE VendorChange \/ CreateNamespace \/ UNCHANGED vars
  BY <1>3 DEF VendorChange, CreateNamespace, vars
<1>4. CASE CallFails
  <2>1. failures' = failures + 1 /\ failures' \in 0..MaxFailures /\ UNCHANGED monitors
    BY <1>4 DEF CallFails, MayFail
  <2> QED
    BY <2>1
<1>5. CASE GiveUp
  BY <1>5 DEF GiveUp, Started
<1>6. CASE Refuse
  <2>1. pc \in {"license", "expiry"}
    BY <1>6 DEF Refuse, Hopeless
  <2> QED
    BY <1>6, <2>1 DEF Refuse, Started, Applied
<1>7. CASE Retry
  BY <1>7 DEF Retry, Started, Applied
<1>8. CASE Pass
  <2>1. pc \in {"arguments", "clientset", "ids", "verify", "sync", "expiry",
                "integration", "updates", "release", "tls"}
    BY <1>8 DEF Pass, Skipped
  <2>2. pc \in Started => pc' \in Started
    <3>1. pc \in Started => pc \in {"release", "tls"}
      BY <2>1 DEF Started, Applied
    <3>2. pc \in {"release", "tls"} => pc' \in {"apply", "serving"}
      BY <1>8 DEF Pass, Proceeds, StepAfter
    <3> QED
      BY <3>1, <3>2 DEF Started, Applied
  <2> QED
    BY <1>8, <2>2 DEF Pass
<1>9. CASE ReadLicense \/ SyncLicense \/ DetectDistribution \/ InitInMemory
  <2>1. pc \in {"license", "sync", "distribution", "store"}
    BY <1>9 DEF ReadLicense, SyncLicense, DetectDistribution, InitInMemory, Proceeds
  <2>2. failures' \in 0..MaxFailures /\ failures' >= failures
    BY <1>1, <1>9 DEF ReadLicense, SyncLicense, DetectDistribution, InitInMemory
  <2>3. UNCHANGED monitors
    BY <1>9 DEF ReadLicense, SyncLicense, DetectDistribution, InitInMemory
  <2> QED
    BY <1>2, <2>1, <2>2, <2>3 DEF Started, Applied
<1>10. CASE StartOperator
  <2>1. pc = "operator" /\ pc' = "release" /\ UNCHANGED failures
    BY <1>10 DEF StartOperator, Proceeds, StepAfter
  <2>2. monitors.started <= failures
    BY <2>1 DEF Started, Applied
  <2>3. monitors' \in [started : Nat, applied : Nat]
        /\ monitors'.started = monitors.started + 1
    BY <1>10 DEF StartOperator
  <2> QED
    BY <2>1, <2>2, <2>3 DEF Started
<1>11. CASE ApplyAppInformers
  <2>1. pc' = "heartbeat" /\ UNCHANGED failures
    BY <1>11 DEF ApplyAppInformers, Proceeds, StepAfter
  <2>2. monitors' \in [started : Nat, applied : Nat]
        /\ monitors'.started = monitors.started
    BY <1>11 DEF ApplyAppInformers
  <2> QED
    BY <2>1, <2>2 DEF Started, Applied
<1>12. CASE StartHeartbeat
  <2>1. pc' = "tls" /\ UNCHANGED <<failures, monitors>>
    BY <1>12 DEF StartHeartbeat, Proceeds, StepAfter
  <2> QED
    BY <2>1 DEF Started, Applied
<1>13. CASE WatchImages
  BY <1>1, <1>2, <1>13 DEF WatchImages
<1> QED
  BY <1>3, <1>4, <1>5, <1>6, <1>7, <1>8, <1>9, <1>10, <1>11, <1>12, <1>13 DEF Next, Step

-----------------------------------------------------------------------------
\* The invariants hold of the server, whose steps are of the one or the other.
LEMMA Invariance == ServerSpec => [](BootInv /\ ImagesInv /\ UploadInv)
<1>1. ServerInit => BootInv /\ ImagesInv /\ UploadInv
  BY BootStarts, ImagesStart, UploadStarts DEF ServerInit
<1>2. BootInv /\ ImagesInv /\ UploadInv /\ [ServerNext]_<<vars, uploadVars>>
        => BootInv' /\ ImagesInv' /\ UploadInv'
  BY BootInvariant, ImagesInvariant, UploadInvariant DEF ServerNext, BootInv
<1> QED
  BY <1>1, <1>2, PTL DEF ServerSpec

\* The types of bootstrap, and that no more attempts left a monitor behind than
\* had a call that failed, and one (bootstrap.go:26-192).
THEOREM TypeCorrect == ServerSpec => []TypeOK
<1>1. ServerInit => CountInv /\ TypeInv
  BY TypesStart DEF ServerInit
<1>2. CountInv /\ TypeInv /\ [ServerNext]_<<vars, uploadVars>> => CountInv' /\ TypeInv'
  BY CountInvariant, TypeInvariant DEF ServerNext, vars
<1>3. CountInv /\ TypeInv => TypeOK
  BY BootstrapAssumption DEF CountInv, TypeInv, TypeOK
<1> QED
  BY <1>1, <1>2, <1>3, PTL DEF ServerSpec

\* However many attempts it took, one monitor watches the app and one cron entry
\* sends heartbeats (bootstrap.go:26-192, heartbeat.go:25-82).
THEOREM OneMonitorReports == ServerSpec => []OneReporter
<1>1. BootInv => OneReporter
  BY DEF BootInv, MonitorInv, OneReporter, Applied
<1> QED
  BY <1>1, Invariance, PTL

\* The server starts on the license of its last attempt, which had not expired
\* when it was checked (bootstrap.go:59-129).
THEOREM LicenseChecked == ServerSpec => []ServesChecked
<1>1. BootInv => ServesChecked
  BY DEF BootInv, LicenseInv, ServesChecked, Applied, Stored, Checked
<1> QED
  BY <1>1, Invariance, PTL

\* Where no call failed, an Embedded Cluster has the images of all its pods
\* reported, and no other cluster those of pods without an informer, for any
\* number of attempts (bootstrap.go:51-57, appstate.go:226-269).
THEOREM EmbeddedIsWatched == ServerSpec => []ImagesAreWatched
<1>1. ImagesInv => ImagesAreWatched
  BY DEF ImagesInv
<1> QED
  BY <1>1, Invariance, PTL

\* A bundle that is told or marked as uploaded is at the vendor, whole, for any
\* number of requests, failures and late calls (supportbundle.go:17-54).
THEOREM HonestUploads == ServerSpec => []UploadsAreHonest
<1>1. UploadInv => UploadsAreHonest
  <2> SUFFICES ASSUME UploadInv PROVE UploadsAreHonest
    OBVIOUS
  <2>1. reply = 201 => vendor[held] = [whole |-> TRUE, marked |-> TRUE]
    <3> SUFFICES ASSUME reply = 201 PROVE vendor[held] = [whole |-> TRUE, marked |-> TRUE]
      OBVIOUS
    <3>1. vendor[held] \in Bundle /\ vendor[held].whole /\ vendor[held].marked
      BY DEF UploadInv
    <3> QED
      BY <3>1 DEF Bundle
  <2> QED
    BY <2>1 DEF UploadInv, Honest, UploadsAreHonest
<1> QED
  BY <1>1, Invariance, PTL

=============================================================================
