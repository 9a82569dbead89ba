----------------------------- MODULE Bootstrap -----------------------------
(***************************************************************************)
(* How the server comes up: bootstrap is retried every ten seconds from    *)
(* its first line until it succeeds or fails for good, and each attempt    *)
(* replaces the store and the operator of the one before                   *)
(* (cmd/replicated/api.go, pkg/apiserver/server.go, bootstrap.go,          *)
(* pkg/heartbeat/heartbeat.go).  Once informers are applied, their run     *)
(* decides beside it in which namespaces pod images are watched            *)
(* (pkg/appstate/appstate.go).                                             *)
(*                                                                         *)
(* The vendor, whose latest license an attempt syncs, is external: it      *)
(* changes or expires the license at any time.  So is the cluster.         *)
(***************************************************************************)
EXTENDS Integers, FiniteSets, Distribution

CONSTANTS
    MaxFailures,    \* bound: calls that fail
    MaxChanges,     \* bound: changes of the vendor's license
    MaxOdd          \* bound: what is not as usual in a configuration

ASSUME BootstrapAssumption ==
    MaxFailures \in Nat /\ MaxChanges \in Nat /\ MaxOdd \in Nat

Version == 0..MaxChanges
None == -1

VARIABLES
    config,     \* what the environment, the parameters and the cluster say
    latest,     \* the vendor's license: [version, expired]
    namespaces, \* the namespaces there are
    pc,         \* the step of bootstrap, "waiting", "serving" or "dead"
    failures,
    license,    \* the license this attempt holds
    stored,     \* the version of the license in the store
    reportAll,  \* reportAllImages: of this attempt, and of its store
    monitors,   \* the operators' monitors: how many, and with informers
    entries,    \* entries of the heartbeat's cron job
    watched,    \* the namespaces whose pod images are watched; NotYet before
    misread     \* history: did a call about cluster or namespaces fail?

vars == <<config, latest, namespaces, pc, failures, license, stored, reportAll,
          monitors, entries, watched, misread>>
world == <<config, latest, namespaces>>
outVars == <<stored, monitors, entries>>
imageVars == <<reportAll, watched, misread>>

-----------------------------------------------------------------------------
(***************************************************************************)
(* Configurations: the usual one, and those that differ from it in up to   *)
(* MaxOdd ways.                                                            *)
(***************************************************************************)
Node(labels) == [provider |-> Unknown, labels |-> labels]
Cluster(nodes) == [groups |-> <<>>, nodes |-> nodes, version |-> "k0s"]

\* An Embedded Cluster, alone or on nodes another label of which is known.
Embedded == Cluster(<<Node({}), Node({"embedded-cluster"})>>)
Disguised == Cluster(<<Node({"aks", "embedded-cluster"})>>)
Other == Cluster(<<[provider |-> "kind", labels |-> {"embedded-cluster"}]>>)

Usual == [airgap |-> FALSE,
          source |-> "bytes",       \* where the license comes from
          fault |-> "none",
          ids |-> "given",          \* the Replicated and app IDs
          integration |-> FALSE,    \* is integration mode enabled?
          helm |-> TRUE,            \* are informers made from the Helm release?
          tls |-> "none",           \* the TLS secret
          reportAll |-> FALSE,      \* the parameter ReportAllImages
          cluster |-> Embedded,
          mayList |-> TRUE]         \* may the account list namespaces?

Config ==
    [airgap : BOOLEAN,
     source : {"bytes", "id", "both", "neither"},
     fault : {"none", "parse", "type", "signature", "date", "expired"},
     ids : {"given", "found", "missing"},
     integration : BOOLEAN,
     helm : BOOLEAN,
     tls : {"none", "good", "bad"},
     reportAll : BOOLEAN,
     cluster : {Embedded, Disguised, Other},
     mayList : BOOLEAN]

Odd(c) == {o \in DOMAIN Usual : c[o] # Usual[o]}

License == [version : Version, expired : BOOLEAN]

\* The app and its status informers are in the first; "closed" the account may
\* not read, and "later" is created some time.
Namespace == {"app", "other", "closed", "later"}
informerNamespaces == {"app"}
Readable == {"app", "other", "later"}
NotYet == {"not yet"}

-----------------------------------------------------------------------------
\* The steps that call out and may fail for the moment.
Calls == {"clientset", "ids", "sync", "integration", "updates", "release", "tls"}

\* Faulty variant of StepAfter: the informers are applied before the release
\* is read.
StepAfterEager(s) ==
    CASE s = "arguments" -> "clientset"    [] s = "clientset" -> "ids"
      [] s = "ids" -> "distribution"       [] s = "distribution" -> "license"
      [] s = "license" -> "verify"         [] s = "verify" -> "sync"
      [] s = "sync" -> "expiry"            [] s = "expiry" -> "store"
      [] s = "store" -> "integration"      [] s = "integration" -> "updates"
      [] s = "updates" -> "operator"       [] s = "operator" -> "apply"
      [] s = "apply" -> "release"          [] s = "release" -> "heartbeat"
      [] s = "heartbeat" -> "tls"          [] s = "tls" -> "serving"

StepAfter(s) ==
    CASE s = "arguments" -> "clientset"    [] s = "clientset" -> "ids"
      [] s = "ids" -> "distribution"       [] s = "distribution" -> "license"
      [] s = "license" -> "verify"         [] s = "verify" -> "sync"
      [] s = "sync" -> "expiry"            [] s = "expiry" -> "store"
      [] s = "store" -> "integration"      [] s = "integration" -> "updates"
      [] s = "updates" -> "operator"       [] s = "operator" -> "release"
      [] s = "release" -> "apply"          [] s = "apply" -> "heartbeat"
      [] s = "heartbeat" -> "tls"          [] s = "tls" -> "serving"

\* Calls some configurations do without.
Skipped(s) ==
    \/ s = "ids" /\ config.ids = "given"
    \/ s = "sync" /\ config.airgap
    \/ s = "updates" /\ (config.airgap \/ config.integration)
    \/ s = "release" /\ ~config.helm
    \/ s = "tls" /\ config.tls = "none"

\* RunE accepts a license in the config file, or the ID of one, and not both.
RunE == config.source \in {"bytes", "id"}

\* The IDs of the parameters, or those of the legacy config map, or the UID of
\* the deployment; a config map without them gives none.
GetReplicatedAndAppIDs == config.ids # "missing"

\* The TLS secret has a certificate and its key.
loadTLSConfig == config.tls # "bad"

\* An error that ends the process: RunE returns it, backoff.Permanent wraps it
\* or log.Fatalf tells it.
Fatal(s) ==
    \/ s = "arguments" /\ ~RunE
    \/ s = "ids" /\ ~GetReplicatedAndAppIDs
    \/ s = "verify" /\ config.fault = "signature"
    \/ s = "expiry" /\ license.expired
    \/ s = "tls" /\ ~loadTLSConfig

\* Faulty variant of Hopeless: a missing ID may be tried again.
HopelessToo(s) ==
    \/ s = "ids" /\ ~GetReplicatedAndAppIDs
    \/ s = "license" /\ config.source = "bytes" /\ config.fault = "parse"
    \/ s = "license" /\ config.source = "id" /\ config.fault = "type"
    \/ s = "expiry" /\ config.fault = "date"

\* An error that comes back at every attempt, yet is tried again: a license
\* that does not parse, an integration license that is not a dev license, an
\* expiration date that does not parse.
Hopeless(s) ==
    \/ s = "license" /\ config.source = "bytes" /\ config.fault = "parse"
    \/ s = "license" /\ config.source = "id" /\ config.fault = "type"
    \/ s = "expiry" /\ config.fault = "date"

-----------------------------------------------------------------------------
Init ==
    /\ config \in {c \in Config : Cardinality(Odd(c)) <= MaxOdd}
    /\ latest = [version |-> 0, expired |-> FALSE]
    /\ namespaces = Namespace \ {"later"}
    /\ pc = "arguments"
    /\ failures = 0
    /\ license = latest
    /\ stored = None
    /\ reportAll = FALSE
    /\ monitors = [started |-> 0, applied |-> 0]
    /\ entries = 0
    /\ watched = NotYet
    /\ misread = FALSE

VendorChange ==
    /\ latest.version < MaxChanges
    /\ \E e \in BOOLEAN : latest' = [version |-> latest.version + 1, expired |-> e]
    /\ UNCHANGED <<config, namespaces, pc, failures, license, outVars, imageVars>>

CreateNamespace ==
    /\ namespaces # Namespace
    /\ namespaces' = Namespace
    /\ UNCHANGED <<config, latest, pc, failures, license, outVars, imageVars>>

MayFail(failing) ==
    /\ failing # {} => failures < MaxFailures
    /\ failures' = IF failing = {} THEN failures ELSE failures + 1

\* A call fails, and RetryNotify waits.  The process ends at once when it cannot
\* look up the license by its ID, or read the TLS secret.
CallFails ==
    /\ \/ pc \in Calls /\ ~Skipped(pc)
       \/ pc = "license" /\ config.source = "id"
    /\ MayFail({pc})
    /\ pc' = IF pc \in {"license", "tls"} THEN "dead" ELSE "waiting"
    /\ UNCHANGED <<world, license, outVars, imageVars>>

\* The error is returned, and log.Fatalf ends the process.
GiveUp ==
    /\ Fatal(pc) /\ ~Hopeless(pc)
    /\ pc' = "dead"
    /\ UNCHANGED <<world, failures, license, outVars, imageVars>>

Refuse ==
    /\ Hopeless(pc)
    /\ pc' = "waiting"
    /\ UNCHANGED <<world, failures, license, outVars, imageVars>>

Retry ==
    /\ pc = "waiting"
    /\ pc' = "clientset"
    /\ UNCHANGED <<world, failures, license, outVars, imageVars>>

Proceeds(s) == pc = s /\ ~Fatal(s) /\ ~Hopeless(s) /\ pc' = StepAfter(s)

\* Steps that change nothing but the position.
Pass ==
    /\ \/ pc \in {"arguments", "clientset", "ids", "verify", "expiry", "integration",
                "updates", "release", "tls"}
       \/ Skipped(pc)
    /\ Proceeds(pc)
    /\ UNCHANGED <<world, failures, license, outVars, imageVars>>

\* The license of the parameters is that of the installation; by its ID the
\* vendor answers with the latest, as GetLatestLicense does.
ReadLicense ==
    /\ Proceeds("license")
    /\ license' = IF config.source = "id" THEN latest
                  ELSE [version |-> 0, expired |-> config.fault = "expired"]
    /\ UNCHANGED <<world, failures, outVars, imageVars>>

SyncLicense ==
    /\ ~Skipped("sync")
    /\ Proceeds("sync")
    /\ license' = latest
    /\ UNCHANGED <<world, failures, outVars, imageVars>>

\* Faulty variant of InitInMemory: a store that is there is kept.
InitInMemoryOnce ==
    /\ Proceeds("store")
    /\ stored' = IF stored = None THEN license.version ELSE stored
    /\ UNCHANGED <<world, failures, license, monitors, entries, imageVars>>

\* A new store in place of the one before.
InitInMemory ==
    /\ Proceeds("store")
    /\ stored' = license.version
    /\ UNCHANGED <<world, failures, license, monitors, entries, imageVars>>

\* A new operator and monitor; nobody shuts down those of an attempt before.
StartOperator ==
    /\ Proceeds("operator")
    /\ monitors' = [monitors EXCEPT !.started = @ + 1]
    /\ UNCHANGED <<world, failures, license, stored, entries, imageVars>>

ApplyAppInformers ==
    /\ Proceeds("apply")
    /\ monitors' = [monitors EXCEPT !.applied = @ + 1]
    /\ UNCHANGED <<world, failures, license, stored, entries, imageVars>>

\* The entries of the job before are removed first.
StartHeartbeat ==
    /\ Proceeds("heartbeat")
    /\ entries' = 1
    /\ UNCHANGED <<world, failures, license, stored, monitors, imageVars>>

\* reportAllImages is turned on in an Embedded Cluster.
DetectDistribution ==
    /\ Proceeds("distribution")
    /\ \/ config.reportAll /\ reportAll' = TRUE /\ misread' = FALSE /\ UNCHANGED failures
       \/ /\ ~config.reportAll
          /\ \E failing \in {{}} \cup {{c} : c \in DistributionCalls} :
                /\ MayFail(failing)
                /\ misread' = (failing # {})
                /\ \E d \in GetDistribution(config.cluster, failing) :
                      reportAll' = (d = "embedded-cluster")
    /\ UNCHANGED <<world, license, outVars, watched>>

\* Two reviews, for list and watch; one that fails counts as a no.
canAccessPodsInNamespace(n, failing) == n \in Readable \ failing

canListNamespaces(failing) == config.mayList /\ "list" \notin failing

\* Faulty variant of NamespacesToWatch: the informers' namespaces only.
NamespacesToWatchNarrow(all, failing) ==
    {n \in informerNamespaces : canAccessPodsInNamespace(n, failing)}

\* All namespaces, or those of the informers if these cannot be listed.
NamespacesToWatch(all, failing) ==
    {n \in IF all /\ canListNamespaces(failing) THEN namespaces ELSE informerNamespaces :
        canAccessPodsInNamespace(n, failing)}

\* runInformers, when its run starts: it detects the distribution for itself.
\* A namespace created later is not watched.
WatchImages ==
    /\ monitors.applied > 0 /\ watched = NotYet
    /\ \E failing \in {{}} \cup {{c} : c \in DistributionCalls \cup {"list"} \cup Namespace} :
         /\ MayFail(failing)
         /\ misread' = (misread \/ failing # {})
         /\ \E d \in GetDistribution(config.cluster, failing) :
               watched' = NamespacesToWatch(reportAll \/ d = "embedded-cluster", failing)
    /\ UNCHANGED <<world, pc, license, outVars, reportAll>>

Step ==
    \/ GiveUp \/ Refuse \/ Retry \/ Pass \/ ReadLicense \/ SyncLicense
    \/ DetectDistribution \/ InitInMemory \/ StartOperator \/ ApplyAppInformers
    \/ StartHeartbeat

Next == VendorChange \/ CreateNamespace \/ CallFails \/ Step \/ WatchImages

\* The one goroutine that runs bootstrap goes on.
Spec == Init /\ [][Next]_vars /\ WF_vars(Step)

-----------------------------------------------------------------------------
(***************************************************************************)
(* Properties.                                                             *)
(***************************************************************************)

\* Every part of the state has its type; each attempt that got that far left
\* a monitor behind.
TypeOK ==
    /\ config \in Config
    /\ latest \in License /\ license \in License
    /\ stored \in Version \cup {None}
    /\ monitors.started \in 0..MaxFailures + 1
    /\ entries \in 0..1
    /\ reportAll \in BOOLEAN /\ misread \in BOOLEAN
    /\ watched = NotYet \/ watched \subseteq Namespace

(***************************************************************************)
(* However many attempts it took, one monitor watches the app and one cron *)
(* entry sends heartbeats: the attempts that failed left monitors behind,  *)
(* but none that has informers, and so none that reports.                  *)
(***************************************************************************)
OneReporter ==
    /\ monitors.applied <= 1 /\ monitors.applied <= monitors.started
    /\ pc = "serving" => monitors.applied = 1 /\ entries = 1

(***************************************************************************)
(* The server starts on the license that its last attempt read and checked *)
(* for expiry, and not on one an earlier attempt stored before it failed.  *)
(***************************************************************************)
ServesChecked == pc = "serving" => stored = license.version /\ ~license.expired

(***************************************************************************)
(* In a cluster that can be told for an Embedded Cluster, bootstrap and    *)
(* the run of the informers find it out each for itself: if no call failed *)
(* them, the store reports all images and the pods of every namespace are  *)
(* watched that the account may read, as old as the server.  Nowhere else  *)
(* is a namespace watched that has no informer, unless the parameter says  *)
(* so (bootstrap.go:51-57, appstate.go:226-269).                           *)
(***************************************************************************)
ImagesAreWatched ==
    watched # NotYet /\ ~misread =>
        /\ config.cluster = Embedded =>
              reportAll /\ (config.mayList =>
                                Readable \cap (Namespace \ {"later"}) \subseteq watched)
        /\ config.cluster = Other /\ ~config.reportAll =>
              ~reportAll /\ watched \subseteq informerNamespaces

(***************************************************************************)
(* Calls that fail delay the start and never prevent it: unless the        *)
(* configuration is hopeless, bootstrap ends, serving or dead.             *)
(***************************************************************************)
BootstrapEnds ==
    ~Hopeless("license") /\ ~Hopeless("expiry") => <>(pc \in {"serving", "dead"})
=============================================================================
