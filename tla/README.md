# Verification of the Replicated SDK

TLA+ models of the Replicated SDK, the service that runs beside an application
in its Kubernetes cluster, watches the application's state, caches its license
and reports to the vendor. The modules are translated from `src/`; TLC checks
them on small instances and TLAPS proves most of their safety for every instance.

To run a check: `tlc -config <X>.cfg <module>` with the pairs listed under
[Runs](#runs); to check the proofs: `tlapm` with each of the modules whose name
ends in `Proofs`.
`PROJECT.json` links each definition to the lines it models, each property to a
faulty variant of the code that breaks it, and each hazard to its properties.

- [The system](#the-system)
- [Modules](#modules)
- [Runs](#runs)
- [Bounds](#bounds)
- [Fairness](#fairness)
- [Proofs](#proofs)
- [Where the code and its comments disagree](#where-the-code-and-its-comments-disagree)
- [Observations](#observations)
- [Not modelled](#not-modelled)
- [Plan](#plan)

## The system

The service is one Go process. `apiserver.Start` runs `bootstrap` until it succeeds and then
serves HTTP. Three other sources of activity live beside the HTTP handlers: the
client-go informers of the app's resources, the informers of all pods, and the
heartbeat's cron job. They meet in an in-memory store that has no lock, in
Kubernetes secrets that pods of two revisions may share during a rollout, and
at the vendor's API. How a version of the service is released, by Dagger
functions that workflows call, is a system of its own.

```
 cluster --events--> informer handlers --> runInformers --> Operator
                          |                                    | throttler
                          v podImages                          v
 HTTP --> handlers --> InMemoryStore <------------------- setAppStatus
   |         |            |  ^                                 | state changed
   |         |            |  `---- license, fields, updates    v
   |         |            `----------------------------> SendInstanceData --> vendor
   |         `--> meta secret (metrics, tags)                  `--> report secret
   `--> cache middleware                                             (air gap)
   |--> the chart's secrets (mock data, support bundle metadata)
   `--> upload of a support bundle: vendor, S3, vendor
 heartbeat --> license, SendInstanceData
```

| Component (code) | State | Operations | What is hard | What makes it correct |
| --- | --- | --- | --- | --- |
| Status reporting (`appstate/operator.go`, `util/throttler.go`, `report/instance.go`, `report/util.go`) | throttler (f, timer, mutex), `store.appStatus`, `instanceDataMtx` | receive, throttle, `setAppStatus`, `SendInstanceData` | three kinds of goroutine, unlocked store, a check made before a wait | the last status is never lost; the vendor is told statuses in order; each change is told or its report failed |
| App state monitor (`appstate/appstate.go`, `util.go`) | contexts, unbuffered channels, `appStatus.ResourceStates` | `Apply`, `Shutdown`, informer events, resync, aggregate, forward | cancellation, blocked sends, channels closed under senders, missed deletes | statuses move forward and end at the state of the cluster; a cancelled run falls silent; who closes a channel |
| Resource states (`deployments.go`, `statefulsets.go`, `daemonsets.go`, `service.go`, `ingress.go`, `persistentvolumeclaim.go`, `types/types.go`) | none; reads objects, pods, endpoint slices | six calculators and two folds | object and pods read at different times, many combinations | ready is told only of what is ready, and in the end the true state is |
| Pod images (`pods.go`, `store/memory_store.go`) | `store.podImages` | create, update, delete of a pod; read | data race on a map, restarts, tombstones | the images of the running pods, of the release only |
| Custom metrics and tags (`handlers/app.go`, `middleware.go`, `meta/`, `report/custom_app_metrics.go`) | response cache, metadata secret, `replicatedSecretLock` | POST, PATCH, DELETE, tags, expiry | read before the lock, partial failure, two pods, read-only mode | locks always freed; keys do not erase each other; cached answers are earned |
| Air-gap reports (`report/report.go`, `instance_report.go`, `custom_app_metrics_report.go`) | report secret, two mutexes | `AppendReport`, `AppendEvents` | limits at the boundary, conflicts, error paths | the newest events that fit, in order |
| License cache (`handlers/license.go`, `license/license.go`, heartbeat, updates) | `license`, `licenseFields`, `updates` | four handlers, heartbeat | overlapping refreshes, a map that is shared without a lock, air gap | fresh answers are fresh; the store converges |
| Bootstrap and server (`apiserver/`, `cmd/replicated/api.go`) | the attempt's license, store, operators, cron entries, `reportAllImages` | the arguments, the steps of `bootstrap`, retry, the TLS secret, the choice of namespaces | retry from the first line over what an attempt left; the cluster is looked at twice | one reporter; serves on the license it checked; watches the images it reports; ends |
| Distribution detection (`report/distribution.go`) | none | four calls in order | errors ignored, random order of labels | the special distributions are found before those they run on |
| The chart's secrets (`supportbundle/`, `integration/`, `handlers/supportbundle_metadata.go`, `handlers/mock.go`) | two secrets of the chart, a mutex for each | replace, merge, save and read mock data, answer for the app | read-modify-write by several pods, edits by others, failing calls | each request is one atomic step, and is answered |
| Support bundle upload (`handlers/supportbundle.go`, `upstream/supportbundle.go`) | none; the vendor's bundles | upload in three calls | partial failure, silent peers, late effects, sending again | 201 means the bundle is there, whole; every request is answered |
| Release (`dagger/publish.go`, `image.go`, `chart.go`, `.github/workflows/`) | registries, attestations, charts, the GitHub release | images, attestations, charts, release, by two jobs and a developer | concurrent pushes of one tag, failures half way, reruns | what is published is attested first; all of it is there in the end |
| App information, utilities, build, validation, end-to-end tests | none of their own | | | not modelled |

The hazards, each at its line and with the properties that would show it going
wrong, are the `hazards` of `PROJECT.json`.

## Modules

**StatusDelivery** is the abstract specification of status reporting: of the
statuses received, the one kept and the newest one told only move forward, none
is invented, and the last is kept in the end.

**StatusReporting** is the way of a status from `Operator.runAppStateMonitor`
to the vendor. The operator's loop (`Receive`, `Add`), the timer goroutine
(`Fire`), `setAppStatus` (`ReadCurrent`, `StoreField`, `Stored`, `Compare`) and
every `SendInstanceData` (`CanReport`, `Lock`, `ReadState`,
`ReadResourceStates`, `Deliver` or `FailSend`, `Unlock`) interleave freely. The
data race on `store.appStatus` is a nondeterministic choice: the two fields
are written in either order, each in one go or with a torn value in between; a
torn state string is left out when the old and the new one are the same. A
status is its version and its aggregate state; the version stands for the list
of resource states. The throttler's critical section `add` is atomic because the
callback holds the mutex for all its run. The versions map to StatusDelivery
twice, once for each field (`DeliversState`, `DeliversResources`).

**AppMonitor** is what produces the statuses: `Monitor` with one `AppMonitor`,
its runs of `runInformers`, one handler per resource, and the forwarders. A send
on an unbuffered channel is a pending step of the sender until the receiver is
ready. `Apply` with the same sequence replaces the run; with another one it
replaces the `AppMonitor`, too; `Shutdown` ends the `Monitor`, whose select may
still take an `Apply` until it returns (`MonitorReturns`). `Monitor.run` hands the
informers to `AppMonitor.run` before it does anything else, so that the two are one
step. `Shutdown` and an `Apply` with another sequence close
channels (`MonitorReturns`, `AppMonitorReturns`, `ShutdownWait`), and a send on a
closed one ends the process (`Panic`). `Direct` resources raise an event for all
that can change their state; the state of `Derived` ones changes without one and
needs the resync. `Init` picks which resources the app names. Any delete may be told by a tombstone,
which the handlers' casts ignore; `missed` keeps which ones were. **AppStates** has
the five states, `MinState` and `GetState`.

**ResourceStates** has the calculators of the six kinds as operators on the
fields the code reads; endpoint slices that cannot be listed are the same as none,
as in the code. **Rollout** puts those of stateful sets, daemon sets and
deployments in a cluster that rolls out, where the object is as old as the
informer's copy and the pods are listed later; the kind, and whether the pod of
another owner matches the selector, are chosen in `RolloutInit`. A pod may lose its
revision label (`Unlabel`), which makes the calculators stop at it. **Exposure** puts those of
services, ingresses and claims under every change of endpoint slices, addresses
and volumes, and compares the app's state with what a client would find.

**PodImages** is the store's `podImages` with a handler per namespace. The
concurrent access to the map either goes well or crashes the container, which
restarts with an empty store and new informers. `missed` keeps the pods whose
delete was told by a tombstone.

**CustomMetrics** (with **MCCustomMetrics**, which has the first request go to
the first of two interchangeable pods) is a request from the
cache middleware to the vendor: `Arrive`, `ServeCached`, `Refuse`, `Handle`,
`GetMetrics`, the steps of `meta.save` (`Lock`, `Fetch`, `Write`, `SaveFails`),
`Send`, `Respond`. The API server's resource version is `Accepts`. Any call may
fail, also after it was applied: the secret written or the metrics taken by the
vendor, and the answer lost (`SaveFails`, `SendFails`).

**ReportSecret** is `AppendReport` for either type of report: `serialized`,
chosen in `Init`, says whether the caller holds `instanceDataMtx`. The size of a report is the
sum of its events' sizes; compression and encoding are abstracted to that. Dropping
events until the rest fits is the least number of them that has to go
(`DropToSize`).

**LicenseCache** is the store's license, fields and updates. A vendor's answer
is a version. Maps of fields are in memory by their number, as `GetLicenseFields`
shares the store's own with its callers: `ChangeMap` changes that one, or one the
store has dropped meanwhile, which it does when the vendor answers `null`
(`AnsweredFields`, `SetLicenseFields`). A write beside another use of the same map
may end the process (`Crash`), which starts again with the fields of the
configuration. In an air gap nothing is asked of the vendor, and the handlers answer
with what was given, without the mark of a cached answer (`Stored`).

**Bootstrap** is the way from the command's arguments (`RunE`) through the
sequence of `bootstrap` to the server, with what is retried (`CallFails`,
`Refuse`, `Retry`), what is fatal (`Fatal`, `GiveUp`) and what an attempt leaves
behind: stores, monitors, cron entries. `Init` picks the configuration. Beside
it, `WatchImages` is the start of `runInformers`, which decides for itself in
which namespaces to watch the images of pods. **Distribution** is
`GetDistribution`, as the set of the answers it may give: a call that fails is
passed over, and node labels come in the random order of a Go map.

**SupportBundle** is the request that uploads a bundle, in three calls
(`CallServed`, `CallGoesWrong`, `Stall`, `TimeOut`). What a call asked may be
done although its answer is lost, and also after it was given up (`LateEffect`).
`silent` says who keeps a call waiting. A vendor or S3 is given up by the
timeout; the client that sends the body is not (`ClientFallsSilent`,
`ClientIsBack`).
**Server** puts it beside Bootstrap in one process under one configuration.

**Release** is `Publish` as a list of tasks that a call works off: a push moves
the tag of the version in a registry, the manifest is read by that tag, and what
it named is attested, unless the manifest names an SBOM itself (`embeds`, chosen in
`Init`). Two jobs of the workflow and one developer run it
concurrently; a call that fails leaves behind what it has published and starts
over. Of SecureBuild's workflow the whole is run again, or the job that failed;
its own pipeline is external.

**SecretStore** is the abstract specification of requests about a secret: each
is one atomic step on the data there are. **ChartSecrets** is such a request in
the code: `Refuse`, `Handle`, the check of integration mode (`NotDev`, `Lock`,
`Checked`), then `Lock`, `Fetch` and `Write` of `SaveMetadata` and `SetMockData`
or `Read` of `GetMockData`, and `Fails` for a call that fails or whose answer is
lost. `Init` picks which of the two secrets it is; a handler never touches
both. `APP` stands for the handlers of `handlers/app.go` that answer from mock
data in integration mode, and from the store and Helm otherwise. The data of a
secret is a function from keys to values; what is in a value, and whether it
parses, is abstracted to an answer that fails. `Edit` is the chart or a user.

**StatusReportingProofs**, **AppMonitorProofs**, **CustomMetricsProofs**,
**ReportSecretProofs**, **LicenseCacheProofs**, **ChartSecretsProofs**,
**ServerProofs** and **ReleaseProofs** have the theorems about the modules they
are named after. AppMonitorProofs is about all of `pkg/appstate` but the pods: it
extends Exposure and Rollout with AppMonitor, which is why their definitions
carry the module's name (`RolloutSpec`, `ExposureTypeOK`) where all three would
have one.

Each module states a type invariant. All but that of PodImages are theorems
(SupportBundle's as part of `UploadInv`), and the run of ChartSecrets checks it,
too; that of PodImages held when last checked, and the runs spend their time on
the properties.

Operators named as a faulty variant of another (`AddFirstOnly`, `LockNothing`,
...) are plausible bugs. No specification uses them; they are there to show that
the property they are paired with in `PROJECT.json` can fail.

How the modules compose: the status that AppMonitor's forwarder delivers is the
one StatusReporting receives, so that StatusReporting takes any sequence of
states from it; Rollout and Exposure justify the states that AppMonitor takes
from the handlers; the `Deliver` of StatusReporting is, in an air-gap
installation, the append of ReportSecret. Bootstrap's `OneReporter` is why one
operator suffices in StatusReporting and one `Apply` is what AppMonitor meets in
production; that AppMonitor has a second, and one after `Shutdown`, is for what
the code offers its callers.
Bootstrap's `ImagesAreWatched` relates the namespaces that PodImages watches to
the reports of all images. Server composes Bootstrap and SupportBundle, and
Bootstrap uses Distribution twice, at its own step and in the run of informers.

## Runs

| cfg | Module | Properties | What it shows |
| --- | --- | --- | --- |
| StatusReporting | StatusReporting | MixedIsCorrected, NoLostStatus, ChangeIsReported, ReportsInOrder, ChangeEventuallyTold, DeliversState, DeliversResources | throttling keeps the last status; reports are told in order, and one that pairs the state of one status with the resources of another is followed by one that does not; a change of state is told or its report failed; both fields of the status implement StatusDelivery, with its fairness |
| SupersededReport | StatusReporting | SupersededNeverReports (violated) | a pod superseded while it waits for the mutex still reports |
| AppMonitor | AppMonitor | NoSendOnClosed, StatesMoveForward, StatusConverges, CancelledRunFallsSilent | no status goes back; with one `Apply` the operator ends with the state of the cluster, but for deletes told by tombstones; a run that was replaced or shut down ends, or waits for a blocked handler and sends no more in the end; only the end of the Monitor or of an AppMonitor closes a channel under a sender |
| Rollout | Rollout | ReadyIsWhole, RolloutConverges | ready is never told of a mixture of revisions or of a pod without one, and the right state is told in the end |
| Exposure | Exposure | ReadyIsUsable, UsableIsReady | what is told ready can be used, and the reverse |
| PodImages | PodImages | ImagesConverge | the images of running pods, of the release only, also after a crash |
| CustomMetrics | MCCustomMetrics | NoContentionInPod, CachedAnswerIsEarned, AloneTakesEffect, OtherKeySurvives, EveryRequestAnswered | two requests to one pod or two: a pod never conflicts with itself, cached answers repeat a success, what runs alone takes effect, metrics and tags never erase each other, no failure leaves the lock behind, whichever answers are lost |
| ReportSecret | ReportSecret | NewestThatFit, EventsInOrder, NoContentionInPod, MutexesAreFreed | the secret holds exactly the newest events that fit, a pod's instance events in order; the mutex prevents conflicts and both mutexes are freed |
| LicenseCache | LicenseCache | FreshAnswers, AloneRefreshes, LicenseConverges | an answer not marked cached is the vendor's, not older than the request, or what an air-gapped installation was given; a refresh that ran alone stays; the store ends with the vendor's license, also after a crash |
| Server | Server | OneReporter, ServesChecked, ImagesAreWatched, UploadsAreHonest, BootstrapEnds, EveryUploadAnswered | one reporter, the license that was checked, the namespaces whose images are reported, and an end of bootstrap; then uploads: what is told as uploaded is, and every upload is answered unless its client falls silent for good |
| Release | Release | PartsInOrder, TaggedIsAttested, SignedForItsRegistry, EverythingIsPublished | charts and the GitHub release come after what they need; what the version names is attested in the end, with the key of its registry where one call pushes; failed jobs that are run again publish all there is |
| ChartSecrets | ChartSecrets | TypeOK, RequestsAreAtomic | requests about the metadata or the mock data implement SecretStore, with its fairness, whatever pods, people and failures do in between |

Deadlock is not checked where the system may stop: the models in which every
request is made once, the cluster changes a bounded number of times, the server
has come up or the monitor is shut down, or the version is released.

## Bounds

| Bound | Value | Why it is enough |
| --- | --- | --- |
| `MaxStatuses` | 2 | one status is set and told while the next is received, throttled and set, each beside the other's report; that a third replaces a waiting one is covered by the proofs, which have no bound |
| `OtherReports` | 1 heartbeat | a report that no status started overtakes or is overtaken, so that three contend for the mutex; all of them behave alike |
| `MaxChanges` (AppMonitor) | 3, weighted | a change of the cluster counts one, `Shutdown` three, `Apply` two and one for each informer it starts, so that three changes meet one run (create, change and delete, or a change of one while the other is sent), and `Shutdown` meets a run in any state of its first listing; a second `Apply` meets an app with one followed resource, or with none. An `Apply` to a monitor that was shut down counts only what it starts (`ApplyCounts`); after the three of `Shutdown` that is an app with none. The proofs have no bound |
| `MaxApplies` | 2 | what bootstrap does; and a run with the one that replaces it |
| `Direct`, `Derived`, `Unsupported` | one each | the three ways a resource can behave, and every set of them an app can name |
| `MaxGeneration`, `Replicas` (Rollout) | 3, 2 | an edit in the middle of the rollout of another; a pod on either side |
| `MaxFailures` (Rollout) | 2 | any two of: a pod that fails, a listing that fails, a label that is lost; both pods, so that none is ready or none has a label |
| `Ports`, `Slices` (Exposure) | 2, 2 | two slices of one port, two ports of one slice, and one without ports; more of them fold in the same way, since every fold takes the worst |
| `MaxChanges`, `MaxCrashes` (PodImages) | 3, 1 | a pod that starts, runs and is deleted across a crash |
| `Requests`, `Pods`, `Keys` (CustomMetrics) | 2, 2, 2 | one holds the lock and one waits, or two pods contend for the secret; a cached answer and another key beside it |
| `Appends`, `Pods` (ReportSecret) | 3, 2 | one beyond the event limit of 2; two of one pod beside one of the other |
| `Sizes`, `SizeLimit`, `EventLimit` | {1, 2, 4}, 3, 2 | an event that fits, one that makes another go, one too large by itself, and a sum that meets each limit exactly; the code's limits are 4000 events and 1 MiB |
| `Requests`, `MaxChanges` (LicenseCache) | 2 and the heartbeat, 1 | an older answer that arrives after a newer one; two requests for the one field of `Fields`, or one and the request for all, beside each other at one map |
| `MaxFailures`, `MaxChanges` (Server) | 2, 1 | two attempts and a last, or attempts beside a failing review of the account; the license changes or expires between any two steps. `FewFailures`: the failures of uploads count as well |
| `MaxOdd` | 2 | every configuration that differs from the usual one (online, license in the config, an Embedded Cluster) in at most two options, so that every pair of options meets |
| `MaxRequests`, `MaxFaults` (SupportBundle) | 2, 1 | a request sent again while a call of the first may still take effect, or one whose client falls silent |
| `MaxFailures`, `MaxRuns` (Release) | 1, 2 | a call fails at any task, or loses its answer there, and runs again from its first line; `MaxFailures < MaxRuns`, so that a rerun is there for each failure |
| `DeveloperArgs` | once, dev and staging, or dev with a key | a push to the tag that the jobs push to, and a key that was given; a developer's push to the production registry would meet the job's as the one to Docker Hub does |
| `Requests`, `Pods`, `Keys`, `MaxEdits` (ChartSecrets) | 2, 2, 2, 2 | one waits for the mutex of the other or contends from another pod; a key written and one left alone; an edit or a delete, and a creation, between any two steps. The proofs have no bound |

## Fairness

Weak fairness of each goroutine's next step: Go schedules every goroutine that
can run, and calls to Kubernetes and the vendor end by an answer, an error or a
timeout. Nothing is assumed of the environment: no status, heartbeat, request,
rollout, edit, failure or repair has to happen. The exceptions are:

- `StoreField` tears a field at most for a while: the step that is fair is the
  one that completes the field (`FinishField`).
- Mutexes. In StatusReporting, CustomMetrics and ChartSecrets each caller takes a mutex a
  bounded number of times, so weak fairness suffices. ReportSecret has no
  liveness: `MutexesAreFreed` says that whoever holds a mutex is inside.
- AppMonitor: resyncs come for ever, so that a sender competes again and again
  with others. Strong fairness of `SendReset` and `SendStatus`, and of each
  handler's `ReceiveState`: Go queues those who wait on a channel in order. Of
  `Cancelled`: a select picks among its ready cases at random. All of it is the
  fairness of goroutines in a process that has not ended (`~crashed`).
- Server: weak fairness of bootstrap's goroutine and of the handler of an upload.
  The calls of the latter end because their clients have timeouts, of ten seconds
  for the vendor and thirty minutes for S3. That is for a peer that was called and
  is silent. For the client whose body is passed on nothing is assumed
  (`ClientIsBack` has no fairness): the timeout closes the connection to S3, but
  the call returns only after its read of the body, which the server sets no limit
  to. Nothing makes the late effect of a call happen, nor `WatchImages`.
- Release: the workflow runs its jobs and somebody runs a failed one again, as
  long as `MaxRuns` lets them; a condition on people, not something the code does.
  Nothing makes the developer call.
- PodImages: `SF_vars(Handle(p))`. The handler of a namespace is busy with other
  pods again and again, and the informer's queue is first in, first out.
- LicenseCache: `SF_vars(VendorAnswers(Heartbeat))`, the heartbeat's call does
  not fail every time for ever. Without it nothing could converge; it is a
  condition on the vendor and the network, not something the code does.
- Rollout: the controller keeps the status up to date and replaces pods, which
  the controllers of Kubernetes promise, as one goroutine that goes on; nothing
  makes a pod ready, fails a listing or removes a label. The handler is called again
  because resyncs come every minute, and a call ends.

## Proofs

`StatusReportingProofs` proves, for any number of statuses, any set of other
reports and any set of states:

| Theorem | Statement |
| --- | --- |
| TypeCorrect | `Spec => []TypeOK` |
| Invariance | `Spec => [](TypeOK /\ IInv)` |
| LastStatusSafe | `Spec => []NoLostStatus` |
| ReportOrder | `Spec => ReportsInOrder` |
| ChangeTold | `Spec => []ChangeIsReported` |
| MixedCorrected | `Spec => []MixedIsCorrected` |
| StateDelivered, ResourcesDelivered | `Spec` implements the safety part of StatusDelivery, for each field |

They rest on the three named assumptions of StatusReporting alone: the bound is
a natural number, the states are not the two special values, and the reporters
are distinct from one another and from `Nobody`.

None of the properties is inductive. `IInv` strengthens them in three parts.
`ThrottleInv`: while the operator's loop is between statuses its last one is the
throttler's `f`, the callback's argument is `f` for all its run because the
mutex is held, and when no timer runs `f` is in the store; with no informers
the argument of `setAppStatus` takes the place of `f`. `SetterInv`: what is
being set is never older than either field of the store, hence the store never
goes back (lemma `StoreForward`) although its fields are written one by one and
torn. `ReportInv`: whoever is between the lock and the unlock holds the mutex,
nothing a report has read is newer than the store, and what the holder has read
is not older than what the vendor was told last. The step that needs all three
is `ReadState`: the store is at least as new as what was told, and until the
holder delivers nobody else does. `VersionsForward` says what a step does to
the versions that StatusDelivery speaks of, and both refinement theorems follow
from it.

`ChangeIsReported` and `MixedIsCorrected` speak of the times when no status is being
set: the vendor knows the state in the store, and beside it a list of a status with
that state, or the report of the latest change is under way, failed or was
dropped. `ChangeInv` says how a change gets there. Unless
`setAppStatus` is just writing one (`Changing`), either the vendor and all who have
read the state agree with the store (`Known`), or the newest version that has a
report has one that will read the state, holds the one in the store, or came to
nothing (`WillTell`). Reports of older versions and heartbeats may deliver in
between: what they read after the write is what is in the store, and what they
read before cannot be delivered last, as the mutex orders them (`ReportInv`).
`PendingInv` is why a change finds its report unused: a version that is not yet
set has none, so that `Compare` starts a fresh one. `ListInv` ties the two fields
together: unless a change is being set, the list in the store is of a status with
the state in the store (`ListInStoreAgrees`), so that whatever a report reads from
then on is a right pair, and the report of the change reads both of its fields
after it was set.

`AppMonitorProofs` proves, for any finite set of resources and any number of
calls of `Apply` and of changes:

| Theorem | Statement |
| --- | --- |
| TypeCorrect | `Spec => []TypeOK` |
| Invariance | `Spec => [](TypeOK /\ IInv)` |
| SendsOnOpen | `Spec => []NoSendOnClosed` |
| StatusesForward | `Spec => StatesMoveForward` |
| ExposureTypeCorrect | `ExposureSpec => []ExposureTypeOK` |
| ReadyUsable | `ExposureSpec => []ReadyIsUsable` |
| UsableReady | `ExposureSpec => []UsableIsReady` |
| RolloutTypeCorrect | `RolloutSpec => []RolloutTypeOK` |
| ReadyWhole | `RolloutSpec => ReadyIsWhole` |

The assumption that the resources are finitely many is what makes the worst of
their states one of them: `GetState` counts them (`FollowedCount`,
`GetStateIsWorst`). `StatesMoveForward` compares what the operator gets from a
run with what it got before, four steps away from the cluster, and each part of
`IInv` is one of these steps. `VersionInv`: what a handler sends is never older
than what the run has of the resource, since a handler is idle or has one send
pending, and an object it has cached is what it told or newer. It distinguishes
`Direct` resources from `Derived` ones, whose state changes without an event: if
such an object is gone, its handler is still behind. `FlowInv`: of each resource,
what the operator has of a run is not newer than what the forwarder holds, nor
that than what the run has; `HandlerUndisturbed`, `RunForward` and
`FlowUndisturbed` carry it over the steps that are about something else.
`RunsInv` ties handlers to the life of their run, and `MonitorInv` the
AppMonitor in charge to that of the Monitor, from which `NoSendOnClosed`
follows: a channel is closed under a sender only after `Shutdown` or by an
`Apply` that replaced the AppMonitor. It holds with an `Apply` to a monitor that
is shut down, too, for any resources.

The theorems about Exposure hold for any ports and endpoint slices. What is hard
in them is not the steps, which `ExposureInv` follows with the types, but the
calculators: folds of folds that take the worst state of slices, ports,
services and resources. `MinStateIsWorst` says what one fold does and
`MinStateReady` when its result is ready, whatever values that are no state the
set has besides; `PortReady` and `EndpointsReady` read the folds of a service
back to the slices, `IngressReady` those of an ingress, and `AppReady` joins them.

`ReadyWhole` holds for any number of replicas, revisions and failures. The
handler decides from two sources of different ages: the object that its informer
delivered, and the pods that it lists now. `RolloutInv` keeps of the former only
its types, for any old status must do. What makes it safe is the list: if `ready`
is told, each pod of the workload is in the list as its own (`LiveIsListed`, by
counting the listed pods one by one) and none of them is odd (`NoneOdd`), so that
all live pods have the revision of the first one listed, and have one.

`CustomMetricsProofs` proves, for any sets of requests, pods, keys and values:

| Theorem | Statement |
| --- | --- |
| TypeCorrect | `Spec => []TypeOK` |
| NoContention | `Spec => []NoContentionInPod` |
| CachedEarned | `Spec => []CachedAnswerIsEarned` |
| OtherKeyKept | `Spec => OtherKeySurvives` |
| AloneEffect | `Spec => []AloneTakesEffect` |

`LockInv` says that who saves holds the lock of its pod and who holds it saves.
`FetchedInv` has the two regimes of a save. With requests of several pods, what was
fetched is what is there as long as the version is the same, so that an accepted
write of one key carries the other as it is (`OtherKeySurvives`). With one pod
the lock excludes other writers, so that the fetched secret is simply the one
there is, and no write is rejected. `CacheInv` says that each cached request is
that of one which has succeeded on the same pod (`Earned`); it must speak of
entries, not of answers, because an entry outlives the request that made it.
For `AloneTakesEffect`, `PathInv` and `AloneInv` follow a request that meets no
other from the metrics it reads to the secret that has its effect (`HasEffect`).

`ReportSecretProofs` proves, for any sets of appends, pods and sizes of events and
any limits:

| Theorem | Statement |
| --- | --- |
| TypeCorrect | `Spec => []TypeOK` |
| KeepsNewest | `Spec => []NewestThatFit` |
| InOrder | `Spec => []EventsInOrder` |
| NoContention | `Spec => []NoContentionInPod` |
| MutexesFreed | `Spec => []MutexesAreFreed` |

`NewestThatFit` says that the report is the longest suffix of all events ever
written that fits both limits, while `AppendReport` drops from what is left of earlier
drops. Both agree because a suffix that did not fit before one more
event was added does not fit after it (lemmas on sizes of suffixes and on the
least number to drop, `Least`, by well-foundedness of the naturals). `MutexInv`
has who holds the two mutexes, as `LockInv` above, and `FetchedInv` is the same
as there. `OrderInv` is what `EventsInOrder` needs: an append under
`instanceDataMtx` bears a later time than all events of its pod in the report, from its
stamp to its write, as no other append of the pod is stamped in between.

`LicenseCacheProofs` proves, for any number of requests, fields and changes at
the vendor:

| Theorem | Statement |
| --- | --- |
| TypeCorrect | `Spec => []TypeOK` |
| AnswersFresh | `Spec => []FreshAnswers` |
| RefreshedAlone | `Spec => []AloneRefreshes` |

`FreshInv` follows an answer of the vendor from `answered` to the reply: it is a
version that the vendor had after the call began (`Seen`), and a later store by
another call does not change the reply. In an air gap it is `AirgapInv` that
makes the reply what was given: no call gets as far as to store or to change a map
(`StoredIsGiven`). `AloneInv` is about the call that runs alone. Until it stores,
the map that it has is the store's, or the store has none; so `ChangeMap` removes a
field from the store itself, which `SetLicenseFields` would not do, and a store
without a map has nothing to remove. `SetFields` says what the three branches of
`SetLicenseFields` do to the maps in memory, and `CrashInvariant` that a process
that ends in between leaves nothing behind that contradicts the rest.

`ChartSecretsProofs` proves, for any sets of requests, pods, keys and values and
any number of edits:

| Theorem | Statement |
| --- | --- |
| TypeCorrect | `Spec => []TypeOK` |
| Atomicity | `Spec => Store!StoreSafety`, the safety part of `RequestsAreAtomic` |

The assumptions are that the two keys are different keys, that `Nothing` is
neither a value nor a request, and that the bound is a number. A write replaces
the data by what its request makes of the data it fetched, while SecretStore
asks for what it makes of those that are there. `FetchedInv` closes the gap:
what was fetched is what is there, for as long as both have the same version,
since every change makes a version that no one has fetched (`EditedIsEffect`).
The mutex is not needed for it, only for the order of a pod's requests; the
resource version that the update carries is (the mutant `SentUnversioned`).
`RequestInv` ties the place of a request to what it asked and was answered, so
that no request is answered twice (`AnswerOnce`). `StepsAreAtomic` maps each
step to one of SecretStore or to none.

`ServerProofs` proves, for any number of failures, changes of the license,
requests and oddities of the configuration:

| Theorem | Statement |
| --- | --- |
| TypeCorrect | `ServerSpec => []TypeOK` |
| OneMonitorReports | `ServerSpec => []OneReporter` |
| LicenseChecked | `ServerSpec => []ServesChecked` |
| EmbeddedIsWatched | `ServerSpec => []ImagesAreWatched` |
| HonestUploads | `ServerSpec => []UploadsAreHonest` |

Three invariants carry them. `BootInv` says what an
attempt has done from where it is: informers are applied only after the last
step that leads back to the first line, so that at most one attempt applied
them; and from the check of its expiry on the license does not change, nor the
store from its step on. `ImagesInv` says what an attempt told its store of the
cluster, from the detection on and for as long as its informers run (`Told`),
and that nothing is watched before they were applied; `EmbeddedIsTold` and
`OtherIsTold` are the lemmas about `GetDistribution` it rests on, which follow
the first test that succeeds through its four answers. `UploadInv` says that a
call is made, or given up, only when it is due: a call about a bundle after there
is one, and the mark after the whole of it (`Due`). Since bundles only grow
(`Grow`), a call that is due stays so (`DueStays`), which is why it does no harm
when it takes effect late. It does not depend on the timeouts: a handler that hangs
is as honest as one that answers.
`TypeCorrect` includes how many monitors the attempts leave behind, at most one
more than calls failed: what is tried again without a failed call comes before the
operator (`CountInv`).

`ReleaseProofs` proves, for any number of failures and of runs of a job:

| Theorem | Statement |
| --- | --- |
| Invariance | `Spec => [](TypeOK /\ IInv)` |
| PartsOrdered | `Spec => []PartsInOrder` |
| TagsAttested | `Spec => []TaggedIsAttested` |
| SignedRight | `Spec => []SignedForItsRegistry` |

A call holds the list of what it has still to do, and none of the properties is
about lists, so that `IInv` says what a list promises. `RunInv`: it is the rest of
one in which an image is pushed, read and attested with nothing in between
(`Whole`), of registries the call pushes to, and jobs run after SecureBuild only.
`OrderInv`: what a chart or the GitHub release needs is there, or comes earlier in
the list; a run that fails forgets its list and starts from a whole one
(`Published`), so that nothing is lost by it. `TagInv`: what the version names is
attested, or names its SBOM (`embeds`), or a call that pushes there owes it
(`Owes`): it is still to read the manifest, has just read it and found what the tag
names, or has failed. A push by another call between the read and the attestation makes that other call the
one that owes. `SecureInv` is the case of a stable version, where the images are
SecureBuild's and no call pushes to the registries of a release (`StablePushes`).
`SignInv`: each attestation is SecureBuild's or has the key of a call that pushes
there; a call that alone pushes to a registry (`Sole`) finds there the image of its
own run (`FindsOwn`), so that it attests the SBOM to the right one.

The assumptions are the named ones of each module: bounds and limits are natural
numbers, the special values (`Nothing`, `Nobody`, `NoMap`, the names of
operations) are none of the ordinary ones, some sets are not empty, and the
resources of an app are finitely many. No theorem assumes a bound.

The inductive invariants were checked by TLC first, on the instances of the runs
or on smaller ones.

Model-checked only:

- The types of PodImages. Every safety invariant and action property of a run is
  proved.
- Liveness everywhere, PodImages' convergence included, and the fairness of the
  two refinements: TLAPS has no arguments from fairness with `ENABLED`.
- What a recursive definition computes: induction takes an operator as a
  parameter, which the provers cannot instantiate. Where a proof needs a least
  number it takes one by well-foundedness (`Least` of ReportSecretProofs), and
  the models define by `CHOOSE` what the code finds in a loop (`DropToSize`,
  `Foremost`).

## Where the code and its comments disagree

1. `report/util.go:168`, "don't report from sdk instances that are not
   associated with the current deployment revision". The check comes before the
   wait for `instanceDataMtx`, which each report holds for a second
   (SupersededReport).

## Observations

What the models show and no text of the repository speaks against:

- The handlers of the six kinds and of pods ignore tombstones. A resource whose
  delete was missed keeps its last state until the next event or restart, and
  such a pod, of which `pods.go:66` says "Only track running pods", keeps its
  images until a restart (`StatusConverges` and `ImagesConverge` exclude just
  these).
- Mock data may be read or saved after integration mode was turned off: its
  check and the access are two holds of the lock (`handlers/mock.go:34`, `60`).
- `Shutdown`, and an `Apply` with another sequence, close a channel that a run or
  the forwarder may be sending on: `AppMonitor.run` closes `appStatusCh` without
  waiting for `runInformers` (`appstate.go:147-155`), and `Monitor.run` closes its
  own beside the forwarder (`appstate.go:74-102`). The send then ends the process.
  Nothing in the service calls `Shutdown` while it runs, and the sequence of a
  deployed release does not change. `NoSendOnClosed` says that these are the only
  two causes.
- After a second `Apply`, a status of the replaced run that was waiting to be
  sent can reach the operator after the reset of the new one, and stays when the
  new one has nothing to say (`appstate.go:190`, `284`). The replaced run may
  also wait for ever for a handler blocked sending to it (`appstate.go:193-197`),
  and leaves its goroutines behind. Bootstrap applies informers once, so that it
  takes another caller to meet either.
- The handler of an ingress dereferences the HTTP part of each rule and the service
  of each backend, the default one included (`ingress.go:146`, `151`, `152`). A rule
  without paths, or a backend that is a resource, is legal and would end the process.
  ResourceStates has ingresses of rules for HTTP and of services only.
- A service whose endpoint slices cannot be listed is told unavailable, as one that
  has none (`service.go:134`).
- The endpoints of a service without ports are never looked at: the branch for
  headless services is reached once per port of the service
  (`service.go:137-148`). `UsableIsReady` is about services with ports.
- A deployment is told ready as soon as its new generation is observed with
  enough ready replicas, which may all be of the old revision. Stateful sets and
  daemon sets compare the revisions of their pods and do not do so.
- A daemon set with no ready pod is degraded, while a stateful set or deployment
  is unavailable: its `NumberUnavailable` is looked at first.
- A report can pair the state of one status with the resource states of another,
  since both are read apart and unlocked. Each of the two is in order by itself, and
  the right pair follows unless its report fails (`MixedIsCorrected`).
- Two concurrent PATCH requests can both succeed and one be lost: the metrics
  are read before the lock is taken. `AloneTakesEffect` is the promise that
  remains.
- A payload that is repeated within a minute is answered from the cache, although
  another request may have changed the metrics since, and is then not applied again
  (`middleware.go:141`). `CachedAnswerIsEarned` promises no more than that it was
  applied once.
- An answer from the vendor may overtake a newer one, so that the older is stored
  last and stays until the next refresh. `FreshAnswers` is about the answer, and
  `LicenseConverges` about the end.
- An air-gapped installation answers with what it was given and without the header
  of a cached answer (`license.go:55`, `73`, `105-110`; `app.go:223-225`), although no
  vendor was asked: that header tells a failed call from one that was answered,
  and not the cache from the vendor.
- A field the vendor removed from the license stays in the store after
  `SetLicenseFields`, and goes when it is asked for by name, or all of them when the
  vendor answers `null`.
- The map of the license fields is written by a handler while others read it or
  store it. The Go runtime may end the process; `AloneRefreshes` is about a
  request that no other meets.
- A failed lookup of the integration license ends the process at once, although
  it may be a failure of the network; a license that does not parse, or an
  integration license that is not a dev license, is tried again for ever.
- A TLS secret that cannot be read, or has no certificate, ends the process after
  bootstrap has done all its work, the informers included.
- Bootstrap and `runInformers` detect the distribution each for itself, and a call
  that fails is passed over. So `reportAllImages` can be on while the namespaces
  are not watched, or off while they are, for as long as the process runs; where a
  node carries the labels of two distributions, the answer is random.
  `ImagesAreWatched` is about clusters without such labels whose calls went well.
- A namespace that is created after the informers are applied is not watched.
- A client that sends part of a bundle and then stays connected in silence holds
  its handler: the thirty minutes of `UploadToS3` (`upstream/supportbundle.go:96`)
  close the connection to S3, but the call returns only after its read of the
  request's body does, and the server sets no `ReadTimeout`
  (`server.go:98-101`). `EveryUploadAnswered` excepts it.
- A client that was answered 500 for an upload may find the bundle uploaded all
  the same, and has two if it sends it again.
- Docker Hub has one tag for what the staging job, the production job and a
  developer push. Each attests what the tag names when it looks, so that the
  SBOM and the key of an attestation may be those of another build
  (`SignedForItsRegistry` is about registries that one call pushes to).
- A call that publishes to several environments signs for all of them with the
  key of the first, since `cosignKey` is fetched once (`publish.go:82`, `95`,
  `119`); the workflow has one environment per job and does not meet it.
- Once the GitHub release exists, a rerun of the production job fails at its last
  task, although everything is published (`EverythingIsPublished` holds).
- The production command in `dagger/README.md:44-52` turns dev and staging off,
  has no `--production`, and so publishes nothing.

## Not modelled

- The handlers of app information, status and history, but for whether mock data
  answer or the store does, and `GetIntegrationStatus`: they read and write
  nothing. The updates are in LicenseCache.
- The error of `AddFunc` when the heartbeat starts (`heartbeat.go:75-77`,
  `bootstrap.go:178-180`): the schedule is one that `heartbeat.go` makes, which
  parses.
- The order in which one attestation for each architecture is made
  (`image.go:272-314`): all of them are one step of Release.
- The parsing and normalisation of status informer strings and of image names:
  conversions of text with unit tests of their own.
- The order of resource states in a report. `Less` (`types/types.go:106`) compares
  names even when the kinds differ the other way, so that the sort may leave them
  in several orders.
- The fields of a report other than the status. Events of custom metrics take
  their time before the report is locked (`report/custom_app_metrics.go:38`), so
  that they may be stored out of the order of their times; `EventsInOrder` is
  about instance events, whose caller holds a mutex.
- License signatures, dates and the content of the TLS secret: faults of the
  configuration in Bootstrap.
- Helm, the Kubernetes client and logging: input and output. Of these only what
  `src/` observes is modelled, marked external in `PROJECT.json`.
- The chart's templates, `dagger/validate.go`, `e2e.go`, `replicated.go` and the
  Makefile: scripts that run in sequence against clusters and accounts rented for
  the purpose, and keep nothing.

## Plan

Done, in this order: StatusReporting with its proofs; AppMonitor; CustomMetrics;
ReportSecret; LicenseCache; PodImages; ResourceStates with Rollout and Exposure;
Bootstrap; ChartSecrets with its proofs; `Shutdown` and changes of the sequence in
AppMonitor; Release; Distribution, SupportBundle and Server with its proofs; the
proofs about CustomMetrics, ReportSecret, LicenseCache and AppMonitor, and of
`ChangeIsReported` and `ImagesAreWatched`; the proofs about Release, Exposure and
Rollout.

Next:

1. A composition of AppMonitor and StatusReporting: from the cluster to the
   vendor, against one abstract specification. Its state space asks for a smaller
   model of the informers first.
2. A pure module for `ResourceStates.Less` and the sort, against the order it
   means, and for the normalisation of informers.
