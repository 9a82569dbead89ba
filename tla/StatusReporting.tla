-------------------------- MODULE StatusReporting --------------------------
(***************************************************************************)
(* How an app status travels from the status informers to the vendor:      *)
(*                                                                         *)
(*   monitor --> Operator.runAppStateMonitor --> throttler --> setAppStatus*)
(*           --> store.appStatus --> SendInstanceData --> replicated.app   *)
(*                                                                         *)
(* The goroutines are the operator's loop, the throttler's timer goroutine *)
(* that runs the trailing callback, and one goroutine for every report.    *)
(* The store has no lock: the callback writes store.appStatus while the    *)
(* reports read it.  SendInstanceData orders its sends with a mutex.       *)
(*                                                                         *)
(* A status is a record [ver, state]: "ver" counts the statuses that the   *)
(* operator receives and identifies the list of resource states, "state"   *)
(* is the aggregate that decides whether a report is sent.                 *)
(***************************************************************************)
EXTENDS Integers, FiniteSets

CONSTANTS
    States,         \* the values of types.State
    Ready,          \* the one of them an app without informers is given
    MaxStatuses,    \* bound: how many statuses the monitor produces
    OtherReports,   \* reports not due to a status change: heartbeat ticks
                    \* and instance-tag requests (bounds how many there are)
    Nobody          \* holds a free mutex

NoState == "none"   \* the zero AppStatus of a fresh store
Torn == "torn"      \* a field read in the middle of a write

Version == 1..MaxStatuses
Reporter == Version \cup OtherReports

ASSUME BoundAssumption == MaxStatuses \in Nat
ASSUME StatesAssumption ==
    Ready \in States /\ NoState \notin States /\ Torn \notin States
ASSUME ReportersAssumption ==
    Version \cap OtherReports = {} /\ Nobody \notin Reporter

VARIABLES
    hasInformers,   \* does the app have status informers?
    opPC,           \* the operator's loop: "receive" or "add"
    inHand,         \* the status that loop is handing to the throttler
    produced,       \* version of the last status received
    f,              \* throttler.f, by the status its closure captured
    timer,          \* throttler.timer: "nil" or "running"
    mu,             \* throttler.mu: "free" or "held" (by the callback)
    setterPC,       \* setAppStatus: "idle", "read", "store", "compare"
    setting,        \* its argument newAppStatus
    current,        \* its local currentAppStatus
    appStatus,      \* InMemoryStore.appStatus, field by field
    rPC,            \* where each SendInstanceData call is
    rData,          \* the AppStatus and ResourceStates it has read
    instanceDataMtx,\* who holds report.instanceDataMtx
    superseded,     \* is this pod of an older deployment revision?
    lastReport      \* what the vendor was told last

opVars == <<hasInformers, opPC, inHand, produced>>
throttleVars == <<f, timer, mu>>
setterVars == <<setterPC, setting, current, appStatus>>
reportVars == <<rPC, rData, instanceDataMtx, superseded, lastReport>>
vars == <<opVars, throttleVars, setterVars, reportVars>>

-----------------------------------------------------------------------------
Field == {"State", "ResourceStates"}
NoStatus == [ver |-> 0, state |-> NoState]
Status == [ver : Nat, state : States \cup {NoState}]
Snapshot == [Field -> [ver : Nat, state : States \cup {NoState, Torn}]]
Blank == [fd \in Field |-> NoStatus]

\* A string or slice header of which only some words have been written.
Mixed(s) == [ver |-> s.ver, state |-> Torn]

SetterStep == {"idle", "read", "store", "compare"}

\* "delivered" and "failed" still hold the mutex during the deferred sleep.
ReportStep == {"idle", "check", "lock", "state", "resources", "send",
               "delivered", "failed", "done", "dropped"}

Init ==
    /\ hasInformers \in BOOLEAN
    /\ opPC = "receive"
    /\ inHand = NoStatus
    /\ produced = 0
    /\ f = NoStatus
    /\ timer = "nil"
    /\ mu = "free"
    /\ setterPC = "idle"
    /\ setting = NoStatus
    /\ current = Blank
    /\ appStatus = Blank
    /\ rPC = [r \in Reporter |-> "idle"]
    /\ rData = [r \in Reporter |-> Blank]
    /\ instanceDataMtx = Nobody
    /\ superseded \in BOOLEAN
    /\ lastReport = Blank

-----------------------------------------------------------------------------
(***************************************************************************)
(* The operator's loop and the throttler.                                  *)
(***************************************************************************)

\* The range loop receives the monitor's next status.
Receive(s) ==
    /\ hasInformers
    /\ opPC = "receive"
    /\ produced < MaxStatuses
    /\ produced' = produced + 1
    /\ inHand' = [ver |-> produced + 1, state |-> s]
    /\ opPC' = "add"
    /\ UNCHANGED <<hasInformers, throttleVars, setterVars, reportVars>>

\* Faulty variant of Add: a leading-edge throttle, which ignores the calls made
\* while the timer runs.
AddFirstOnly ==
    /\ opPC = "add"
    /\ mu = "free"
    /\ f' = IF timer = "nil" THEN inHand ELSE f
    /\ timer' = "running"
    /\ opPC' = "receive"
    /\ UNCHANGED <<hasInformers, inHand, produced, mu, setterVars, reportVars>>

\* throttler.add: replace f, start the timer unless it runs already.  The
\* critical section is atomic because the callback holds mu to its end.
Add ==
    /\ opPC = "add"
    /\ mu = "free"
    /\ f' = inHand
    /\ timer' = "running"
    /\ opPC' = "receive"
    /\ UNCHANGED <<hasInformers, inHand, produced, mu, setterVars, reportVars>>

\* The timer goroutine has its tick and the mutex: it runs t.f().
Fire ==
    /\ timer = "running"
    /\ mu = "free"
    /\ mu' = "held"
    /\ setting' = f
    /\ setterPC' = "read"
    /\ UNCHANGED <<opVars, f, timer, current, appStatus, reportVars>>

\* ApplyAppInformers without one usable informer: the bootstrap goroutine
\* sets the status itself and never starts the monitor.
ApplyNoInformers ==
    /\ ~hasInformers
    /\ produced = 0 /\ MaxStatuses > 0
    /\ produced' = 1
    /\ setting' = [ver |-> 1, state |-> Ready]
    /\ setterPC' = "read"
    /\ UNCHANGED <<hasInformers, opPC, inHand, throttleVars, current,
                   appStatus, reportVars>>

-----------------------------------------------------------------------------
(***************************************************************************)
(* Operator.setAppStatus, run by the callback or by ApplyNoInformers.      *)
(***************************************************************************)

ReadCurrent ==
    /\ setterPC = "read"
    /\ current' = appStatus
    /\ setterPC' = "store"
    /\ UNCHANGED <<opVars, throttleVars, setting, appStatus, reportVars>>

\* SetAppStatus copies the struct word by word, with no lock.  The header of
\* a field can be half written, unless the two strings are the same constant.
StoreField(fd) ==
    /\ setterPC = "store"
    /\ appStatus[fd] # setting
    /\ \/ appStatus' = [appStatus EXCEPT ![fd] = setting]
       \/ /\ fd = "ResourceStates" \/ setting.state # current["State"].state
          /\ appStatus' = [appStatus EXCEPT ![fd] = Mixed(setting)]
    /\ UNCHANGED <<opVars, throttleVars, setterPC, setting, current, reportVars>>

Stored ==
    /\ setterPC = "store"
    /\ \A fd \in Field : appStatus[fd] = setting
    /\ setterPC' = "compare"
    /\ UNCHANGED <<opVars, throttleVars, setting, current, appStatus, reportVars>>

\* Faulty variant of StateChanged: the current status is read after it is set.
StateChangedAfterSet == setting.state # appStatus["State"].state

StateChanged == setting.state # current["State"].state

\* Spawn the report when the state differs, return, reset the timer, unlock.
Compare ==
    /\ setterPC = "compare"
    /\ rPC' = IF StateChanged THEN [rPC EXCEPT ![setting.ver] = "check"] ELSE rPC
    /\ setterPC' = "idle"
    /\ timer' = "nil"
    /\ mu' = "free"
    /\ UNCHANGED <<opVars, f, setting, current, appStatus, rData,
                   instanceDataMtx, superseded, lastReport>>

-----------------------------------------------------------------------------
(***************************************************************************)
(* report.SendInstanceData                                                 *)
(***************************************************************************)

RStep(r, from, to) == rPC[r] = from /\ rPC' = [rPC EXCEPT ![r] = to]

\* The heartbeat's cron job or the instance-tags handler.
StartOther(r) ==
    /\ r \in OtherReports
    /\ RStep(r, "idle", "check")
    /\ UNCHANGED <<opVars, throttleVars, setterVars, rData, instanceDataMtx,
                   superseded, lastReport>>

\* canReport passes only when the revisions agree; any of its API calls, and
\* GetClientset before it, may fail.
CanReport(r) ==
    /\ \/ ~superseded /\ RStep(r, "check", "lock")
       \/ RStep(r, "check", "dropped")
    /\ UNCHANGED <<opVars, throttleVars, setterVars, rData, instanceDataMtx,
                   superseded, lastReport>>

\* Faulty variant of Lock: no mutex.
LockNothing(r) ==
    /\ RStep(r, "lock", "state")
    /\ instanceDataMtx' = r
    /\ UNCHANGED <<opVars, throttleVars, setterVars, rData, superseded, lastReport>>

Lock(r) ==
    /\ RStep(r, "lock", "state")
    /\ instanceDataMtx = Nobody
    /\ instanceDataMtx' = r
    /\ UNCHANGED <<opVars, throttleVars, setterVars, rData, superseded, lastReport>>

\* GetInstanceData calls GetAppStatus once for State ...
ReadState(r) ==
    /\ RStep(r, "state", "resources")
    /\ rData' = [rData EXCEPT ![r]["State"] = appStatus["State"]]
    /\ UNCHANGED <<opVars, throttleVars, setterVars, instanceDataMtx,
                   superseded, lastReport>>

\* ... and once more for ResourceStates.
ReadResourceStates(r) ==
    /\ RStep(r, "resources", "send")
    /\ rData' = [rData EXCEPT ![r]["ResourceStates"] = appStatus["ResourceStates"]]
    /\ UNCHANGED <<opVars, throttleVars, setterVars, instanceDataMtx,
                   superseded, lastReport>>

\* The POST, or the append to the air-gap report, succeeds ...
Deliver(r) ==
    /\ RStep(r, "send", "delivered")
    /\ lastReport' = rData[r]
    /\ UNCHANGED <<opVars, throttleVars, setterVars, rData, instanceDataMtx,
                   superseded>>

\* ... or fails, which is logged and not retried.
FailSend(r) ==
    /\ RStep(r, "send", "failed")
    /\ UNCHANGED <<opVars, throttleVars, setterVars, rData, instanceDataMtx,
                   superseded, lastReport>>

\* Faulty variant of Unlock: the error path returns without unlocking.
UnlockOnSuccess(r) ==
    /\ RStep(r, "delivered", "done") \/ RStep(r, "failed", "dropped")
    /\ instanceDataMtx' = IF rPC[r] = "delivered" THEN Nobody ELSE r
    /\ UNCHANGED <<opVars, throttleVars, setterVars, rData, superseded, lastReport>>

\* The deferred function sleeps for a second and unlocks, success or not.
Unlock(r) ==
    /\ RStep(r, "delivered", "done") \/ RStep(r, "failed", "dropped")
    /\ instanceDataMtx' = Nobody
    /\ UNCHANGED <<opVars, throttleVars, setterVars, rData, superseded, lastReport>>

\* A rollout of the replicated deployment, or a rollback to this revision.
Rollout ==
    /\ superseded' = ~superseded
    /\ UNCHANGED <<opVars, throttleVars, setterVars, rPC, rData,
                   instanceDataMtx, lastReport>>

-----------------------------------------------------------------------------
SetAppStatus == ReadCurrent \/ (\E fd \in Field : StoreField(fd)) \/ Stored \/ Compare

Send(r) ==
    \/ CanReport(r)
    \/ Lock(r)
    \/ ReadState(r)
    \/ ReadResourceStates(r)
    \/ Deliver(r)
    \/ FailSend(r)
    \/ Unlock(r)

Next ==
    \/ \E s \in States : Receive(s)
    \/ Add
    \/ Fire
    \/ ApplyNoInformers
    \/ SetAppStatus
    \/ \E r \in Reporter : StartOther(r) \/ Send(r)
    \/ Rollout

(***************************************************************************)
(* Every goroutine that can run does run.  Nothing obliges the cluster to  *)
(* produce a status, a heartbeat or a rollout.  A tearing write does not   *)
(* go on for ever: what is fair is the step that completes a field.        *)
(***************************************************************************)
FinishField(fd) == StoreField(fd) /\ appStatus'[fd] = setting

Fairness ==
    /\ WF_vars(Add)
    /\ WF_vars(Fire)
    /\ WF_vars(ApplyNoInformers)
    /\ WF_vars(ReadCurrent \/ Stored \/ Compare)
    /\ \A fd \in Field : WF_vars(FinishField(fd))
    /\ \A r \in Reporter : WF_vars(Send(r))

Spec == Init /\ [][Next]_vars /\ Fairness

-----------------------------------------------------------------------------
(***************************************************************************)
(* Properties                                                              *)
(***************************************************************************)

\* The types of the variables.
TypeOK ==
    /\ hasInformers \in BOOLEAN
    /\ opPC \in {"receive", "add"}
    /\ inHand \in Status
    /\ produced \in 0..MaxStatuses
    /\ f \in Status
    /\ timer \in {"nil", "running"}
    /\ mu \in {"free", "held"}
    /\ setterPC \in SetterStep
    /\ setting \in Status
    /\ current \in Snapshot
    /\ appStatus \in Snapshot
    /\ rPC \in [Reporter -> ReportStep]
    /\ rData \in [Reporter -> Snapshot]
    /\ instanceDataMtx \in Reporter \cup {Nobody}
    /\ superseded \in BOOLEAN
    /\ lastReport \in Snapshot

\* The throttler drops the statuses in between but never the last one: what
\* the operator received last is in its hands, scheduled in the throttler,
\* being set, or already in both fields of the store (throttler.go:23-38).
NoLostStatus ==
    \/ opPC = "add" /\ inHand.ver = produced
    \/ timer = "running" /\ f.ver = produced
    \/ setterPC # "idle" /\ setting.ver = produced
    \/ \A fd \in Field : appStatus[fd].ver = produced /\ appStatus[fd].state # Torn

\* "make sure events are reported in order" (instance.go:38): no report tells
\* the vendor a state or a list of resource states older than one already told,
\* whoever asked for the reports and however their goroutines interleave.
ReportsInOrder ==
    [][\A fd \in Field : lastReport[fd].ver <= lastReport'[fd].ver]_vars

\* A change of state does not go unreported (operator.go:124-140): when no
\* status is being set, the vendor knows the state in the store, or the report
\* of the latest change is under way, or it was refused or failed.
ChangeIsReported ==
    setterPC = "idle" =>
        \/ lastReport["State"].state = appStatus["State"].state
        \/ \E v \in Version :
              /\ rPC[v] \notin {"idle", "delivered", "done"}
              /\ \A w \in Version : w > v => rPC[w] = "idle"

\* GetInstanceData reads the status twice (instance.go:142-143), so a report may
\* pair the state of one status with the list of resource states of another.
\* Such a pair does not stay: when no status is being set, the list the vendor
\* was told last is of a status with the state told beside it (or was read half
\* written), or the report of the latest change is under way, or it was refused
\* or failed.
MixedIsCorrected ==
    setterPC = "idle" =>
        \/ lastReport["ResourceStates"].state \in {lastReport["State"].state, Torn}
        \/ \E v \in Version :
              /\ rPC[v] \notin {"idle", "delivered", "done"}
              /\ \A w \in Version : w > v => rPC[w] = "idle"

\* util.go:168: "don't report from sdk instances that are not associated with
\* the current deployment revision".  The check is made before the wait for
\* the mutex, so a pod replaced meanwhile still gathers and sends a report.
SupersededNeverReports ==
    [][\A r \in Reporter : rPC[r] = "lock" /\ superseded => rPC'[r] = "lock"]_vars

\* Every report that a change started ends: delivered, unless it was refused
\* or failed, and the vendor then knows that state or a newer one.  No report
\* waits for the mutex for ever (instance.go:39-43).
ChangeEventuallyTold ==
    \A v \in Version :
        rPC[v] # "idle" ~> rPC[v] = "dropped" \/ lastReport["State"].ver >= v

-----------------------------------------------------------------------------
(***************************************************************************)
(* The abstract specification, for either field of the status.  A status   *)
(* is kept when setAppStatus has written both fields; until then the kept  *)
(* one is the one that setAppStatus read before it began to write.         *)
(***************************************************************************)
KeptVersion(fd) ==
    IF setterPC = "store" THEN current[fd].ver ELSE appStatus[fd].ver

StateDelivery == INSTANCE StatusDelivery
    WITH received <- produced,
         kept <- KeptVersion("State"),
         told <- lastReport["State"].ver

ResourcesDelivery == INSTANCE StatusDelivery
    WITH received <- produced,
         kept <- KeptVersion("ResourceStates"),
         told <- lastReport["ResourceStates"].ver

\* The state is delivered as StatusDelivery promises: in order, none invented,
\* and under fairness the last one received is kept (operator.go:59-143).
DeliversState == StateDelivery!DeliverySpec

\* So is the list of resource states, which SetAppStatus writes and
\* GetInstanceData reads apart from the state (instance.go:142-143).
DeliversResources == ResourcesDelivery!DeliverySpec

=============================================================================
