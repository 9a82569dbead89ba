----------------------- MODULE StatusReportingProofs -----------------------
(***************************************************************************)
(* What holds of StatusReporting for every number of statuses and reports. *)
(***************************************************************************)
EXTENDS StatusReporting, TLAPS

\* Every step of every goroutine keeps the types.
LEMMA TypeInvariant ==
    ASSUME TypeOK, [Next]_vars
    PROVE  TypeOK'
<1> USE BoundAssumption, StatesAssumption DEF TypeOK, Status, SetterStep, ReportStep
<1>1. CASE UNCHANGED vars
  BY <1>1 DEF vars, opVars, throttleVars, setterVars, reportVars
<1>2. ASSUME NEW s \in States, Receive(s) PROVE TypeOK'
  BY <1>2 DEF Receive, throttleVars, setterVars, reportVars
<1>3. CASE Add
  BY <1>3 DEF Add, setterVars, reportVars
<1>4. CASE Fire
  BY <1>4 DEF Fire, opVars, reportVars
<1>5. CASE ApplyNoInformers
  BY <1>5 DEF ApplyNoInformers, throttleVars, reportVars
<1>6. CASE ReadCurrent
  BY <1>6 DEF ReadCurrent, opVars, throttleVars, reportVars
<1>7. ASSUME NEW fd \in Field, StoreField(fd) PROVE TypeOK'
  <2>1. Mixed(setting) \in [ver : Nat, state : States \cup {NoState, Torn}]
    BY DEF Mixed
  <2>2. setting \in [ver : Nat, state : States \cup {NoState, Torn}]
    OBVIOUS
  <2>3. appStatus' \in Snapshot
    BY <1>7, <2>1, <2>2 DEF StoreField, Snapshot
  <2> QED
    BY <1>7, <2>3 DEF StoreField, opVars, throttleVars, reportVars
<1>8. CASE Stored
  BY <1>8 DEF Stored, opVars, throttleVars, reportVars
<1>9. CASE Compare
  BY <1>9 DEF Compare, opVars
<1>10. ASSUME NEW r \in Reporter, StartOther(r) \/ CanReport(r) \/ Lock(r)
       PROVE TypeOK'
  BY <1>10 DEF StartOther, CanReport, Lock, RStep, opVars, throttleVars, setterVars
<1>11. ASSUME NEW r \in Reporter, ReadState(r) \/ ReadResourceStates(r)
       PROVE TypeOK'
  <2>1. ASSUME NEW fd \in Field
        PROVE  [rData EXCEPT ![r][fd] = appStatus[fd]] \in [Reporter -> Snapshot]
    BY DEF Snapshot
  <2>2. rData' \in [Reporter -> Snapshot]
    BY <1>11, <2>1 DEF ReadState, ReadResourceStates, Field
  <2> QED
    BY <1>11, <2>2 DEF ReadState, ReadResourceStates, RStep, opVars,
                       throttleVars, setterVars
<1>12. ASSUME NEW r \in Reporter, Deliver(r) \/ FailSend(r) \/ Unlock(r)
       PROVE TypeOK'
  BY <1>12 DEF Deliver, FailSend, Unlock, RStep, opVars, throttleVars, setterVars
<1>13. CASE Rollout
  BY <1>13 DEF Rollout, opVars, throttleVars, setterVars
<1> QED
  BY <1>1, <1>2, <1>3, <1>4, <1>5, <1>6, <1>7, <1>8, <1>9, <1>10, <1>11,
     <1>12, <1>13 DEF Next, SetAppStatus, Send

\* The type invariant holds for every number of statuses and reports.
THEOREM TypeCorrect == Spec => []TypeOK
<1>1. Init => TypeOK
  BY BoundAssumption, StatesAssumption
  DEF Init, TypeOK, NoStatus, Status, Snapshot, Blank, SetterStep, ReportStep, Field
<1> QED
  BY <1>1, TypeInvariant, PTL DEF Spec

-----------------------------------------------------------------------------
(***************************************************************************)
(* The inductive invariant.  The throttler: the loop holds the last status *)
(* or has given it to f, and f is in the store whenever no timer runs.     *)
(* setAppStatus: its argument is never older than the store.  Reports: who *)
(* holds the mutex has read nothing older than what the vendor was told.   *)
(***************************************************************************)
ThrottleInv ==
    IF hasInformers
    THEN /\ inHand.ver = produced
         /\ f.ver <= produced
         /\ setting.ver <= f.ver
         /\ opPC = "receive" => f = inHand
         /\ setterPC = "idle" => mu = "free"
         /\ setterPC # "idle" => mu = "held" /\ timer = "running" /\ setting = f
         /\ timer = "nil" => \A fd \in Field : appStatus[fd] = f
    ELSE /\ timer = "nil"
         /\ opPC = "receive"
         /\ setting.ver = produced
         /\ produced = 0 => setterPC = "idle"
         /\ setterPC = "idle" => \A fd \in Field : appStatus[fd] = setting

SetterInv ==
    /\ \A fd \in Field : appStatus[fd].ver <= setting.ver
    /\ setterPC = "store" => \A fd \in Field : current[fd].ver <= setting.ver
    /\ setterPC = "compare" => \A fd \in Field : appStatus[fd] = setting

Holding == {"state", "resources", "send", "delivered", "failed"}

ReportInv ==
    /\ \A r \in Reporter : rPC[r] \in Holding => instanceDataMtx = r
    /\ \A fd \in Field : lastReport[fd].ver <= appStatus[fd].ver
    /\ \A r \in Reporter, fd \in Field : rData[r][fd].ver <= appStatus[fd].ver
    /\ \A r \in Reporter :
          rPC[r] \in {"resources", "send"} =>
              lastReport["State"].ver <= rData[r]["State"].ver
    /\ \A r \in Reporter :
          rPC[r] = "send" =>
              lastReport["ResourceStates"].ver <= rData[r]["ResourceStates"].ver

IInv == ThrottleInv /\ SetterInv /\ ReportInv

\* Every step keeps the invariant of the operator's loop and its throttler.
LEMMA ThrottleInvariant ==
    ASSUME TypeOK, ThrottleInv, SetterInv, [Next]_vars
    PROVE  ThrottleInv'
<1> USE BoundAssumption DEF ThrottleInv, TypeOK, Status
<1>1. CASE UNCHANGED vars
  BY <1>1 DEF vars, opVars, throttleVars, setterVars
<1>2. ASSUME NEW s \in States, Receive(s) PROVE ThrottleInv'
  BY <1>2 DEF Receive, throttleVars, setterVars
<1>3. CASE Add
  BY <1>3 DEF Add, setterVars
<1>4. CASE Fire
  BY <1>4 DEF Fire, opVars
<1>5. CASE ApplyNoInformers
  BY <1>5 DEF ApplyNoInformers, throttleVars
<1>6. CASE ReadCurrent
  BY <1>6 DEF ReadCurrent, opVars, throttleVars
<1>7. ASSUME NEW fd \in Field, StoreField(fd) PROVE ThrottleInv'
  BY <1>7 DEF StoreField, opVars, throttleVars
<1>8. CASE Stored
  BY <1>8 DEF Stored, opVars, throttleVars
<1>9. CASE Compare
  BY <1>9 DEF Compare, opVars, SetterInv
<1>10. CASE Rollout
  BY <1>10 DEF Rollout, opVars, throttleVars, setterVars
<1>11. ASSUME NEW r \in Reporter, StartOther(r) \/ Send(r) PROVE ThrottleInv'
  BY <1>11 DEF StartOther, Send, CanReport, Lock, ReadState, ReadResourceStates,
               Deliver, FailSend, Unlock, opVars, throttleVars, setterVars
<1> QED
  BY <1>1, <1>2, <1>3, <1>4, <1>5, <1>6, <1>7, <1>8, <1>9, <1>10, <1>11
  DEF Next, SetAppStatus

\* Every step keeps the invariant of setAppStatus and the store.
LEMMA SetterInvariant ==
    ASSUME TypeOK, ThrottleInv, SetterInv, [Next]_vars
    PROVE  SetterInv'
<1> USE BoundAssumption DEF SetterInv, TypeOK, Status
<1>1. CASE UNCHANGED vars
  BY <1>1 DEF vars, setterVars
<1>2. ASSUME NEW s \in States, Receive(s) PROVE SetterInv'
  BY <1>2 DEF Receive, setterVars
<1>3. CASE Add
  BY <1>3 DEF Add, setterVars
<1>4. CASE Fire
  BY <1>4 DEF Fire, ThrottleInv, Snapshot
<1>5. CASE ApplyNoInformers
  BY <1>5 DEF ApplyNoInformers, ThrottleInv, Snapshot
<1>6. CASE ReadCurrent
  BY <1>6 DEF ReadCurrent
<1>7. ASSUME NEW fd \in Field, StoreField(fd) PROVE SetterInv'
  <2>1. /\ appStatus'[fd].ver = setting.ver
        /\ \A g \in Field \ {fd} : appStatus'[g] = appStatus[g]
    BY <1>7 DEF StoreField, Mixed, Snapshot
  <2> QED
    BY <1>7, <2>1 DEF StoreField
<1>8. CASE Stored
  BY <1>8 DEF Stored
<1>9. CASE Compare
  BY <1>9 DEF Compare
<1>10. CASE Rollout
  BY <1>10 DEF Rollout, setterVars
<1>11. ASSUME NEW r \in Reporter, StartOther(r) \/ Send(r) PROVE SetterInv'
  BY <1>11 DEF StartOther, Send, CanReport, Lock, ReadState, ReadResourceStates,
               Deliver, FailSend, Unlock, setterVars
<1> QED
  BY <1>1, <1>2, <1>3, <1>4, <1>5, <1>6, <1>7, <1>8, <1>9, <1>10, <1>11
  DEF Next, SetAppStatus

\* The store never goes back, because setting is never older than the store.
LEMMA StoreForward ==
    ASSUME TypeOK, SetterInv, [Next]_vars, NEW fd \in Field
    PROVE  appStatus[fd].ver <= appStatus'[fd].ver
<1> USE DEF TypeOK, Snapshot
<1>1. CASE UNCHANGED appStatus
  BY <1>1
<1>2. ASSUME NEW g \in Field, StoreField(g)
      PROVE  appStatus[fd].ver <= appStatus'[fd].ver
  <2>1. /\ appStatus'[g].ver = setting.ver
        /\ \A h \in Field \ {g} : appStatus'[h] = appStatus[h]
    BY <1>2 DEF StoreField, Mixed
  <2>2. CASE fd = g
    BY <2>1, <2>2 DEF SetterInv
  <2>3. CASE fd # g
    <3>1. appStatus[fd].ver \in Nat /\ appStatus'[fd].ver = appStatus[fd].ver
      BY <2>1, <2>3
    <3> QED
      BY <3>1
  <2> QED
    BY <2>2, <2>3
<1> QED
  BY <1>1, <1>2
  DEF Next, SetAppStatus, Send, vars, setterVars, Receive, Add, Fire,
      ApplyNoInformers, ReadCurrent, Stored, Compare, Rollout, StartOther,
      CanReport, Lock, ReadState, ReadResourceStates, Deliver, FailSend, Unlock

\* Every step keeps the invariant of the reports and their mutex.
LEMMA ReportInvariant ==
    ASSUME TypeOK, SetterInv, ReportInv, [Next]_vars
    PROVE  ReportInv'
<1> USE ReportersAssumption DEF ReportInv, TypeOK, Snapshot
<1>0. /\ \A fd \in Field : appStatus[fd].ver <= appStatus'[fd].ver
      /\ appStatus' \in [Field -> [ver : Nat, state : States \cup {NoState, Torn}]]
  BY StoreForward, TypeInvariant
<1>1. CASE UNCHANGED reportVars
  BY <1>0, <1>1 DEF reportVars
<1>2. CASE Compare
  BY <1>2 DEF Compare, Holding
<1>3. CASE Rollout
  BY <1>3 DEF Rollout, setterVars
<1>4. ASSUME NEW r \in Reporter, StartOther(r) \/ CanReport(r) PROVE ReportInv'
  BY <1>4 DEF StartOther, CanReport, RStep, setterVars, Holding
<1>5. ASSUME NEW r \in Reporter, Lock(r) PROVE ReportInv'
  BY <1>5 DEF Lock, RStep, setterVars, Holding
<1>6. ASSUME NEW r \in Reporter, ReadState(r) PROVE ReportInv'
  BY <1>6 DEF ReadState, RStep, setterVars, Holding, Field
<1>7. ASSUME NEW r \in Reporter, ReadResourceStates(r) PROVE ReportInv'
  BY <1>7 DEF ReadResourceStates, RStep, setterVars, Holding, Field
<1>8. ASSUME NEW r \in Reporter, Deliver(r) PROVE ReportInv'
  BY <1>8 DEF Deliver, RStep, setterVars, Holding, Field
<1>9. ASSUME NEW r \in Reporter, FailSend(r) PROVE ReportInv'
  BY <1>9 DEF FailSend, RStep, setterVars, Holding
<1>10. ASSUME NEW r \in Reporter, Unlock(r) PROVE ReportInv'
  BY <1>10 DEF Unlock, RStep, setterVars, Holding
<1> QED
  BY <1>1, <1>2, <1>3, <1>4, <1>5, <1>6, <1>7, <1>8, <1>9, <1>10
  DEF Next, SetAppStatus, Send, vars, Receive, Add, Fire, ApplyNoInformers,
      ReadCurrent, StoreField, Stored

\* IInv holds in every reachable state.
THEOREM Invariance == Spec => [](TypeOK /\ IInv)
<1>1. Init => IInv
  BY DEF Init, IInv, ThrottleInv, SetterInv, ReportInv, Holding, NoStatus, Blank, Field
<1>2. TypeOK /\ IInv /\ [Next]_vars => IInv'
  BY ThrottleInvariant, SetterInvariant, ReportInvariant DEF IInv
<1> QED
  BY <1>1, <1>2, TypeCorrect, PTL DEF Spec

\* The last status received is never lost between the loop, the throttler,
\* setAppStatus and the store, for any number of statuses and reports.
THEOREM LastStatusSafe == Spec => []NoLostStatus
<1>1. TypeOK /\ IInv => NoLostStatus
  BY StatesAssumption
  DEF TypeOK, IInv, ThrottleInv, NoLostStatus, Status, SetterStep, NoState, Torn
<1> QED
  BY <1>1, Invariance, PTL

\* The vendor is told states and resource states in order, for any number of
\* reports, concurrent with one another and with the writes to the store.
THEOREM ReportOrder == Spec => ReportsInOrder
<1>1. TypeOK /\ IInv /\ [Next]_vars =>
        [\A fd \in Field : lastReport[fd].ver <= lastReport'[fd].ver]_vars
  <2> SUFFICES ASSUME TypeOK, IInv, Next, NEW fd \in Field
               PROVE  lastReport[fd].ver <= lastReport'[fd].ver
    OBVIOUS
  <2> USE DEF TypeOK, Snapshot
  <2>1. CASE UNCHANGED lastReport
    BY <2>1
  <2>2. ASSUME NEW r \in Reporter, Deliver(r)
        PROVE  lastReport[fd].ver <= lastReport'[fd].ver
    BY <2>2 DEF Deliver, RStep, IInv, ReportInv, Field
  <2> QED
    BY <2>1, <2>2
    DEF Next, SetAppStatus, Send, reportVars, Receive, Add, Fire,
        ApplyNoInformers, ReadCurrent, StoreField, Stored, Compare, Rollout,
        StartOther, CanReport, Lock, ReadState, ReadResourceStates, FailSend, Unlock
<1> QED
  BY <1>1, Invariance, PTL DEF Spec, ReportsInOrder

-----------------------------------------------------------------------------
(***************************************************************************)
(* The report of the latest change.  A status that is being set has never  *)
(* been reported, nor has any newer one.  Unless a change is being written *)
(* now, either the vendor and every report that has read the state agree   *)
(* with the store, or the newest version with a report has one that is     *)
(* still to read the state, holds the one in the store, or came to nothing.*)
(* A list of resource states agrees with the state in the store when it is *)
(* of a status with that state, or was read while it was written.          *)
(***************************************************************************)
PendingInv ==
    /\ hasInformers /\ opPC = "add" => f.ver < inHand.ver
    /\ timer = "running" /\ setterPC = "idle" => setting.ver < f.ver
    /\ setterPC # "idle" => setting.ver \in Version
    /\ \A w \in Version : w > setting.ver => rPC[w] = "idle"
    /\ setterPC # "idle" => rPC[setting.ver] = "idle"

\* setAppStatus is writing a state that differs from the one it replaces.
Changing == setterPC \in {"store", "compare"} /\ StateChanged

Latest(v) == rPC[v] # "idle" /\ \A w \in Version : w > v => rPC[w] = "idle"

ListAgrees(status) ==
    status["ResourceStates"].state \in {appStatus["State"].state, Torn}

Known ==
    /\ lastReport["State"].state = appStatus["State"].state
    /\ ListAgrees(lastReport)
    /\ \A r \in Reporter : rPC[r] \in {"resources", "send"} =>
          rData[r]["State"].state = appStatus["State"].state
    /\ \A r \in Reporter : rPC[r] = "send" => ListAgrees(rData[r])

\* The report of v tells the state in the store, or comes to nothing.
WillTell(v) ==
    \/ rPC[v] \in {"check", "lock", "state", "failed", "dropped"}
    \/ /\ rPC[v] \in {"resources", "send"}
       /\ rData[v]["State"].state = appStatus["State"].state
       /\ rPC[v] = "send" => ListAgrees(rData[v])

\* The list in the store is of the same status as the state, or setAppStatus
\* is writing it.
ListInv ==
    /\ setterPC \in {"idle", "read"} => appStatus["State"] = appStatus["ResourceStates"]
    /\ setterPC = "store" => appStatus["ResourceStates"].state \in
                                {current["State"].state, setting.state, Torn}

ChangeInv ==
    /\ setterPC \in {"store", "compare"} /\ ~StateChanged =>
          appStatus["State"].state = current["State"].state
    /\ ~Changing => Known \/ \E v \in Version : Latest(v) /\ WillTell(v)

\* Every step keeps the versions that are still to be reported idle.
LEMMA PendingInvariant ==
    ASSUME TypeOK, ThrottleInv, PendingInv, [Next]_vars
    PROVE  PendingInv'
<1> USE BoundAssumption, ReportersAssumption
    DEF PendingInv, TypeOK, Status, Version, Reporter
<1>1. CASE UNCHANGED vars
  BY <1>1 DEF vars, opVars, throttleVars, setterVars, reportVars
<1>2. ASSUME NEW s \in States, Receive(s) PROVE PendingInv'
  BY <1>2 DEF Receive, throttleVars, setterVars, reportVars, ThrottleInv
<1>3. CASE Add
  BY <1>3 DEF Add, setterVars, reportVars, ThrottleInv
<1>4. CASE Fire
  <2>1. setterPC = "idle"
    BY <1>4 DEF Fire, ThrottleInv
  <2>2. setting.ver < f.ver /\ f.ver <= produced
    BY <1>4, <2>1 DEF Fire, ThrottleInv
  <2>3. setting'.ver \in Version /\ setting.ver < setting'.ver
    BY <1>4, <2>2 DEF Fire
  <2> QED
    BY <1>4, <2>3 DEF Fire, opVars, reportVars
<1>5. CASE ApplyNoInformers
  <2>1. setting.ver = 0 /\ setterPC = "idle"
    BY <1>5 DEF ApplyNoInformers, ThrottleInv
  <2>2. setting'.ver \in Version /\ setting.ver < setting'.ver
    BY <1>5, <2>1 DEF ApplyNoInformers
  <2> QED
    BY <1>5, <2>2 DEF ApplyNoInformers, throttleVars, reportVars, ThrottleInv
<1>6. ASSUME ReadCurrent \/ Stored \/ \E fd \in Field : StoreField(fd)
      PROVE  PendingInv'
  BY <1>6 DEF ReadCurrent, Stored, StoreField, opVars, throttleVars, reportVars
<1>7. CASE Compare
  BY <1>7 DEF Compare, opVars
<1>8. ASSUME NEW r \in Reporter, StartOther(r) \/ Send(r) PROVE PendingInv'
  <2>1. UNCHANGED <<opVars, throttleVars, setterVars>>
    BY <1>8 DEF StartOther, Send, CanReport, Lock, ReadState, ReadResourceStates,
                Deliver, FailSend, Unlock
  <2>2. \A w \in Version : rPC[w] = "idle" => rPC'[w] = "idle"
    BY <1>8 DEF StartOther, Send, CanReport, Lock, ReadState, ReadResourceStates,
                Deliver, FailSend, Unlock, RStep
  <2> QED
    BY <2>1, <2>2 DEF opVars, throttleVars, setterVars
<1>9. CASE Rollout
  BY <1>9 DEF Rollout, opVars, throttleVars, setterVars
<1> QED
  BY <1>1, <1>2, <1>3, <1>4, <1>5, <1>6, <1>7, <1>8, <1>9 DEF Next, SetAppStatus

\* A report that has neither just started nor ended keeps its place as the
\* latest: reports of statuses start in Compare only.
LEMMA LatestKept ==
    ASSUME TypeOK, NEW r \in Reporter, StartOther(r) \/ Send(r),
           NEW v \in Version, Latest(v)
    PROVE  Latest(v)'
BY ReportersAssumption
DEF Latest, TypeOK, Reporter, StartOther, Send, CanReport, Lock, ReadState,
    ReadResourceStates, Deliver, FailSend, Unlock, RStep

\* Every step keeps the list beside the state it belongs to.
LEMMA ListInvariant ==
    ASSUME TypeOK, ThrottleInv, SetterInv, ListInv, [Next]_vars
    PROVE  ListInv'
<1> USE DEF ListInv, Field
<1>1. CASE UNCHANGED <<setterPC, setting, current, appStatus>>
  BY <1>1
<1>2. CASE Fire
  BY <1>2 DEF Fire, ThrottleInv
<1>3. CASE ApplyNoInformers
  BY <1>3 DEF ApplyNoInformers, ThrottleInv
<1>4. CASE ReadCurrent
  BY <1>4 DEF ReadCurrent
<1>5. ASSUME NEW fd \in Field, StoreField(fd) PROVE ListInv'
  BY <1>5 DEF StoreField, Mixed, TypeOK, Snapshot
<1>6. CASE Stored
  BY <1>6 DEF Stored
<1>7. CASE Compare
  BY <1>7 DEF Compare, SetterInv
<1> QED
  BY <1>1, <1>2, <1>3, <1>4, <1>5, <1>6, <1>7
  DEF Next, SetAppStatus, Send, vars, setterVars, Receive, Add, Rollout,
      StartOther, CanReport, Lock, ReadState, ReadResourceStates, Deliver,
      FailSend, Unlock

\* Unless a change is being written, who reads the list now reads one that
\* agrees with the state.
LEMMA ListInStoreAgrees ==
    ASSUME TypeOK, SetterInv, ListInv, ChangeInv, ~Changing
    PROVE  ListAgrees(appStatus)
BY DEF TypeOK, SetterStep, SetterInv, ListInv, ChangeInv, Changing, StateChanged,
       ListAgrees, Field

\* A step of a report keeps what the vendor, the reports and the store agree on.
LEMMA ReportStepKeepsKnown ==
    ASSUME TypeOK, NEW r \in Reporter, StartOther(r) \/ Send(r), Known,
           ListAgrees(appStatus)
    PROVE  Known'
<1> USE DEF Known, ListAgrees, TypeOK, Field
<1>1. appStatus' = appStatus
  BY DEF StartOther, Send, CanReport, Lock, ReadState, ReadResourceStates,
         Deliver, FailSend, Unlock, setterVars
<1>2. CASE ReadState(r)
  BY <1>1, <1>2 DEF ReadState, RStep, Snapshot
<1>3. CASE ReadResourceStates(r)
  BY <1>1, <1>3 DEF ReadResourceStates, RStep, Snapshot
<1>4. CASE Deliver(r)
  BY <1>1, <1>4 DEF Deliver, RStep
<1> QED
  BY <1>1, <1>2, <1>3, <1>4
  DEF StartOther, Send, CanReport, Lock, FailSend, Unlock, RStep

\* A report that will tell the state in the store still will after a step of
\* any report, or it was delivered, and as it alone held the mutex nobody has
\* read anything else.
LEMMA ReportStepKeepsPromise ==
    ASSUME TypeOK, ReportInv, NEW r \in Reporter, StartOther(r) \/ Send(r),
           NEW v \in Version, Latest(v), WillTell(v), ListAgrees(appStatus)
    PROVE  WillTell(v)' \/ Known'
<1> USE DEF ListAgrees, TypeOK, Field
<1>1. appStatus' = appStatus
  BY DEF StartOther, Send, CanReport, Lock, ReadState, ReadResourceStates,
         Deliver, FailSend, Unlock, setterVars
<1>2. v \in Reporter
  BY DEF Reporter
<1>3. CASE r # v
  <2>1. rPC'[v] = rPC[v] /\ rData'[v] = rData[v]
    BY <1>2, <1>3 DEF StartOther, Send, CanReport, Lock, ReadState,
       ReadResourceStates, Deliver, FailSend, Unlock, RStep
  <2> QED
    BY <1>1, <2>1 DEF WillTell
<1>4. CASE r = v
  <2>1. CASE StartOther(v) \/ CanReport(v) \/ Lock(v) \/ FailSend(v) \/ Unlock(v)
    BY <1>1, <1>2, <2>1
    DEF WillTell, StartOther, CanReport, Lock, FailSend, Unlock, RStep, Latest
  <2>2. CASE ReadState(v)
    BY <1>1, <1>2, <2>2 DEF WillTell, ReadState, RStep, Snapshot
  <2>3. CASE ReadResourceStates(v)
    BY <1>1, <1>2, <2>3 DEF WillTell, ReadResourceStates, RStep, Snapshot
  <2>4. CASE Deliver(v)
    <3>1. rData[v]["State"].state = appStatus["State"].state /\ ListAgrees(rData[v])
      BY <2>4 DEF WillTell, Deliver, RStep
    <3>2. \A q \in Reporter : rPC[q] \in {"resources", "send"} => q = v
      BY <1>2, <2>4 DEF ReportInv, Holding, Deliver, RStep
    <3>3. \A q \in Reporter : rPC'[q] \notin {"resources", "send"}
      BY <1>2, <2>4, <3>2 DEF Deliver, RStep
    <3> QED
      BY <1>1, <2>4, <3>1, <3>3 DEF Known, Deliver
  <2> QED
    BY <1>4, <2>1, <2>2, <2>3, <2>4 DEF Send
<1> QED
  BY <1>3, <1>4

\* Every step keeps the promise that the latest change is or will be told.
LEMMA ChangeInvariant ==
    ASSUME TypeOK, ThrottleInv, SetterInv, ReportInv, PendingInv, ListInv, ChangeInv,
           [Next]_vars
    PROVE  ChangeInv'
<1> USE DEF ListAgrees, TypeOK, Field
\* While nothing that ChangeInv speaks of changes but the setter's progress.
<1>0. ASSUME UNCHANGED <<appStatus, reportVars>>, Changing' = Changing,
             setterPC' \in {"store", "compare"} /\ ~StateChanged' =>
                 appStatus["State"].state = current'["State"].state
      PROVE  ChangeInv'
  BY <1>0 DEF ChangeInv, reportVars, Known, Latest, WillTell
<1>1. CASE UNCHANGED vars
  BY <1>1, <1>0 DEF vars, setterVars, ChangeInv, Changing, StateChanged
<1>2. ASSUME (\E s \in States : Receive(s)) \/ Add \/ Stored PROVE ChangeInv'
  BY <1>2, <1>0 DEF Receive, Add, Stored, setterVars, ChangeInv, Changing, StateChanged
<1>3. CASE Fire \/ ApplyNoInformers
  <2>1. setterPC = "idle"
    BY <1>3 DEF Fire, ApplyNoInformers, ThrottleInv
  <2> QED
    BY <1>0, <1>3, <2>1 DEF Fire, ApplyNoInformers, Changing
<1>4. CASE ReadCurrent
  <2>1. ~Changing /\ current'["State"].state = appStatus'["State"].state
    BY <1>4 DEF ReadCurrent, Changing
  <2> QED
    BY <1>4, <2>1 DEF ReadCurrent, ChangeInv, reportVars, Known, Latest, WillTell
<1>5. ASSUME NEW fd \in Field, StoreField(fd) PROVE ChangeInv'
  <2>1. Changing' = Changing /\ StateChanged' = StateChanged /\ setterPC = "store"
    BY <1>5 DEF StoreField, Changing, StateChanged
  <2>2. CASE StateChanged
    BY <2>1, <2>2, <1>5 DEF ChangeInv, Changing
  <2>3. CASE ~StateChanged
    <3>1. appStatus'["State"].state = appStatus["State"].state
      BY <1>5, <2>1, <2>3 DEF StoreField, StateChanged, ChangeInv, Snapshot
    <3> QED
      BY <1>5, <2>1, <2>3, <3>1
      DEF StoreField, ChangeInv, reportVars, Known, Latest, WillTell
  <2> QED
    BY <2>2, <2>3
<1>6. CASE Compare
  <2>1. setterPC' = "idle" /\ ~Changing'
    BY <1>6 DEF Compare, Changing
  <2>2. CASE StateChanged
    <3>1. setting.ver \in Version /\ setting.ver \in Reporter
      BY <1>6 DEF Compare, PendingInv, Reporter
    <3>2. rPC'[setting.ver] = "check"
      BY <1>6, <2>2, <3>1 DEF Compare
    <3>3. \A w \in Version : w > setting.ver => rPC'[w] = "idle"
      BY <1>6, <2>2, <3>1, BoundAssumption DEF Compare, PendingInv, Reporter, Version
    <3>4. Latest(setting.ver)' /\ WillTell(setting.ver)'
      BY <1>6, <3>2, <3>3 DEF Compare, Latest, WillTell
    <3> QED
      BY <1>6, <2>1, <3>1, <3>4 DEF Compare, ChangeInv
  <2>3. CASE ~StateChanged
    <3>1. UNCHANGED <<appStatus, reportVars>> /\ ~Changing
      BY <1>6, <2>3 DEF Compare, Changing, reportVars
    <3>2. Changing' = Changing
      BY <2>1, <3>1 DEF Changing
    <3> QED
      BY <2>1, <3>1, <3>2, <1>0
  <2> QED
    BY <2>2, <2>3
<1>7. ASSUME NEW r \in Reporter, StartOther(r) \/ Send(r) PROVE ChangeInv'
  <2>1. UNCHANGED setterVars
    BY <1>7 DEF StartOther, Send, CanReport, Lock, ReadState, ReadResourceStates,
                Deliver, FailSend, Unlock
  <2>2. Changing' = Changing /\ StateChanged' = StateChanged
    BY <2>1 DEF setterVars, Changing, StateChanged
  <2>3. ASSUME ~Changing
        PROVE  Known' \/ \E v \in Version : Latest(v)' /\ WillTell(v)'
    <3>0. ListAgrees(appStatus)
      BY <2>3, ListInStoreAgrees
    <3>1. CASE Known
      BY <1>7, <3>0, <3>1, ReportStepKeepsKnown
    <3>2. ASSUME NEW v \in Version, Latest(v), WillTell(v)
          PROVE  Known' \/ (Latest(v)' /\ WillTell(v)')
      BY <1>7, <3>0, <3>2, LatestKept, ReportStepKeepsPromise
    <3> QED
      BY <2>3, <3>1, <3>2 DEF ChangeInv
  <2> QED
    BY <2>1, <2>2, <2>3 DEF ChangeInv, setterVars
<1>8. CASE Rollout
  BY <1>8 DEF Rollout, setterVars, ChangeInv, Changing, StateChanged, Known,
              Latest, WillTell
<1> QED
  BY <1>1, <1>2, <1>3, <1>4, <1>5, <1>6, <1>7, <1>8 DEF Next, SetAppStatus

\* What the theorems on the latest change rest on holds in every state.
LEMMA ReportOfLatest == Spec => [](PendingInv /\ ListInv /\ ChangeInv)
<1>1. Init => PendingInv /\ ListInv /\ ChangeInv
  BY BoundAssumption
  DEF Init, PendingInv, ListInv, ChangeInv, Changing, Known, ListAgrees, NoStatus,
      Blank, Field, Version, Reporter
<1>2. TypeOK /\ IInv /\ PendingInv /\ ListInv /\ ChangeInv /\ [Next]_vars
        => PendingInv' /\ ListInv' /\ ChangeInv'
  BY PendingInvariant, ListInvariant, ChangeInvariant DEF IInv
<1> QED
  BY <1>1, <1>2, Invariance, PTL DEF Spec

\* No change of state goes unreported, for any number of statuses and reports:
\* the vendor knows it, or its report is under way, refused or failed.
THEOREM ChangeTold == Spec => []ChangeIsReported
<1>1. PendingInv /\ ChangeInv => ChangeIsReported
  BY DEF ChangeInv, ChangeIsReported, Changing, Known, Latest, WillTell
<1> QED
  BY <1>1, ReportOfLatest, PTL

\* A report that pairs the state of one status with the list of another is
\* followed by the report of the latest change, unless that is refused or fails.
THEOREM MixedCorrected == Spec => []MixedIsCorrected
<1>1. PendingInv /\ ChangeInv => MixedIsCorrected
  BY DEF ChangeInv, MixedIsCorrected, Changing, Known, ListAgrees, Latest, WillTell
<1> QED
  BY <1>1, ReportOfLatest, PTL

-----------------------------------------------------------------------------
(***************************************************************************)
(* StatusReporting implements the safety part of StatusDelivery, for the   *)
(* state and for the resource states.                                      *)
(***************************************************************************)

\* What a step does to the versions that StatusDelivery speaks of.
LEMMA VersionsForward ==
    ASSUME TypeOK, IInv, [Next]_vars, NEW fd \in Field
    PROVE  \/ /\ produced' = produced + 1
              /\ KeptVersion(fd)' = KeptVersion(fd)
              /\ lastReport'[fd].ver = lastReport[fd].ver
           \/ /\ produced' = produced
              /\ KeptVersion(fd)' \in KeptVersion(fd) .. produced
              /\ lastReport'[fd].ver = lastReport[fd].ver
           \/ /\ produced' = produced
              /\ KeptVersion(fd)' = KeptVersion(fd)
              /\ lastReport'[fd].ver \in lastReport[fd].ver .. produced
<1> DEFINE Goal ==
           \/ /\ produced' = produced + 1
              /\ KeptVersion(fd)' = KeptVersion(fd)
              /\ lastReport'[fd].ver = lastReport[fd].ver
           \/ /\ produced' = produced
              /\ KeptVersion(fd)' \in KeptVersion(fd) .. produced
              /\ lastReport'[fd].ver = lastReport[fd].ver
           \/ /\ produced' = produced
              /\ KeptVersion(fd)' = KeptVersion(fd)
              /\ lastReport'[fd].ver \in lastReport[fd].ver .. produced
<1> SUFFICES Goal
  OBVIOUS
<1>1. /\ produced \in Int /\ setting.ver \in Int /\ f.ver \in Int
      /\ appStatus[fd].ver \in Int /\ current[fd].ver \in Int
      /\ lastReport[fd].ver \in Int
      /\ \A r \in Reporter : rData[r][fd].ver \in Int
  BY BoundAssumption DEF TypeOK, Snapshot, Status
<1>2. /\ appStatus[fd].ver <= setting.ver
      /\ setting.ver <= produced
  BY <1>1 DEF IInv, ThrottleInv, SetterInv
<1>3. KeptVersion(fd) \in Int /\ KeptVersion(fd) <= produced
  BY <1>1, <1>2 DEF KeptVersion, IInv, SetterInv
<1>4. CASE UNCHANGED <<produced, setterPC, current, appStatus, lastReport>>
  BY <1>1, <1>3, <1>4 DEF KeptVersion
<1>5. ASSUME NEW s \in States, Receive(s) PROVE Goal
  BY <1>5 DEF Receive, setterVars, reportVars, KeptVersion
<1>6. CASE Fire
  BY <1>1, <1>3, <1>6 DEF Fire, opVars, reportVars, KeptVersion, IInv, ThrottleInv
<1>7. CASE ApplyNoInformers
  <2>1. setterPC # "store"
    BY <1>7, <1>1 DEF ApplyNoInformers, IInv, SetterInv, ThrottleInv, TypeOK
  <2> QED
    BY <1>7, <2>1 DEF ApplyNoInformers, reportVars, KeptVersion
<1>8. CASE ReadCurrent
  BY <1>1, <1>3, <1>8 DEF ReadCurrent, opVars, reportVars, KeptVersion
<1>9. ASSUME NEW g \in Field, StoreField(g) PROVE Goal
  BY <1>1, <1>3, <1>9 DEF StoreField, opVars, reportVars, KeptVersion
<1>10. CASE Stored
  BY <1>1, <1>2, <1>10 DEF Stored, opVars, reportVars, KeptVersion, IInv, SetterInv
<1>11. CASE Compare
  BY <1>1, <1>3, <1>11 DEF Compare, opVars, KeptVersion
<1>12. ASSUME NEW r \in Reporter, Deliver(r) PROVE Goal
  <2>1. rData[r][fd].ver <= appStatus[fd].ver
    BY DEF IInv, ReportInv
  <2>2. lastReport[fd].ver <= rData[r][fd].ver
    BY <1>12 DEF Deliver, RStep, IInv, ReportInv, Field
  <2>3. lastReport'[fd].ver = rData[r][fd].ver
    BY <1>12 DEF Deliver
  <2>4. UNCHANGED <<produced, setterPC, current, appStatus>>
    BY <1>12 DEF Deliver, opVars, setterVars
  <2> QED
    BY <1>1, <1>2, <2>1, <2>2, <2>3, <2>4 DEF KeptVersion
<1> QED
  BY <1>4, <1>5, <1>6, <1>7, <1>8, <1>9, <1>10, <1>11, <1>12
  DEF Next, SetAppStatus, Send, vars, opVars, setterVars, reportVars, Add, Rollout,
      StartOther, CanReport, Lock, ReadState, ReadResourceStates, FailSend, Unlock

\* Every behaviour of the code is one that StatusDelivery allows for the state.
THEOREM StateDelivered == Spec => StateDelivery!DeliverySafety
<1>1. Init => StateDelivery!DeliveryInit
  BY DEF Init, StateDelivery!DeliveryInit, KeptVersion, Blank, NoStatus, Field
<1>2. TypeOK /\ IInv /\ [Next]_vars
        => [StateDelivery!DeliveryNext]_(StateDelivery!delivery)
  <2> SUFFICES ASSUME TypeOK, IInv, [Next]_vars
               PROVE  [StateDelivery!DeliveryNext]_(StateDelivery!delivery)
    OBVIOUS
  <2>1. KeptVersion("State") \in Int /\ produced \in Int
    BY BoundAssumption DEF KeptVersion, TypeOK, Snapshot, Field
  <2> QED
    BY <2>1, VersionsForward
    DEF Field, StateDelivery!DeliveryNext, StateDelivery!delivery,
        StateDelivery!ReceiveNext, StateDelivery!Keep, StateDelivery!Tell
<1> QED
  BY <1>1, <1>2, Invariance, PTL DEF Spec, StateDelivery!DeliverySafety

\* ... and for the resource states.
THEOREM ResourcesDelivered == Spec => ResourcesDelivery!DeliverySafety
<1>1. Init => ResourcesDelivery!DeliveryInit
  BY DEF Init, ResourcesDelivery!DeliveryInit, KeptVersion, Blank, NoStatus, Field
<1>2. TypeOK /\ IInv /\ [Next]_vars
        => [ResourcesDelivery!DeliveryNext]_(ResourcesDelivery!delivery)
  <2> SUFFICES ASSUME TypeOK, IInv, [Next]_vars
               PROVE  [ResourcesDelivery!DeliveryNext]_(ResourcesDelivery!delivery)
    OBVIOUS
  <2>1. KeptVersion("ResourceStates") \in Int /\ produced \in Int
    BY BoundAssumption DEF KeptVersion, TypeOK, Snapshot, Field
  <2> QED
    BY <2>1, VersionsForward
    DEF Field, ResourcesDelivery!DeliveryNext, ResourcesDelivery!delivery,
        ResourcesDelivery!ReceiveNext, ResourcesDelivery!Keep, ResourcesDelivery!Tell
<1> QED
  BY <1>1, <1>2, Invariance, PTL DEF Spec, ResourcesDelivery!DeliverySafety

=============================================================================
