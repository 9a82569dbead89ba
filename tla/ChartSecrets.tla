----------------------------- MODULE ChartSecrets -----------------------------
(***************************************************************************)
(* The requests that read and write the secrets the Helm chart creates:    *)
(* the mock data of integration mode in the "replicated" secret            *)
(* (pkg/integration, handlers/mock.go) and the metadata of support bundles *)
(* in "replicated-support-metadata" (pkg/supportbundle).  Each package has *)
(* a mutex of its own and neither secret is in the other's requests: this  *)
(* is either secret, support says which.                                   *)
(*                                                                         *)
(* A request is a record [kind, data]: POST and PATCH replace the metadata *)
(* or merge into them, MOCK saves mock data, GET reads them, and APP asks  *)
(* of the app (its information, status, history or updates), which mock    *)
(* data answer in integration mode.  The pods of a rolling update share    *)
(* the secret, but not the mutex, and the chart or a user may edit, delete *)
(* or create it at any time.                                               *)
(***************************************************************************)
EXTENDS Naturals

CONSTANTS
    Requests,   \* the HTTP requests, each made once (the bound on them)
    Pods,
    Keys,       \* of the secret's data
    Values,
    EnabledKey, MockKey,    \* integration-enabled, integration-mock-data
    Yes,        \* what makes integration-enabled parse as true
    Nothing,    \* no value; who holds a free mutex
    MaxEdits    \* bound: changes of the secret by others

ASSUME KeysAssumption == EnabledKey \in Keys /\ MockKey \in Keys /\ EnabledKey # MockKey
ASSUME ValuesAssumption == Yes \in Values /\ Nothing \notin Values \cup Requests
ASSUME EditsAssumption == MaxEdits \in Nat

VARIABLES
    support,    \* is this the secret of support bundle metadata?
    readOnly,   \* the store's read-only mode
    dev,        \* is the license of type "dev"?
    secret,     \* [rv, exists, data]
    edits,
    lock,       \* who holds each pod's mutex
    pc, pod, req, answer,   \* of each request
    fetched     \* its local: the secret it got

mode == <<support, readOnly, dev>>
vars == <<mode, secret, edits, lock, pc, pod, req, answer, fetched>>

-----------------------------------------------------------------------------
Data == [Keys -> Values \cup {Nothing}]
NoData == [k \in Keys |-> Nothing]

Secret == [rv : Nat \ {0}, exists : BOOLEAN, data : Data]
NoSecret == [rv |-> 1, exists |-> FALSE, data |-> NoData]
FirstSecret ==
    {NoSecret} \cup
    {[rv |-> 1, exists |-> TRUE, data |-> data] :
        data \in {NoData, [NoData EXCEPT ![EnabledKey] = Yes]}}

\* What a request may ask of this secret.  The data of a metadata request may
\* be empty, but must be there.
Request ==
    IF support THEN [kind : {"POST", "PATCH"}, data : Data]
    ELSE [kind : {"MOCK"}, data : Values] \cup [kind : {"GET", "APP"}, data : {Nothing}]
NoRequest == [kind |-> "none", data |-> Nothing]
Writes(r) == req[r].kind \notin {"GET", "APP"}

NoAnswer == [code |-> "none", body |-> Nothing]
Ok(body) == [code |-> "ok", body |-> body]
Failed == [code |-> "failed", body |-> Nothing]
Real == [code |-> "real", body |-> Nothing]     \* from the store and Helm

Step == {"new", "handle", "check", "checking", "save", "fetch", "write", "done"}

Init ==
    /\ support \in BOOLEAN /\ readOnly \in BOOLEAN /\ dev \in BOOLEAN
    /\ secret \in FirstSecret
    /\ edits = 0
    /\ lock = [p \in Pods |-> Nothing]
    /\ pc = [r \in Requests |-> "new"]
    /\ pod \in [Requests -> Pods]
    /\ req = [r \in Requests |-> NoRequest]
    /\ answer = [r \in Requests |-> NoAnswer]
    /\ fetched = [r \in Requests |-> NoSecret]

-----------------------------------------------------------------------------
At(r, step) == pc[r] = step
Goto(r, step) == pc' = [pc EXCEPT ![r] = step]

\* The request is answered and its locals are gone.
Answer(r, a) ==
    /\ Goto(r, "done")
    /\ answer' = [answer EXCEPT ![r] = a]
    /\ fetched' = [fetched EXCEPT ![r] = NoSecret]
    /\ UNCHANGED <<mode, edits, pod, req>>

Arrive(r, q) ==
    /\ At(r, "new")
    /\ req' = [req EXCEPT ![r] = q]
    /\ Goto(r, "handle")
    /\ UNCHANGED <<mode, secret, edits, lock, pod, answer, fetched>>

\* Read-only mode, a body that does not decode or has no data, no clientset.
\* The body with mock data is read after integration mode was checked.
Refuse(r) ==
    /\ At(r, "handle") \/ (At(r, "save") /\ req[r].kind = "MOCK")
    /\ Answer(r, Failed)
    /\ UNCHANGED <<secret, lock>>

\* EnforceMockAccess lets only development licenses at the mock data.
Handle(r) ==
    /\ At(r, "handle")
    /\ ~(readOnly /\ Writes(r))
    /\ req[r].kind \in {"MOCK", "GET"} => dev
    /\ Goto(r, IF support THEN "save" ELSE "check")
    /\ UNCHANGED <<mode, secret, edits, lock, pod, req, answer, fetched>>

\* The answer when integration mode is not enabled.
WithoutMock(r) == IF req[r].kind = "APP" THEN Real ELSE Failed

\* IsEnabled knows without the secret that a license is not for development.
NotDev(r) ==
    /\ At(r, "check") /\ ~dev
    /\ Answer(r, WithoutMock(r))
    /\ UNCHANGED <<secret, lock>>

\* IsEnabled, GetMockData, SetMockData and SaveMetadata take the mutex first.
Lock(r) ==
    /\ (At(r, "check") /\ dev) \/ At(r, "save")
    /\ lock[pod[r]] = Nothing
    /\ lock' = [lock EXCEPT ![pod[r]] = r]
    /\ Goto(r, IF At(r, "check") THEN "checking" ELSE "fetch")
    /\ UNCHANGED <<mode, secret, edits, pod, req, answer, fetched>>

\* Faulty variant of Unlock: it is not deferred, and errors return before it.
UnlockOnSuccess(r, ok) == IF ok THEN lock' = [lock EXCEPT ![pod[r]] = Nothing] ELSE UNCHANGED lock

Unlock(r, ok) == lock' = [lock EXCEPT ![pod[r]] = Nothing]

\* IsEnabled: no secret or no such key is no error, but not enabled.
Enabled == secret.exists /\ secret.data[EnabledKey] = Yes

Checked(r) ==
    /\ At(r, "checking")
    /\ Unlock(r, TRUE)
    /\ IF Enabled
       THEN Goto(r, "save") /\ UNCHANGED <<mode, edits, pod, req, answer, fetched>>
       ELSE Answer(r, WithoutMock(r))
    /\ UNCHANGED secret

\* GetMockData: without a secret or mock data in it, the default ones.
MockData == IF secret.exists THEN secret.data[MockKey] ELSE Nothing

Read(r) ==
    /\ At(r, "fetch") /\ ~Writes(r)
    /\ Unlock(r, TRUE)
    /\ Answer(r, Ok(MockData))
    /\ UNCHANGED secret

Fetch(r) ==
    /\ At(r, "fetch") /\ Writes(r) /\ secret.exists
    /\ fetched' = [fetched EXCEPT ![r] = secret]
    /\ Goto(r, "write")
    /\ UNCHANGED <<mode, secret, edits, lock, pod, req, answer>>

-----------------------------------------------------------------------------
\* Faulty variant of Edited: the mock data are stored with their request.
EditedRequest(r) ==
    IF req[r].kind = "MOCK" THEN [fetched[r].data EXCEPT ![MockKey] = req[r]] ELSE req[r].data

\* The data that the update carries.
Edited(r) ==
    LET q == req[r]
        old == fetched[r].data
    IN  CASE q.kind = "POST"  -> q.data
          [] q.kind = "PATCH" -> [k \in Keys |-> IF q.data[k] # Nothing THEN q.data[k] ELSE old[k]]
          [] q.kind = "MOCK"  -> [old EXCEPT ![MockKey] = q.data]

\* An update without a resource version is applied to whatever is there.
Unversioned == 0

\* Faulty variant of Sent: a new object is sent, not the one that was fetched.
SentUnversioned(r) == [rv |-> Unversioned, data |-> Edited(r)]

Sent(r) == [rv |-> fetched[r].rv, data |-> Edited(r)]

\* The API server updates what is there and has not changed since.
Accepts(update) == secret.exists /\ update.rv \in {Unversioned, secret.rv}

Update(r) ==
    /\ At(r, "write") /\ Accepts(Sent(r))
    /\ secret' = [rv |-> secret.rv + 1, exists |-> TRUE, data |-> Sent(r).data]

Write(r) ==
    /\ Update(r)
    /\ Unlock(r, TRUE)
    /\ Answer(r, Ok(Nothing))

\* A call fails, is refused or not found, or is applied and its answer lost.
Fails(r) ==
    /\ pc[r] \in {"checking", "fetch", "write"}
    /\ Update(r) \/ UNCHANGED secret
    /\ Unlock(r, FALSE)
    /\ Answer(r, Failed)

\* The secret is deleted; or the chart or a user creates it, or edits the key
\* that is theirs.
Edit(exists, value) ==
    /\ edits < MaxEdits
    /\ edits' = edits + 1
    /\ secret' = [rv |-> secret.rv + 1, exists |-> exists,
                  data |-> IF exists THEN [secret.data EXCEPT ![EnabledKey] = value]
                           ELSE NoData]
    /\ UNCHANGED <<mode, lock, pc, pod, req, answer, fetched>>

Serve(r) ==
    \/ Refuse(r)
    \/ Handle(r)
    \/ NotDev(r)
    \/ Lock(r)
    \/ Checked(r)
    \/ Read(r)
    \/ Fetch(r)
    \/ Write(r)
    \/ Fails(r)

Next ==
    \/ \E r \in Requests : Serve(r) \/ \E q \in Request : Arrive(r, q)
    \/ \E exists \in BOOLEAN, value \in Values \cup {Nothing} : Edit(exists, value)

\* Calls to the API server end, and who waits for a mutex gets it.
Fairness == \A r \in Requests : WF_vars(Serve(r))

Spec == Init /\ [][Next]_vars /\ Fairness

-----------------------------------------------------------------------------
(***************************************************************************)
(* Properties                                                              *)
(***************************************************************************)

\* The types of the variables.
TypeOK ==
    /\ support \in BOOLEAN /\ readOnly \in BOOLEAN /\ dev \in BOOLEAN
    /\ secret \in Secret
    /\ edits \in 0..MaxEdits
    /\ lock \in [Pods -> Requests \cup {Nothing}]
    /\ pc \in [Requests -> Step]
    /\ pod \in [Requests -> Pods]
    /\ req \in [Requests -> Request \cup {NoRequest}]
    /\ answer \in [Requests ->
          [code : {"none", "ok", "failed", "real"}, body : Values \cup {Nothing}]]
    /\ fetched \in [Requests -> Secret]

\* The data there are, to all who look.
Seen == IF secret.exists THEN secret.data ELSE [k \in {} |-> Nothing]

\* Fetching, editing and updating under a mutex of the own process is one
\* atomic step to all who look, whatever pods and people write at once: no
\* update of metadata or mock data that was answered with success is lost or
\* overwrites what it did not see, one that failed half-way leaves no half, and
\* every request is answered (metadata.go:22-58, integration.go:23-48,
\* mock.go:24-83).
Store == INSTANCE SecretStore WITH data <- Seen
RequestsAreAtomic == Store!StoreSpec
=============================================================================
