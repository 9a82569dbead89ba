---------------------------- MODULE CustomMetrics ----------------------------
(***************************************************************************)
(* Requests for custom metrics and instance tags:                          *)
(*                                                                         *)
(*   cacheMiddleware --> handler --> meta (the replicated-meta-data secret)*)
(*                               --> report (the vendor)                   *)
(*                                                                         *)
(* Every pod of the deployment has its own response cache and its own      *)
(* replicatedSecretLock; the secret is shared by all pods and guarded by   *)
(* the resource version that the API server checks on an update.  During a *)
(* rolling update two pods serve at once.                                  *)
(*                                                                         *)
(* A request is a record [method, data]: POST overwrites the metrics, PATCH*)
(* merges into them, DELETE is a PATCH that unsets one key, TAGS saves the *)
(* instance tags under another key of the same secret.                     *)
(***************************************************************************)
EXTENDS Integers, FiniteSets

CONSTANTS
    Requests,   \* the HTTP requests, each made once (the bound on them)
    Pods,
    Keys,       \* names of metrics
    Values,     \* values of metrics and of tags
    Nothing     \* no value: a key that is not there, a nil in a request

ASSUME NothingAssumption == Nothing \notin Values \cup Requests
ASSUME SetsAssumption == Keys # {} /\ Values # {} /\ Pods # {}

VARIABLES
    readOnly,   \* the store's read-only mode, fixed by the configuration
    secret,     \* replicated-meta-data: [rv, exists, metrics, tags]
    vendor,     \* the metrics the vendor was told last
    cache,      \* each pod's cached entries, by cache key
    lock,       \* who holds each pod's replicatedSecretLock
    pc, req, pod, status,   \* of each request
    existing,   \* its local: the metrics that get() returned
    fetched,    \* its local: the secret that save() fetched
    synced,     \* its local syncedMetrics
    saved,      \* history: did its save succeed?
    alone       \* history: has no other request been served meanwhile?

sharedVars == <<readOnly, secret, vendor, cache, lock>>
localVars == <<existing, fetched, synced>>
requestVars == <<pc, req, pod, status, localVars, saved, alone>>
vars == <<sharedVars, requestVars>>

-----------------------------------------------------------------------------
Metrics == [Keys -> Values \cup {Nothing}]
NoMetrics == [k \in Keys |-> Nothing]

\* What a body can say of the metrics: at least one key, and no nil
\* (validateCustomAppMetricsData); a DELETE names one key.
Bodies == Metrics \ {NoMetrics}
Request ==
    [method : {"POST", "PATCH"}, data : Bodies] \cup
    [method : {"DELETE"}, data : Keys] \cup
    [method : {"TAGS"}, data : Values]
NoRequest == [method |-> "none", data |-> Nothing]
OnMetrics(r) == req[r].method # "TAGS"

\* Method and path make the cache key: each metric to delete has a path.
CacheKey(q) == <<q.method, IF q.method = "DELETE" THEN q.data ELSE Nothing>>
CacheKeys == {CacheKey(q) : q \in Request}

Secret == [rv : Nat, exists : BOOLEAN, metrics : Metrics,
           tags : Values \cup {Nothing}]
NoSecret == [rv |-> 0, exists |-> FALSE, metrics |-> NoMetrics, tags |-> Nothing]

Step == {"new", "cache", "get", "save", "fetch", "write", "send", "respond", "done"}
Answer == {"none", "ok", "cached", "refused", "failed"}

\* The secret outlives the pods: an earlier one may have left it with no more
\* than empty metrics.
Init ==
    /\ readOnly \in BOOLEAN
    /\ secret \in {NoSecret, [NoSecret EXCEPT !.rv = 1, !.exists = TRUE]}
    /\ vendor = NoMetrics
    /\ cache = [p \in Pods |-> [c \in CacheKeys |-> NoRequest]]
    /\ lock = [p \in Pods |-> Nothing]
    /\ pc = [r \in Requests |-> "new"]
    /\ req = [r \in Requests |-> NoRequest]
    /\ pod \in [Requests -> Pods]
    /\ status = [r \in Requests |-> "none"]
    /\ existing = [r \in Requests |-> NoMetrics]
    /\ fetched = [r \in Requests |-> NoSecret]
    /\ saved = [r \in Requests |-> FALSE]
    /\ synced = [r \in Requests |-> NoMetrics]
    /\ alone = [r \in Requests |-> FALSE]

-----------------------------------------------------------------------------
(***************************************************************************)
(* Operators                                                               *)
(***************************************************************************)

\* Faulty variant of Merge: a nil is stored as a value, not as a deletion.
MergeKeepsDeleted(old, q) ==
    CASE q.method = "POST" -> q.data
      [] q.method = "PATCH" ->
            [k \in Keys |-> IF q.data[k] # Nothing THEN q.data[k] ELSE old[k]]
      [] OTHER -> old

\* mergeCustomAppMetrics
Merge(old, q) ==
    CASE q.method = "POST" -> q.data
      [] q.method = "PATCH" ->
            [k \in Keys |-> IF q.data[k] # Nothing THEN q.data[k] ELSE old[k]]
      [] q.method = "DELETE" -> [old EXCEPT ![q.data] = Nothing]

\* The metrics of the request itself, sent when they cannot be synced: the
\* nil of a DELETE reaches the vendor as no value.
Inbound(q) == IF q.method = "DELETE" THEN NoMetrics ELSE q.data

At(r, step) == pc[r] = step
Goto(r, step) == pc' = [pc EXCEPT ![r] = step]

\* The handler returns; what it answered is in the response recorder.
Reply(r, answer) ==
    /\ Goto(r, "respond")
    /\ status' = [status EXCEPT ![r] = answer]

-----------------------------------------------------------------------------
(***************************************************************************)
(* cacheMiddleware and the handlers                                        *)
(***************************************************************************)

Arrive(r, q) ==
    /\ At(r, "new")
    /\ req' = [req EXCEPT ![r] = q]
    /\ alone' = [o \in Requests |->
            IF o = r THEN \A a \in Requests : pc[a] \in {"new", "done"}
            ELSE alone[o] /\ pc[o] = "done"]
    /\ Goto(r, "cache")
    /\ UNCHANGED <<sharedVars, pod, status, localVars, saved>>

\* cache.Get finds an entry and IsSamePayload.
Hit(r) == cache[pod[r]][CacheKey(req[r])] = req[r]

ServeCached(r) ==
    /\ At(r, "cache") /\ Hit(r)
    /\ Goto(r, "done")
    /\ status' = [status EXCEPT ![r] = "cached"]
    /\ UNCHANGED <<sharedVars, req, pod, localVars, saved, alone>>

\* A DELETE or TAGS request in read-only mode, a body that does not decode or
\* validate, no clientset.
Refuse(r) ==
    /\ At(r, "cache") /\ ~Hit(r)
    /\ Reply(r, "refused")
    /\ UNCHANGED <<sharedVars, req, pod, localVars, saved, alone>>

Handle(r) ==
    /\ At(r, "cache") /\ ~Hit(r)
    /\ ~(readOnly /\ req[r].method \in {"DELETE", "TAGS"})
    /\ Goto(r, IF OnMetrics(r) THEN "get" ELSE "save")
    /\ UNCHANGED <<sharedVars, req, pod, status, localVars, saved, alone>>

\* The locals of the handler are gone.
EndOfScope(r) ==
    /\ existing' = [existing EXCEPT ![r] = NoMetrics]
    /\ fetched' = [fetched EXCEPT ![r] = NoSecret]
    /\ synced' = [synced EXCEPT ![r] = NoMetrics]

\* Faulty variant of Respond: failures are cached as well.
RespondAlways(r) ==
    /\ At(r, "respond")
    /\ Goto(r, "done")
    /\ cache' = [cache EXCEPT ![pod[r]][CacheKey(req[r])] = req[r]]
    /\ EndOfScope(r)
    /\ UNCHANGED <<readOnly, secret, vendor, lock, req, pod, status, saved, alone>>

\* Back in the middleware: only a successful response enters the cache.
Respond(r) ==
    /\ At(r, "respond")
    /\ Goto(r, "done")
    /\ cache' = IF status[r] = "ok"
                THEN [cache EXCEPT ![pod[r]][CacheKey(req[r])] = req[r]] ELSE cache
    /\ EndOfScope(r)
    /\ UNCHANGED <<readOnly, secret, vendor, lock, req, pod, status, saved, alone>>

\* A minute has passed since the entry was set.
Expire(p, c) ==
    /\ cache[p][c] # NoRequest
    /\ cache' = [cache EXCEPT ![p][c] = NoRequest]
    /\ UNCHANGED <<readOnly, secret, vendor, lock, requestVars>>

-----------------------------------------------------------------------------
(***************************************************************************)
(* SyncCustomAppMetrics, SaveInstanceTag and meta.save                     *)
(***************************************************************************)

\* get() reads the metrics without the lock ...
GetMetrics(r) ==
    /\ At(r, "get")
    /\ existing' = [existing EXCEPT ![r] = secret.metrics]
    /\ Goto(r, "save")
    /\ UNCHANGED <<sharedVars, req, pod, status, fetched, synced, saved, alone>>

\* ... or fails: the request goes on with its own data.
GetFails(r) ==
    /\ At(r, "get")
    /\ synced' = [synced EXCEPT ![r] = Inbound(req[r])]
    /\ Goto(r, "send")
    /\ UNCHANGED <<sharedVars, req, pod, status, existing, fetched, saved, alone>>

\* In read-only mode save() returns at once, without an error.
SkipSave(r) == readOnly

SaveNothing(r) ==
    /\ At(r, "save") /\ SkipSave(r)
    /\ synced' = [synced EXCEPT ![r] =
            IF OnMetrics(r) THEN Merge(existing[r], req[r]) ELSE @]
    /\ Goto(r, "send")
    /\ UNCHANGED <<sharedVars, req, pod, status, existing, fetched, saved, alone>>

\* Faulty variant of Lock: the secret is fetched before the lock is taken.
LockNothing(r) ==
    /\ At(r, "save") /\ ~SkipSave(r)
    /\ lock' = [lock EXCEPT ![pod[r]] = r]
    /\ Goto(r, "fetch")
    /\ UNCHANGED <<readOnly, secret, vendor, cache, req, pod, status, localVars,
                   saved, alone>>

Lock(r) ==
    /\ At(r, "save") /\ ~SkipSave(r)
    /\ lock[pod[r]] = Nothing
    /\ lock' = [lock EXCEPT ![pod[r]] = r]
    /\ Goto(r, "fetch")
    /\ UNCHANGED <<readOnly, secret, vendor, cache, req, pod, status, localVars,
                   saved, alone>>

Fetch(r) ==
    /\ At(r, "fetch")
    /\ fetched' = [fetched EXCEPT ![r] = secret]
    /\ Goto(r, "write")
    /\ UNCHANGED <<sharedVars, req, pod, status, existing, synced, saved, alone>>

\* Faulty variant of Edited: the data map is made anew.
EditedAlone(r) ==
    [rv |-> fetched[r].rv + 1, exists |-> TRUE,
     metrics |-> IF OnMetrics(r) THEN Merge(existing[r], req[r]) ELSE NoSecret.metrics,
     tags |-> IF OnMetrics(r) THEN NoSecret.tags ELSE req[r].data]

\* The secret that save() writes: its own key replaced, the other as fetched.
Edited(r) ==
    [rv |-> fetched[r].rv + 1, exists |-> TRUE,
     metrics |-> IF OnMetrics(r) THEN Merge(existing[r], req[r])
                 ELSE fetched[r].metrics,
     tags |-> IF OnMetrics(r) THEN fetched[r].tags ELSE req[r].data]

\* The API server refuses to create what exists and to update what changed.
Accepts(r) == fetched[r].exists = secret.exists /\ fetched[r].rv = secret.rv

\* Faulty variant of Unlock: the error path keeps the lock.
UnlockOnSuccess(r, ok) == lock' = IF ok THEN [lock EXCEPT ![pod[r]] = Nothing] ELSE lock

Unlock(r, ok) == lock' = [lock EXCEPT ![pod[r]] = Nothing]

\* save() returns.  A metrics request whose save failed logs it and goes on
\* with its own data; a tags request answers with an error.
EndSave(r, ok) ==
    /\ Unlock(r, ok)
    /\ saved' = [saved EXCEPT ![r] = ok]
    /\ synced' = [synced EXCEPT ![r] =
            IF ~OnMetrics(r) THEN @
            ELSE IF ok THEN Merge(existing[r], req[r]) ELSE Inbound(req[r])]
    /\ IF ok \/ OnMetrics(r) THEN Goto(r, "send") /\ UNCHANGED status
       ELSE Reply(r, "failed")
    /\ UNCHANGED <<readOnly, vendor, cache, req, pod, existing, fetched, alone>>

Write(r) ==
    /\ At(r, "write") /\ Accepts(r)
    /\ secret' = Edited(r)
    /\ EndSave(r, TRUE)

\* A call fails, is rejected, or is applied and its answer lost.
SaveFails(r) ==
    /\ At(r, "fetch") \/ At(r, "write")
    /\ \/ UNCHANGED secret
       \/ At(r, "write") /\ Accepts(r) /\ secret' = Edited(r)
    /\ EndSave(r, FALSE)

-----------------------------------------------------------------------------
\* The metrics at the vendor once it has what the request sends.
Sent(r) == IF OnMetrics(r) THEN synced[r] ELSE vendor

\* SendCustomAppMetrics tells the vendor the synced metrics, online or by the
\* air-gap report, which read-only mode skips.  SendAppInstanceTags sends
\* instance data.  The error of either is that of the request.
Send(r) ==
    /\ At(r, "send")
    /\ vendor' \in {Sent(r)} \cup (IF readOnly THEN {vendor} ELSE {})
    /\ Reply(r, "ok")
    /\ UNCHANGED <<readOnly, secret, cache, lock, req, pod, localVars,
                   saved, alone>>

\* The vendor is not told, or takes the metrics and its answer is lost.
SendFails(r) ==
    /\ At(r, "send")
    /\ vendor' \in {vendor, Sent(r)}
    /\ Reply(r, "failed")
    /\ UNCHANGED <<readOnly, secret, cache, lock, req, pod, localVars,
                   saved, alone>>

Serve(r) ==
    \/ ServeCached(r)
    \/ Refuse(r)
    \/ Handle(r)
    \/ GetMetrics(r)
    \/ GetFails(r)
    \/ SaveNothing(r)
    \/ Lock(r)
    \/ Fetch(r)
    \/ Write(r)
    \/ SaveFails(r)
    \/ Send(r)
    \/ SendFails(r)
    \/ Respond(r)

Next ==
    \/ \E r \in Requests : Serve(r) \/ \E q \in Request : Arrive(r, q)
    \/ \E p \in Pods, c \in CacheKeys : Expire(p, c)

(***************************************************************************)
(* Every request is served to its end: the API server and the vendor       *)
(* answer or time out.                                                     *)
(***************************************************************************)
Fairness == \A r \in Requests : WF_vars(Serve(r))

Spec == Init /\ [][Next]_vars /\ Fairness

-----------------------------------------------------------------------------
(***************************************************************************)
(* Properties                                                              *)
(***************************************************************************)

\* The types of the variables.
TypeOK ==
    /\ readOnly \in BOOLEAN
    /\ secret \in Secret
    /\ vendor \in Metrics
    /\ cache \in [Pods -> [CacheKeys -> Request \cup {NoRequest}]]
    /\ lock \in [Pods -> Requests \cup {Nothing}]
    /\ pc \in [Requests -> Step]
    /\ req \in [Requests -> Request \cup {NoRequest}]
    /\ pod \in [Requests -> Pods]
    /\ status \in [Requests -> Answer]
    /\ existing \in [Requests -> Metrics]
    /\ fetched \in [Requests -> Secret]
    /\ saved \in [Requests -> BOOLEAN]
    /\ synced \in [Requests -> Metrics]
    /\ alone \in [Requests -> BOOLEAN]

Saving(r) == pc[r] \in {"fetch", "write"}

\* The lock covers fetch and write (meta.go:36-37): two requests of a pod are
\* never both inside, so none makes another's update conflict, and when all are
\* served by one pod the write finds the secret as it was fetched.
NoContentionInPod ==
    \A r, q \in Requests :
        /\ r # q /\ pod[r] = pod[q] => ~(Saving(r) /\ Saving(q))
        /\ At(r, "write") /\ (\A o \in Requests : pod[o] = pod[r]) => Accepts(r)

\* A request that was served alone and whose save succeeded has had its effect
\* when it is answered: the secret says what was asked, and the vendor was
\* told exactly the metrics in the secret (latest_custom_metrics.go:15-59,
\* custom_app_metrics.go:20-32).
AloneTakesEffect ==
    \A r \in Requests :
        At(r, "respond") /\ status[r] = "ok" /\ alone[r] /\ saved[r] =>
            /\ OnMetrics(r) => vendor = secret.metrics
            /\ CASE req[r].method = "TAGS" -> secret.tags = req[r].data
                 [] req[r].method = "DELETE" -> secret.metrics[req[r].data] = Nothing
                 [] req[r].method = "POST" -> secret.metrics = req[r].data
                 [] OTHER -> \A k \in Keys :
                        req[r].data[k] \in {Nothing, secret.metrics[k]}

\* Metrics and tags share a secret but not their fates: a save replaces its
\* own key and leaves the other as it is at that time, whatever the pods that
\* save at once (meta.go:44-90 and the resource version).
OtherKeySurvives ==
    [][/\ secret'.tags # secret.tags =>
            \E r \in Requests : At(r, "write") /\ pc'[r] # "write" /\ ~OnMetrics(r)
       /\ secret'.metrics # secret.metrics =>
            \E r \in Requests : At(r, "write") /\ pc'[r] # "write" /\ OnMetrics(r)]_vars

\* A cached answer repeats a success: the same pod has answered "ok" to a
\* request of the same method, path and payload (middleware.go:141-160).
CachedAnswerIsEarned ==
    \A r \in Requests : status[r] = "cached" =>
        \E q \in Requests : /\ status[q] = "ok" /\ pc[q] = "done"
                            /\ pod[q] = pod[r] /\ req[q] = req[r]

\* Every request is answered: no failure leaves the lock behind.
EveryRequestAnswered ==
    \A r \in Requests : pc[r] # "new" ~> pc[r] = "done"
=============================================================================
