------------------------- MODULE CustomMetricsProofs -------------------------
(***************************************************************************)
(* Proofs about CustomMetrics, for any number of requests and pods and any *)
(* names and values of metrics.                                            *)
(***************************************************************************)
EXTENDS CustomMetrics, TLAPS

\* What a request makes of metrics is metrics.
LEMMA MergeType ==
    ASSUME NEW old \in Metrics, NEW q \in Request, q.method # "TAGS"
    PROVE  Merge(old, q) \in Metrics /\ Inbound(q) \in Metrics
<1>1. NoMetrics \in Metrics
  BY DEF Metrics, NoMetrics
<1>2. CASE q.method = "POST"
  <2>1. q.data \in Metrics
    BY <1>2 DEF Request, Bodies
  <2> QED
    BY <1>2, <2>1 DEF Merge, Inbound
<1>3. CASE q.method = "PATCH"
  <2>1. q.data \in Metrics
    BY <1>3 DEF Request, Bodies
  <2> QED
    BY <1>3, <2>1 DEF Merge, Inbound, Metrics
<1>4. CASE q.method = "DELETE"
  <2>1. q.data \in Keys
    BY <1>4 DEF Request
  <2>2. Merge(old, q) \in Metrics
    BY <1>4, <2>1 DEF Merge, Metrics
  <2> QED
    BY <1>1, <1>4, <2>2 DEF Inbound
<1> QED
  BY <1>2, <1>3, <1>4 DEF Request

\* That nothing was cached is no request.
LEMMA NoRequestIsNone == NoRequest \notin Request
  BY DEF NoRequest, Request

-----------------------------------------------------------------------------
(***************************************************************************)
(* The inductive invariant.                                                *)
(***************************************************************************)

\* A request is one once it has arrived, and only those on metrics read them.
RequestInv ==
    \A r \in Requests :
        /\ ~At(r, "new") => req[r] \in Request
        /\ At(r, "get") => OnMetrics(r)

\* The lock of a pod is held by the request of it that saves, and by no other.
LockInv ==
    /\ \A r \in Requests : Saving(r) => lock[pod[r]] = r
    /\ \A p \in Pods : lock[p] # Nothing =>
          pod[lock[p]] = p /\ Saving(lock[p])

\* What was fetched is the secret there is, for as long as that has the version
\* it was fetched with, and for as long as all requests are of one pod.
FetchedInv ==
    \A r \in Requests : At(r, "write") =>
        /\ fetched[r].rv <= secret.rv
        /\ fetched[r].rv = secret.rv => fetched[r] = secret
        /\ (\A o \in Requests : pod[o] = pod[r]) => fetched[r] = secret

\* An entry of the cache is a request that succeeded.
Earned(p, q) ==
    \E r \in Requests : status[r] = "ok" /\ pc[r] = "done" /\ pod[r] = p /\ req[r] = q

CacheInv ==
    /\ \A p \in Pods, c \in CacheKeys : cache[p][c] # NoRequest => Earned(p, cache[p][c])
    /\ \A r \in Requests : status[r] = "cached" => pc[r] = "done" /\ Earned(pod[r], req[r])

IInv == TypeOK /\ RequestInv /\ LockInv /\ FetchedInv /\ CacheInv

-----------------------------------------------------------------------------
\* The secret a save writes is one.
LEMMA EditedType ==
    ASSUME TypeOK, NEW r \in Requests, req[r] \in Request
    PROVE  Edited(r) \in Secret
<1>1. fetched[r] \in Secret /\ existing[r] \in Metrics
  BY DEF TypeOK
<1>2. CASE OnMetrics(r)
  <2>1. Merge(existing[r], req[r]) \in Metrics
    BY <1>1, <1>2, MergeType DEF OnMetrics
  <2> QED
    BY <1>1, <1>2, <2>1 DEF Edited, Secret
<1>3. CASE ~OnMetrics(r)
  <2>1. req[r].data \in Values
    BY <1>3 DEF OnMetrics, Request
  <2> QED
    BY <1>1, <1>3, <2>1 DEF Edited, Secret
<1> QED
  BY <1>2, <1>3

\* What a save leaves for the vendor is metrics.
LEMMA EndSaveType ==
    ASSUME TypeOK, NEW r \in Requests, req[r] \in Request, NEW ok \in BOOLEAN,
           EndSave(r, ok), secret' \in Secret
    PROVE  TypeOK'
<1>1. synced' \in [Requests -> Metrics]
  <2>1. CASE OnMetrics(r)
    <3>1. existing[r] \in Metrics
      BY DEF TypeOK
    <3>2. Merge(existing[r], req[r]) \in Metrics /\ Inbound(req[r]) \in Metrics
      BY <2>1, <3>1, MergeType DEF OnMetrics
    <3> QED
      BY <2>1, <3>2 DEF EndSave, TypeOK
  <2>2. CASE ~OnMetrics(r)
    BY <2>2 DEF EndSave, TypeOK
  <2> QED
    BY <2>1, <2>2
<1>2. pc' \in [Requests -> Step] /\ status' \in [Requests -> Answer]
  BY DEF EndSave, Goto, Reply, TypeOK, Step, Answer
<1>3. lock' \in [Pods -> Requests \cup {Nothing}] /\ saved' \in [Requests -> BOOLEAN]
  BY DEF EndSave, Unlock, TypeOK
<1> QED
  BY <1>1, <1>2, <1>3 DEF EndSave, TypeOK

\* Every step keeps the types.
LEMMA TypeInvariant ==
    ASSUME TypeOK, RequestInv, [Next]_vars
    PROVE  TypeOK'
<1>1. CASE UNCHANGED vars
  BY <1>1 DEF vars, sharedVars, requestVars, localVars, TypeOK
<1>2. ASSUME NEW r \in Requests, NEW q \in Request, Arrive(r, q) PROVE TypeOK'
  <2>1. alone' \in [Requests -> BOOLEAN]
    BY <1>2 DEF Arrive, TypeOK
  <2> QED
    BY <1>2, <2>1 DEF Arrive, Goto, sharedVars, localVars, TypeOK, Step
<1>3. ASSUME NEW r \in Requests, ServeCached(r) \/ Refuse(r) \/ Handle(r)
      PROVE  TypeOK'
  BY <1>3 DEF ServeCached, Refuse, Handle, Goto, Reply, sharedVars, localVars,
              TypeOK, Step, Answer
<1>4. ASSUME NEW r \in Requests, GetMetrics(r) \/ Fetch(r) PROVE TypeOK'
  <2>1. secret.metrics \in Metrics
    BY DEF TypeOK, Secret
  <2> QED
    BY <1>4, <2>1 DEF GetMetrics, Fetch, Goto, sharedVars, TypeOK, Step
<1>5. ASSUME NEW r \in Requests, GetFails(r) \/ SaveNothing(r) PROVE TypeOK'
  <2>1. req[r] \in Request /\ existing[r] \in Metrics
    BY <1>5 DEF GetFails, SaveNothing, At, RequestInv, TypeOK
  <2>2. OnMetrics(r) => Merge(existing[r], req[r]) \in Metrics /\ Inbound(req[r]) \in Metrics
    BY <2>1, MergeType DEF OnMetrics
  <2>3. synced' \in [Requests -> Metrics]
    BY <1>5, <2>2 DEF GetFails, SaveNothing, RequestInv, TypeOK
  <2> QED
    BY <1>5, <2>3 DEF GetFails, SaveNothing, Goto, sharedVars, TypeOK, Step
<1>6. ASSUME NEW r \in Requests, Lock(r) PROVE TypeOK'
  BY <1>6 DEF Lock, Goto, localVars, TypeOK, Step
<1>7. ASSUME NEW r \in Requests, Write(r) PROVE TypeOK'
  <2>1. req[r] \in Request
    BY <1>7 DEF Write, At, RequestInv
  <2> QED
    BY <1>7, <2>1, EditedType, EndSaveType DEF Write
<1>8. ASSUME NEW r \in Requests, SaveFails(r) PROVE TypeOK'
  <2>1. req[r] \in Request
    BY <1>8 DEF SaveFails, At, RequestInv
  <2>2. secret' \in Secret
    BY <1>8, <2>1, EditedType DEF SaveFails, TypeOK
  <2> QED
    BY <1>8, <2>1, <2>2, EndSaveType DEF SaveFails
<1>9. ASSUME NEW r \in Requests, Send(r) \/ SendFails(r) PROVE TypeOK'
  <2>1. vendor' \in Metrics
    BY <1>9 DEF Send, SendFails, Sent, TypeOK
  <2> QED
    BY <1>9, <2>1 DEF Send, SendFails, Reply, Goto, localVars, TypeOK, Step, Answer
<1>10. ASSUME NEW r \in Requests, Respond(r) PROVE TypeOK'
  <2>1. req[r] \in Request
    BY <1>10 DEF Respond, At, RequestInv
  <2>2. cache' \in [Pods -> [CacheKeys -> Request \cup {NoRequest}]]
    BY <1>10, <2>1 DEF Respond, TypeOK
  <2>3. NoMetrics \in Metrics /\ NoSecret \in Secret
    BY DEF NoMetrics, Metrics, NoSecret, Secret
  <2> QED
    BY <1>10, <2>2, <2>3 DEF Respond, EndOfScope, Goto, TypeOK, Step
<1>11. ASSUME NEW p \in Pods, NEW c \in CacheKeys, Expire(p, c) PROVE TypeOK'
  BY <1>11 DEF Expire, requestVars, localVars, TypeOK
<1> QED
  BY <1>1, <1>2, <1>3, <1>4, <1>5, <1>6, <1>7, <1>8, <1>9, <1>10, <1>11 DEF Next, Serve

-----------------------------------------------------------------------------
\* The steps that serve a request, told by what they do to it: they keep its
\* method and data, and to which step it goes.
LEMMA ServeMoves ==
    ASSUME TypeOK, NEW r \in Requests, Serve(r)
    PROVE  /\ pc[r] \notin {"new", "done"} /\ pc'[r] # "new"
           /\ req' = req /\ pod' = pod
           /\ \A o \in Requests \ {r} :
                pc'[o] = pc[o] /\ status'[o] = status[o] /\ fetched'[o] = fetched[o]
<1> USE DEF TypeOK, At, Goto, Reply, sharedVars, localVars
<1>1. CASE ServeCached(r) \/ Refuse(r) \/ Handle(r) \/ SendFails(r) \/ Send(r)
  BY <1>1 DEF ServeCached, Refuse, Handle, SendFails, Send
<1>2. CASE GetMetrics(r) \/ GetFails(r) \/ SaveNothing(r)
  BY <1>2 DEF GetMetrics, GetFails, SaveNothing
<1>3. CASE Lock(r) \/ Fetch(r)
  BY <1>3 DEF Lock, Fetch
<1>4. CASE Respond(r)
  BY <1>4 DEF Respond, EndOfScope
<1>5. ASSUME NEW ok \in BOOLEAN, EndSave(r, ok), pc[r] \in {"fetch", "write"}
      PROVE  /\ pc[r] \notin {"new", "done"} /\ pc'[r] # "new"
             /\ req' = req /\ pod' = pod
             /\ \A o \in Requests \ {r} :
                  pc'[o] = pc[o] /\ status'[o] = status[o] /\ fetched'[o] = fetched[o]
  BY <1>5 DEF EndSave
<1>6. CASE Write(r) \/ SaveFails(r)
  BY <1>5, <1>6 DEF Write, SaveFails
<1> QED
  BY <1>1, <1>2, <1>3, <1>4, <1>6 DEF Serve

\* What the steps that serve a request do to the lock of its pod, and that they
\* are inside it when they save.
LEMMA ServeLocks ==
    ASSUME TypeOK, NEW r \in Requests, Serve(r)
    PROVE  \/ lock' = lock /\ (Saving(r)' <=> Saving(r))
           \/ /\ lock[pod[r]] = Nothing /\ lock' = [lock EXCEPT ![pod[r]] = r]
              /\ ~Saving(r) /\ Saving(r)'
           \/ /\ lock' = [lock EXCEPT ![pod[r]] = Nothing]
              /\ Saving(r) /\ ~Saving(r)'
<1> USE DEF TypeOK, At, Goto, Reply, sharedVars, localVars, Saving
<1>1. CASE ServeCached(r) \/ Refuse(r) \/ Handle(r) \/ SendFails(r) \/ Send(r)
  BY <1>1 DEF ServeCached, Refuse, Handle, SendFails, Send
<1>2. CASE GetMetrics(r) \/ GetFails(r) \/ SaveNothing(r)
  BY <1>2 DEF GetMetrics, GetFails, SaveNothing
<1>3. CASE Lock(r) \/ Fetch(r)
  BY <1>3 DEF Lock, Fetch
<1>4. CASE Respond(r)
  BY <1>4 DEF Respond
<1>5. CASE Write(r) \/ SaveFails(r)
  BY <1>5 DEF Write, SaveFails, EndSave, Unlock
<1> QED
  BY <1>1, <1>2, <1>3, <1>4, <1>5 DEF Serve

\* What they do to the secret, and what a request has fetched that is to write.
LEMMA ServeWrites ==
    ASSUME TypeOK, NEW r \in Requests, Serve(r)
    PROVE  /\ \/ secret' = secret
              \/ At(r, "write") /\ Accepts(r) /\ secret' = Edited(r)
           /\ At(r, "write") => pc'[r] # "write"
           /\ pc'[r] = "write" => At(r, "fetch") /\ fetched'[r] = secret /\ secret' = secret
<1> USE DEF TypeOK, At, Goto, Reply, sharedVars, localVars
<1>1. CASE ServeCached(r) \/ Refuse(r) \/ Handle(r) \/ SendFails(r) \/ Send(r)
  BY <1>1 DEF ServeCached, Refuse, Handle, SendFails, Send
<1>2. CASE GetMetrics(r) \/ GetFails(r) \/ SaveNothing(r)
  BY <1>2 DEF GetMetrics, GetFails, SaveNothing
<1>3. CASE Lock(r) \/ Fetch(r)
  BY <1>3 DEF Lock, Fetch
<1>4. CASE Respond(r)
  BY <1>4 DEF Respond
<1>5. CASE Write(r) \/ SaveFails(r)
  BY <1>5 DEF Write, SaveFails, EndSave
<1> QED
  BY <1>1, <1>2, <1>3, <1>4, <1>5 DEF Serve

\* What they do to the cache, and when they answer from it.
LEMMA ServeCaches ==
    ASSUME TypeOK, NEW r \in Requests, Serve(r)
    PROVE  /\ \/ cache' = cache
              \/ /\ cache' = [cache EXCEPT ![pod[r]][CacheKey(req[r])] = req[r]]
                 /\ status[r] = "ok" /\ status' = status /\ pc'[r] = "done"
           /\ status'[r] = "cached" => status[r] = "cached" \/ (Hit(r) /\ pc'[r] = "done")
<1> USE DEF TypeOK, At, Goto, Reply, sharedVars, localVars
<1>1. CASE ServeCached(r) \/ Refuse(r) \/ Handle(r) \/ SendFails(r) \/ Send(r)
  BY <1>1 DEF ServeCached, Refuse, Handle, SendFails, Send
<1>2. CASE GetMetrics(r) \/ GetFails(r) \/ SaveNothing(r)
  BY <1>2 DEF GetMetrics, GetFails, SaveNothing
<1>3. CASE Lock(r) \/ Fetch(r)
  BY <1>3 DEF Lock, Fetch
<1>4. CASE Respond(r)
  BY <1>4 DEF Respond
<1>5. CASE Write(r) \/ SaveFails(r)
  BY <1>5 DEF Write, SaveFails, EndSave
<1> QED
  BY <1>1, <1>2, <1>3, <1>4, <1>5 DEF Serve

-----------------------------------------------------------------------------
\* Every step keeps the requests.
LEMMA RequestInvariant ==
    ASSUME IInv, [Next]_vars
    PROVE  RequestInv'
<1> USE DEF IInv, RequestInv, OnMetrics
<1>1. CASE UNCHANGED vars
  BY <1>1 DEF vars, requestVars, At
<1>2. ASSUME NEW r \in Requests, NEW q \in Request, Arrive(r, q) PROVE RequestInv'
  BY <1>2 DEF Arrive, Goto, At, TypeOK
<1>3. ASSUME NEW r \in Requests, Serve(r) PROVE RequestInv'
  <2>1. pc'[r] = "get" => OnMetrics(r)
    BY <1>3 DEF Serve, ServeCached, Refuse, Handle, SendFails, Send, GetMetrics, GetFails,
                SaveNothing, Lock, Fetch, Respond, Write, SaveFails, EndSave, Goto, Reply,
                TypeOK
  <2> QED
    BY <1>3, <2>1, ServeMoves DEF At
<1>4. ASSUME NEW p \in Pods, NEW c \in CacheKeys, Expire(p, c) PROVE RequestInv'
  BY <1>4 DEF Expire, requestVars, At
<1> QED
  BY <1>1, <1>2, <1>3, <1>4 DEF Next

\* Every step keeps the locks with those that save.
LEMMA LockInvariant ==
    ASSUME IInv, [Next]_vars
    PROVE  LockInv'
<1> USE DEF IInv, LockInv
<1>1. CASE UNCHANGED vars
  BY <1>1 DEF vars, sharedVars, requestVars, Saving
<1>2. ASSUME NEW r \in Requests, NEW q \in Request, Arrive(r, q) PROVE LockInv'
  BY <1>2 DEF Arrive, Goto, At, TypeOK, sharedVars, Saving
<1>3. ASSUME NEW r \in Requests, Serve(r) PROVE LockInv'
  <2> USE NothingAssumption
  <2>0. /\ pod' = pod
        /\ \A o \in Requests \ {r} : Saving(o)' <=> Saving(o)
    BY <1>3, ServeMoves DEF Saving
  <2>1. lock \in [Pods -> Requests \cup {Nothing}] /\ pod \in [Requests -> Pods]
    BY DEF TypeOK
  <2>2. CASE lock' = lock /\ (Saving(r)' <=> Saving(r))
    BY <2>0, <2>1, <2>2
  <2>3. CASE /\ lock[pod[r]] = Nothing /\ lock' = [lock EXCEPT ![pod[r]] = r]
             /\ ~Saving(r) /\ Saving(r)'
    <3>1. \A o \in Requests \ {r} : Saving(o) => lock[pod[o]] = o /\ pod[o] # pod[r]
      BY <2>1, <2>3
    <3>2. \A p \in Pods \ {pod[r]} : lock'[p] # Nothing => lock'[p] \in Requests \ {r}
      BY <2>1, <2>3
    <3> QED
      BY <2>0, <2>1, <2>3, <3>1, <3>2
  <2>4. CASE /\ lock' = [lock EXCEPT ![pod[r]] = Nothing]
             /\ Saving(r) /\ ~Saving(r)'
    <3>1. \A o \in Requests \ {r} : Saving(o) => lock[pod[o]] = o /\ pod[o] # pod[r]
      BY <2>1, <2>4
    <3>2. \A p \in Pods : lock'[p] # Nothing => p # pod[r] /\ lock'[p] \in Requests \ {r}
      BY <2>1, <2>4
    <3> QED
      BY <2>0, <2>1, <2>4, <3>1, <3>2
  <2> QED
    BY <1>3, <2>2, <2>3, <2>4, ServeLocks
<1>4. ASSUME NEW p \in Pods, NEW c \in CacheKeys, Expire(p, c) PROVE LockInv'
  BY <1>4 DEF Expire, requestVars, Saving
<1> QED
  BY <1>1, <1>2, <1>3, <1>4 DEF Next

\* Two requests of a pod do not save at once.
LEMMA OneSaves ==
    ASSUME LockInv, NEW r \in Requests, NEW o \in Requests, r # o,
           pod[r] = pod[o], Saving(r)
    PROVE  ~Saving(o)
  BY DEF LockInv

\* Every step keeps what was fetched as true as it was.
LEMMA FetchedInvariant ==
    ASSUME IInv, [Next]_vars
    PROVE  FetchedInv'
<1> USE DEF IInv, FetchedInv, At
<1>1. CASE UNCHANGED vars
  BY <1>1 DEF vars, sharedVars, requestVars, localVars
<1>2. ASSUME NEW r \in Requests, NEW q \in Request, Arrive(r, q) PROVE FetchedInv'
  BY <1>2 DEF Arrive, Goto, TypeOK, sharedVars, localVars
<1>3. ASSUME NEW r \in Requests, Serve(r) PROVE FetchedInv'
  <2>0. /\ pod' = pod
        /\ \A o \in Requests \ {r} : pc'[o] = pc[o] /\ fetched'[o] = fetched[o]
    BY <1>3, ServeMoves
  <2>1. \A o \in Requests : fetched[o].rv \in Nat /\ secret.rv \in Nat
    BY DEF TypeOK, Secret
  <2>2. CASE secret' = secret
    <3>1. pc'[r] = "write" => fetched'[r] = secret
      BY <1>3, ServeWrites
    <3> QED
      BY <2>0, <2>1, <2>2, <3>1
  <2>3. CASE At(r, "write") /\ Accepts(r) /\ secret' = Edited(r)
    <3>1. pc'[r] # "write"
      BY <1>3, <2>3, ServeWrites
    <3>2. secret'.rv = secret.rv + 1
      BY <2>3 DEF Edited, Accepts
    <3>3. \A o \in Requests \ {r} : pc[o] = "write" => pod[o] # pod[r]
      BY <2>3, OneSaves DEF Saving
    <3> QED
      BY <2>0, <2>1, <3>1, <3>2, <3>3
  <2> QED
    BY <1>3, <2>2, <2>3, ServeWrites
<1>4. ASSUME NEW p \in Pods, NEW c \in CacheKeys, Expire(p, c) PROVE FetchedInv'
  BY <1>4 DEF Expire, requestVars, localVars
<1> QED
  BY <1>1, <1>2, <1>3, <1>4 DEF Next

\* Every step keeps the entries of the cache earned.
LEMMA CacheInvariant ==
    ASSUME IInv, [Next]_vars
    PROVE  CacheInv'
<1> USE DEF IInv, CacheInv, At
<1>1. CASE UNCHANGED vars
  BY <1>1 DEF vars, sharedVars, requestVars, Earned
<1>2. ASSUME NEW r \in Requests, NEW q \in Request, Arrive(r, q) PROVE CacheInv'
  <2>1. \A p \in Pods, e \in Request : Earned(p, e) => Earned(p, e)'
    BY <1>2 DEF Arrive, Goto, TypeOK, Earned
  <2>2. \A p \in Pods, c \in CacheKeys :
            cache'[p][c] # NoRequest => cache[p][c] # NoRequest /\ cache'[p][c] \in Request
                                        /\ cache'[p][c] = cache[p][c]
    BY <1>2 DEF Arrive, TypeOK, sharedVars
  <2>3. \A o \in Requests : status'[o] = "cached" =>
            status[o] = "cached" /\ pc'[o] = pc[o] /\ req'[o] = req[o] /\ pod'[o] = pod[o]
            /\ pod[o] \in Pods /\ req[o] \in Request
    BY <1>2 DEF Arrive, Goto, TypeOK, RequestInv
  <2> QED
    BY <2>1, <2>2, <2>3
<1>3. ASSUME NEW r \in Requests, Serve(r) PROVE CacheInv'
  <2>0. /\ pc[r] \notin {"new", "done"} /\ req' = req /\ pod' = pod
        /\ \A o \in Requests \ {r} : pc'[o] = pc[o] /\ status'[o] = status[o]
    BY <1>3, ServeMoves
  <2>1. \A p \in Pods, e \in Request : Earned(p, e) => Earned(p, e)'
    BY <2>0 DEF Earned
  <2>2. req[r] \in Request /\ CacheKey(req[r]) \in CacheKeys /\ pod[r] \in Pods
    BY <2>0 DEF RequestInv, CacheKeys, TypeOK
  <2>3. status[r] # "cached" /\ (Hit(r) => Earned(pod[r], req[r])')
    BY <2>0, <2>1, <2>2, NoRequestIsNone DEF Hit
  <2>4. status'[r] = "cached" => pc'[r] = "done" /\ Earned(pod[r], req[r])'
    BY <1>3, <2>0, <2>3, ServeCaches
  <2>5. \A o \in Requests : status'[o] = "cached" => pc'[o] = "done" /\ Earned(pod[o], req[o])'
    BY <2>0, <2>1, <2>4 DEF TypeOK, RequestInv
  <2>6. CASE cache' = cache
    <3>1. \A p \in Pods, c \in CacheKeys : cache[p][c] \in Request \cup {NoRequest}
      BY DEF TypeOK
    <3> QED
      BY <2>1, <2>5, <2>6, <3>1
  <2>7. CASE /\ cache' = [cache EXCEPT ![pod[r]][CacheKey(req[r])] = req[r]]
             /\ status[r] = "ok" /\ status' = status /\ pc'[r] = "done"
    <3>1. Earned(pod[r], req[r])'
      BY <2>0, <2>7 DEF Earned
    <3>2. \A p \in Pods, c \in CacheKeys :
            \/ cache'[p][c] = cache[p][c] /\ cache[p][c] \in Request \cup {NoRequest}
            \/ p = pod[r] /\ cache'[p][c] = req[r]
      BY <2>2, <2>7 DEF TypeOK
    <3> QED
      BY <2>0, <2>1, <2>5, <3>1, <3>2
  <2> QED
    BY <1>3, <2>6, <2>7, ServeCaches
<1>4. ASSUME NEW p \in Pods, NEW c \in CacheKeys, Expire(p, c) PROVE CacheInv'
  <2>1. \A a \in Pods, e \in Request : Earned(a, e) => Earned(a, e)'
    BY <1>4 DEF Expire, requestVars, Earned
  <2>2. \A a \in Pods, b \in CacheKeys : cache'[a][b] # NoRequest =>
            cache'[a][b] = cache[a][b] /\ cache[a][b] \in Request
    BY <1>4 DEF Expire, TypeOK
  <2> QED
    BY <1>4, <2>1, <2>2 DEF Expire, requestVars, TypeOK, RequestInv
<1> QED
  BY <1>1, <1>2, <1>3, <1>4 DEF Next

\* The secrets there may be at first.
LEMMA EmptySecrets ==
    NoSecret \in Secret /\ [NoSecret EXCEPT !.rv = 1, !.exists = TRUE] \in Secret
<1>1. NoMetrics \in Metrics
  BY DEF Metrics, NoMetrics
<1>2. NoSecret \in Secret
  BY <1>1 DEF Secret, NoSecret
<1> DEFINE s == [NoSecret EXCEPT !.rv = 1]
<1>3. s \in Secret
  BY <1>2 DEF Secret
<1>4. [s EXCEPT !.exists = TRUE] \in Secret
  <2> HIDE DEF s
  <2> QED
    BY <1>3 DEF Secret
<1> QED
  BY <1>2, <1>4

\* Init establishes the invariant, and every step keeps it.
LEMMA InitInvariant == Init => IInv
<1> SUFFICES ASSUME Init PROVE IInv
  OBVIOUS
<1> USE DEF Init
<1>1. TypeOK
  <2>1. NoMetrics \in Metrics
    BY DEF Metrics, NoMetrics
  <2>2. secret \in Secret /\ NoSecret \in Secret
    BY EmptySecrets
  <2> QED
    BY <2>1, <2>2 DEF TypeOK, Step, Answer
<1>2. RequestInv /\ LockInv /\ FetchedInv
  BY DEF RequestInv, LockInv, FetchedInv, Saving, At
<1>3. CacheInv
  BY DEF CacheInv
<1> QED
  BY <1>1, <1>2, <1>3 DEF IInv

\* The two together, for the theorems.
LEMMA Invariance == Spec => []IInv
<1>1. IInv /\ [Next]_vars => IInv'
  <2> SUFFICES ASSUME IInv, [Next]_vars PROVE IInv'
    OBVIOUS
  <2>1. TypeOK'
    BY TypeInvariant DEF IInv
  <2> QED
    BY <2>1, RequestInvariant, LockInvariant, FetchedInvariant, CacheInvariant DEF IInv
<1> QED
  BY <1>1, InitInvariant, PTL DEF Spec

-----------------------------------------------------------------------------
(***************************************************************************)
(* What a request that is served alone does.                               *)
(***************************************************************************)

\* It is being served.
Serving(r) == pc[r] \notin {"new", "done"}

\* The secret says what it asked for.
HasEffect(r) ==
    CASE req[r].method = "TAGS" -> secret.tags = req[r].data
      [] req[r].method = "DELETE" -> secret.metrics[req[r].data] = Nothing
      [] req[r].method = "POST" -> secret.metrics = req[r].data
      [] OTHER -> \A k \in Keys :
             req[r].data[k] \in {Nothing, secret.metrics[k]}

\* What is known of a request as it goes, whoever else is served.
PathInv ==
    \A r \in Requests :
        /\ At(r, "new") => ~alone[r]
        /\ Saving(r) \/ saved[r] => ~readOnly
        /\ saved[r] => pc[r] \in {"send", "respond", "done"}
        /\ pc[r] \notin {"respond", "done"} => status[r] = "none"

\* What is known of one that is served alone: what it has read is what there is,
\* and once its save has succeeded, what it asked for.
AloneInv ==
    \A r \in Requests : alone[r] /\ Serving(r) =>
        /\ \A o \in Requests \ {r} : ~Serving(o)
        /\ OnMetrics(r) /\ pc[r] \in {"save", "fetch", "write"} =>
              existing[r] = secret.metrics
        /\ saved[r] =>
              /\ HasEffect(r)
              /\ OnMetrics(r) /\ At(r, "send") => synced[r] = secret.metrics
              /\ OnMetrics(r) /\ At(r, "respond") /\ status[r] = "ok" =>
                    vendor = secret.metrics

\* What a save of metrics or of tags writes has the effect that was asked for.
LEMMA EditedHasEffect ==
    ASSUME TypeOK, RequestInv, NEW r \in Requests, At(r, "write"),
           secret' = Edited(r), req' = req
    PROVE  HasEffect(r)' /\ (OnMetrics(r) => secret'.metrics = Merge(existing[r], req[r]))
<1>1. req[r] \in Request /\ existing[r] \in Metrics
  BY DEF RequestInv, TypeOK, At
<1>2. OnMetrics(r) => secret'.metrics = Merge(existing[r], req[r])
  BY DEF Edited
<1>3. CASE req[r].method = "TAGS"
  BY <1>3 DEF Edited, OnMetrics, HasEffect
<1>4. CASE req[r].method = "DELETE"
  <2>1. req[r].data \in Keys
    BY <1>1, <1>4 DEF Request
  <2> QED
    BY <1>1, <1>2, <1>4, <2>1 DEF OnMetrics, HasEffect, Merge, Metrics
<1>5. CASE req[r].method = "POST"
  BY <1>2, <1>5 DEF OnMetrics, HasEffect, Merge
<1>6. CASE req[r].method = "PATCH"
  BY <1>2, <1>6 DEF OnMetrics, HasEffect, Merge
<1> QED
  BY <1>1, <1>2, <1>3, <1>4, <1>5, <1>6 DEF Request

\* Every step keeps what is known of a request.
LEMMA PathInvariant ==
    ASSUME IInv, PathInv, [Next]_vars
    PROVE  PathInv'
<1> USE DEF IInv, PathInv, At, Saving
<1>1. CASE UNCHANGED vars
  BY <1>1 DEF vars, sharedVars, requestVars
<1>2. ASSUME NEW r \in Requests, NEW q \in Request, Arrive(r, q) PROVE PathInv'
  BY <1>2 DEF Arrive, Goto, TypeOK, sharedVars
<1>3. ASSUME NEW r \in Requests, Serve(r) PROVE PathInv'
  <2> USE DEF TypeOK, Goto, Reply, sharedVars, localVars
  <2>1. CASE ServeCached(r) \/ Refuse(r) \/ Handle(r) \/ SendFails(r) \/ Send(r)
    BY <2>1 DEF ServeCached, Refuse, Handle, SendFails, Send
  <2>2. CASE GetMetrics(r) \/ GetFails(r) \/ SaveNothing(r)
    BY <2>2 DEF GetMetrics, GetFails, SaveNothing
  <2>3. CASE Lock(r) \/ Fetch(r)
    BY <2>3 DEF Lock, Fetch, SkipSave
  <2>4. CASE Respond(r)
    BY <2>4 DEF Respond
  <2>5. ASSUME NEW ok \in BOOLEAN, EndSave(r, ok), pc[r] \in {"fetch", "write"} PROVE PathInv'
    <3>1. /\ pc' = [pc EXCEPT ![r] = pc'[r]] /\ pc'[r] \in {"send", "respond"}
          /\ pc'[r] = "send" => status' = status
          /\ \A o \in Requests \ {r} : status'[o] = status[o]
      BY <2>5 DEF EndSave
    <3>2. saved' = [saved EXCEPT ![r] = ok] /\ alone' = alone /\ readOnly' = readOnly
      BY <2>5 DEF EndSave
    <3> QED
      BY <2>5, <3>1, <3>2
  <2>6. CASE Write(r) \/ SaveFails(r)
    BY <2>5, <2>6 DEF Write, SaveFails
  <2> QED
    BY <1>3, <2>1, <2>2, <2>3, <2>4, <2>6 DEF Serve
<1>4. ASSUME NEW p \in Pods, NEW c \in CacheKeys, Expire(p, c) PROVE PathInv'
  BY <1>4 DEF Expire, requestVars
<1> QED
  BY <1>1, <1>2, <1>3, <1>4 DEF Next

\* Every step keeps what is known of a request served alone.
LEMMA AloneInvariant ==
    ASSUME IInv, PathInv, AloneInv, [Next]_vars
    PROVE  AloneInv'
<1> USE DEF IInv, PathInv, AloneInv, At, Serving
<1>1. CASE UNCHANGED vars
  BY <1>1 DEF vars, sharedVars, requestVars, localVars, OnMetrics, HasEffect
<1>2. ASSUME NEW r \in Requests, NEW q \in Request, Arrive(r, q) PROVE AloneInv'
  <2>1. /\ saved' = saved /\ ~saved[r]
        /\ pc'[r] = "cache" /\ \A o \in Requests \ {r} : pc'[o] = pc[o]
    BY <1>2 DEF Arrive, Goto, TypeOK
  <2>2. alone'[r] => \A o \in Requests \ {r} : pc'[o] \in {"new", "done"}
    BY <1>2, <2>1 DEF Arrive, TypeOK
  <2>3. \A o \in Requests \ {r} : ~(alone'[o] /\ pc'[o] \notin {"new", "done"})
    BY <1>2, <2>1 DEF Arrive, TypeOK
  <2> QED
    BY <2>1, <2>2, <2>3
<1>3. ASSUME NEW r \in Requests, Serve(r) PROVE AloneInv'
  <2>0. /\ pc[r] \notin {"new", "done"} /\ req' = req
        /\ \A o \in Requests \ {r} : pc'[o] = pc[o]
        /\ alone' = alone
    <3>1. alone' = alone
      BY <1>3 DEF Serve, ServeCached, Refuse, Handle, SendFails, Send, GetMetrics, GetFails,
                  SaveNothing, Lock, Fetch, Respond, Write, SaveFails, EndSave
    <3> QED
      BY <1>3, <3>1, ServeMoves
  <2>1. \A o \in Requests \ {r} : ~(alone'[o] /\ pc'[o] \notin {"new", "done"})
    BY <2>0
  <2>2. SUFFICES ASSUME alone[r], pc'[r] \notin {"new", "done"}
                 PROVE  /\ OnMetrics(r)' /\ pc'[r] \in {"save", "fetch", "write"} =>
                              existing'[r] = secret'.metrics
                        /\ saved'[r] =>
                              /\ HasEffect(r)'
                              /\ OnMetrics(r)' /\ pc'[r] = "send" => synced'[r] = secret'.metrics
                              /\ OnMetrics(r)' /\ pc'[r] = "respond" /\ status'[r] = "ok" =>
                                    vendor' = secret'.metrics
    BY <2>0, <2>1
  <2>3. OnMetrics(r)' <=> OnMetrics(r)
    BY <2>0 DEF OnMetrics
  <2>4. secret' = secret => (HasEffect(r)' <=> HasEffect(r))
    BY <2>0 DEF HasEffect
  <2> USE <2>0, <2>2, <2>3, <2>4 DEF TypeOK, Goto, Reply, sharedVars, localVars
  <2>5. CASE Refuse(r) \/ Handle(r) \/ SendFails(r)
    BY <2>5 DEF Refuse, Handle, SendFails, OnMetrics
  <2>6. CASE GetMetrics(r) \/ GetFails(r) \/ SaveNothing(r)
    BY <2>6 DEF GetMetrics, GetFails, SaveNothing
  <2>7. CASE Lock(r) \/ Fetch(r)
    BY <2>7 DEF Lock, Fetch
  <2>8. CASE Send(r)
    BY <2>8 DEF Send, Sent
  <2>9. CASE Write(r)
    <3>1. HasEffect(r)' /\ (OnMetrics(r) => secret'.metrics = Merge(existing[r], req[r]))
      BY <2>9, EditedHasEffect DEF Write
    <3>2. pc'[r] = "send" /\ (OnMetrics(r) => synced'[r] = Merge(existing[r], req[r]))
      BY <2>9 DEF Write, EndSave
    <3> QED
      BY <3>1, <3>2
  <2>10. CASE SaveFails(r)
    BY <2>10 DEF SaveFails, EndSave
  <2>11. CASE ServeCached(r) \/ Respond(r)
    BY <2>11 DEF ServeCached, Respond
  <2> QED
    BY <1>3, <2>5, <2>6, <2>7, <2>8, <2>9, <2>10, <2>11 DEF Serve
<1>4. ASSUME NEW p \in Pods, NEW c \in CacheKeys, Expire(p, c) PROVE AloneInv'
  BY <1>4 DEF Expire, requestVars, localVars, OnMetrics, HasEffect
<1> QED
  BY <1>1, <1>2, <1>3, <1>4 DEF Next

-----------------------------------------------------------------------------
(***************************************************************************)
(* Theorems                                                                *)
(***************************************************************************)

\* Type correctness.
THEOREM TypeCorrect == Spec => []TypeOK
  BY Invariance, PTL DEF IInv

\* The lock covers fetch and write (meta.go:36-37): two requests of a pod never
\* save at once, and while all are of one pod no save finds the secret changed.
THEOREM NoContention == Spec => []NoContentionInPod
<1>1. IInv => NoContentionInPod
  <2> SUFFICES ASSUME IInv PROVE NoContentionInPod
    OBVIOUS
  <2> USE DEF IInv
  <2>1. \A r, q \in Requests : r # q /\ pod[r] = pod[q] => ~(Saving(r) /\ Saving(q))
    BY OneSaves
  <2>2. \A r \in Requests :
            At(r, "write") /\ (\A o \in Requests : pod[o] = pod[r]) => Accepts(r)
    BY DEF FetchedInv, Accepts
  <2> QED
    BY <2>1, <2>2 DEF NoContentionInPod
<1> QED
  BY <1>1, Invariance, PTL

\* A cached answer repeats a success of the same pod (middleware.go:141-160).
THEOREM CachedEarned == Spec => []CachedAnswerIsEarned
<1>1. IInv => CachedAnswerIsEarned
  BY DEF IInv, CacheInv, Earned, CachedAnswerIsEarned
<1> QED
  BY <1>1, Invariance, PTL

\* A save of metrics leaves the tags, a save of tags leaves the metrics, as they
\* are when it is written, whichever pods save (meta.go:44-90).
THEOREM OtherKeyKept == Spec => OtherKeySurvives
<1>1. IInv /\ [Next]_vars =>
        [/\ secret'.tags # secret.tags =>
                \E r \in Requests : At(r, "write") /\ pc'[r] # "write" /\ ~OnMetrics(r)
         /\ secret'.metrics # secret.metrics =>
                \E r \in Requests : At(r, "write") /\ pc'[r] # "write" /\ OnMetrics(r)]_vars
  <2> SUFFICES ASSUME IInv, [Next]_vars
               PROVE  /\ secret'.tags # secret.tags =>
                            \E r \in Requests :
                                At(r, "write") /\ pc'[r] # "write" /\ ~OnMetrics(r)
                      /\ secret'.metrics # secret.metrics =>
                            \E r \in Requests :
                                At(r, "write") /\ pc'[r] # "write" /\ OnMetrics(r)
    OBVIOUS
  <2>1. CASE secret' = secret
    BY <2>1
  <2>2. ASSUME NEW r \in Requests, Serve(r), secret' # secret
        PROVE  At(r, "write") /\ Accepts(r) /\ secret' = Edited(r) /\ pc'[r] # "write"
    BY <2>2, ServeWrites DEF IInv
  <2>3. ASSUME NEW r \in Requests, At(r, "write"), Accepts(r), secret' = Edited(r)
        PROVE  /\ OnMetrics(r) => secret'.tags = secret.tags
               /\ ~OnMetrics(r) => secret'.metrics = secret.metrics
    BY <2>3 DEF IInv, FetchedInv, Accepts, Edited
  <2>4. secret' = secret \/ \E r \in Requests : Serve(r)
    BY DEF Next, Arrive, Expire, vars, sharedVars
  <2> QED
    BY <2>1, <2>2, <2>3, <2>4
<1> QED
  BY <1>1, Invariance, PTL DEF Spec, OtherKeySurvives

\* A request that was served alone and whose save succeeded has had its effect
\* when it is answered, on the secret and on the vendor
\* (latest_custom_metrics.go:15-59, custom_app_metrics.go:20-32).
THEOREM AloneEffect == Spec => []AloneTakesEffect
<1>1. Init => PathInv /\ AloneInv
  BY DEF Init, PathInv, AloneInv, At, Serving, Saving
<1>2. IInv /\ PathInv /\ AloneInv /\ [Next]_vars => PathInv' /\ AloneInv'
  BY PathInvariant, AloneInvariant
<1>3. AloneInv => AloneTakesEffect
  BY DEF AloneInv, AloneTakesEffect, Serving, HasEffect, At
<1> QED
  BY <1>1, <1>2, <1>3, Invariance, PTL DEF Spec
=============================================================================
