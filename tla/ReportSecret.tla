----------------------------- MODULE ReportSecret -----------------------------
(***************************************************************************)
(* Air-gap reports: AppendReport adds an event to the report that a secret *)
(* holds until the vendor collects it (pkg/report).                        *)
(*                                                                         *)
(* There is a secret and a mutex for each type of report.  This is either  *)
(* type; serialized says which.  An instance report is stamped and appended*)
(* under instanceDataMtx (SendInstanceData); a report of custom metrics is *)
(* stamped by its own HTTP request.  The pods of a rolling update share    *)
(* the secret but neither mutex.                                           *)
(*                                                                         *)
(* An event is known by the append that made it.  The size of an encoded   *)
(* report is the sum of its events' sizes: compression changes the amounts *)
(* and not that dropping an event makes the report smaller.                *)
(***************************************************************************)
EXTENDS Integers, Sequences, FiniteSets

CONSTANTS
    Appends,        \* the calls, each made once (the bound on events)
    Pods,
    Sizes,          \* what an event may weigh
    EventLimit,     \* ReportEventLimit
    SizeLimit,      \* ReportSizeLimit; the API server's limit on a secret
                    \* is the same 1 MiB
    Nobody          \* holds a free mutex

ASSUME LimitsAssumption == EventLimit \in Nat \ {0} /\ SizeLimit \in Nat
ASSUME SizesAssumption == Sizes \subseteq Nat \ {0}
ASSUME AppendsAssumption == Nobody \notin Appends

VARIABLES
    serialized, \* is this the type that instanceDataMtx serializes?
    readOnly,   \* the store's read-only mode, fixed by the configuration
    secret,     \* [rv, exists, events]: the events under the report's key
    log,        \* history: every event ever written to the secret, in order
    clock,      \* the time, as the number of events stamped so far
    outer,      \* who holds each pod's instanceDataMtx
    mtx,        \* who holds each pod's mutex of the report, GetMtx()
    pc, pod,    \* of each append
    event,      \* its event [of, size, reportedAt]
    fetched     \* the secret it fetched

mode == <<serialized, readOnly>>
sharedVars == <<mode, secret, log, clock, outer, mtx>>
vars == <<sharedVars, pc, pod, event, fetched>>

-----------------------------------------------------------------------------
Event == [of : Appends, size : Sizes, reportedAt : Nat]
NoEvent == [of |-> Nobody, size |-> 0, reportedAt |-> 0]

Report == [rv : Nat, exists : BOOLEAN, events : Seq(Event)]
NoSecret == [rv |-> 0, exists |-> FALSE, events |-> <<>>]

Step == {"new", "stamp", "append", "fetch", "write", "release", "done"}

\* len(EncodeReport(r)): the bytes of each event of the report.
SizeOf(events) == Cardinality(UNION {{i} \X (1 .. events[i].size) : i \in DOMAIN events})

Suffix(events, from) == SubSeq(events, from, Len(events))

\* The secret may be there without the key of the report.
Init ==
    /\ serialized \in BOOLEAN
    /\ readOnly \in BOOLEAN
    /\ secret \in {NoSecret, [NoSecret EXCEPT !.rv = 1, !.exists = TRUE]}
    /\ log = <<>>
    /\ clock = 0
    /\ outer = [p \in Pods |-> Nobody]
    /\ mtx = [p \in Pods |-> Nobody]
    /\ pc = [a \in Appends |-> "new"]
    /\ pod \in [Appends -> Pods]
    /\ event = [a \in Appends |-> NoEvent]
    /\ fetched = [a \in Appends |-> NoSecret]

-----------------------------------------------------------------------------
(***************************************************************************)
(* AppendEvents: drop the oldest events, beyond the limit on their number  *)
(* first, then one by one while the report is too large.  <<>> stands for  *)
(* the error that the latest event alone is too large.                     *)
(***************************************************************************)
DropToSize(events) ==
    LET fitting == {i \in 1 .. Len(events) : SizeOf(Suffix(events, i)) <= SizeLimit}
    IN  IF fitting = {} THEN <<>>
        ELSE Suffix(events, CHOOSE i \in fitting : \A j \in fitting : i <= j)

\* Faulty variant of AppendEvents: the limit is applied before the new event
\* is there.
AppendEventsLate(events, e) ==
    DropToSize(Append(
        IF Len(events) > EventLimit
        THEN Suffix(events, Len(events) - EventLimit + 1) ELSE events, e))

AppendEvents(events, e) ==
    LET all == Append(events, e)
    IN  DropToSize(IF Len(all) > EventLimit
                   THEN Suffix(all, Len(all) - EventLimit + 1) ELSE all)

\* Without a report in the secret the new one is stored as it is.
NewEvents(s, e) == IF s.events = <<>> THEN <<e>> ELSE AppendEvents(s.events, e)

At(a, step) == pc[a] = step
Goto(a, step) == pc' = [pc EXCEPT ![a] = step]

-----------------------------------------------------------------------------
\* Faulty variant of Begin: instanceDataMtx is not taken.
BeginUnserialized(a) ==
    /\ At(a, "new")
    /\ Goto(a, "stamp")
    /\ UNCHANGED <<sharedVars, pod, event, fetched>>

\* The caller, which for an instance report takes instanceDataMtx.
Begin(a) ==
    /\ At(a, "new")
    /\ IF serialized
       THEN outer[pod[a]] = Nobody /\ outer' = [outer EXCEPT ![pod[a]] = a]
       ELSE UNCHANGED outer
    /\ Goto(a, "stamp")
    /\ UNCHANGED <<mode, secret, log, clock, mtx, pod, event, fetched>>

\* The event is made, with its time.
Stamp(a, size) ==
    /\ At(a, "stamp")
    /\ clock' = clock + 1
    /\ event' = [event EXCEPT ![a] = [of |-> a, size |-> size, reportedAt |-> clock + 1]]
    /\ Goto(a, "append")
    /\ UNCHANGED <<mode, secret, log, outer, mtx, pod, fetched>>

\* AppendReport in read-only mode: no write and no error.
SkipAppend(a) ==
    /\ At(a, "append") /\ readOnly
    /\ Goto(a, "release")
    /\ UNCHANGED <<sharedVars, pod, event, fetched>>

\* Faulty variant of Lock: no mutex.
LockNothing(a) ==
    /\ At(a, "append") /\ ~readOnly
    /\ mtx' = [mtx EXCEPT ![pod[a]] = a]
    /\ Goto(a, "fetch")
    /\ UNCHANGED <<mode, secret, log, clock, outer, pod, event, fetched>>

Lock(a) ==
    /\ At(a, "append") /\ ~readOnly
    /\ mtx[pod[a]] = Nobody
    /\ mtx' = [mtx EXCEPT ![pod[a]] = a]
    /\ Goto(a, "fetch")
    /\ UNCHANGED <<mode, secret, log, clock, outer, pod, event, fetched>>

Fetch(a) ==
    /\ At(a, "fetch")
    /\ fetched' = [fetched EXCEPT ![a] = secret]
    /\ Goto(a, "write")
    /\ UNCHANGED <<sharedVars, pod, event>>

\* Faulty variant of Accepts: the update carries no resource version.
AcceptsAny(a) ==
    /\ fetched[a].exists = secret.exists
    /\ SizeOf(NewEvents(fetched[a], event[a])) <= SizeLimit

\* The API server creates what does not exist, updates what has not changed,
\* and takes no secret beyond its limit.
Accepts(a) ==
    /\ fetched[a].exists = secret.exists
    /\ fetched[a].rv = secret.rv
    /\ SizeOf(NewEvents(fetched[a], event[a])) <= SizeLimit

Write(a) ==
    /\ Accepts(a)
    /\ NewEvents(fetched[a], event[a]) # <<>>
    /\ secret' = [rv |-> fetched[a].rv + 1, exists |-> TRUE,
                  events |-> NewEvents(fetched[a], event[a])]
    /\ log' = Append(log, event[a])

\* Faulty variant of Unlock: an early return keeps the mutex.
UnlockOnSuccess(a) ==
    mtx' = IF At(a, "write") THEN [mtx EXCEPT ![pod[a]] = Nobody] ELSE mtx

Unlock(a) == mtx' = [mtx EXCEPT ![pod[a]] = Nobody]

\* AppendReport returns.  Its write was accepted, whether the answer arrived
\* or not; or a call failed, or the event was too large, and nothing changed.
\* An error is returned to the caller, who does not retry.
Return(a) ==
    /\ At(a, "fetch") \/ At(a, "write")
    /\ \/ At(a, "write") /\ Write(a)
       \/ UNCHANGED <<secret, log>>
    /\ Unlock(a)
    /\ Goto(a, "release")
    /\ UNCHANGED <<mode, clock, outer, pod, event, fetched>>

\* The deferred unlock of instanceDataMtx.
Release(a) ==
    /\ At(a, "release")
    /\ outer' = IF serialized THEN [outer EXCEPT ![pod[a]] = Nobody] ELSE outer
    /\ fetched' = [fetched EXCEPT ![a] = NoSecret]
    /\ Goto(a, "done")
    /\ UNCHANGED <<mode, secret, log, clock, mtx, pod, event>>

Run(a) ==
    \/ Begin(a)
    \/ \E size \in Sizes : Stamp(a, size)
    \/ SkipAppend(a)
    \/ Lock(a)
    \/ Fetch(a)
    \/ Return(a)
    \/ Release(a)

Next == \E a \in Appends : Run(a)

Spec == Init /\ [][Next]_vars

-----------------------------------------------------------------------------
(***************************************************************************)
(* Properties                                                              *)
(***************************************************************************)

\* The types of the variables.
TypeOK ==
    /\ serialized \in BOOLEAN
    /\ readOnly \in BOOLEAN
    /\ secret \in Report
    /\ log \in Seq(Event)
    /\ clock \in Nat
    /\ outer \in [Pods -> Appends \cup {Nobody}]
    /\ mtx \in [Pods -> Appends \cup {Nobody}]
    /\ pc \in [Appends -> Step]
    /\ pod \in [Appends -> Pods]
    /\ event \in [Appends -> Event \cup {NoEvent}]
    /\ fetched \in [Appends -> Report]

Fits(events) == Len(events) <= EventLimit /\ SizeOf(events) <= SizeLimit

\* The report holds the newest of all events ever written to it, as many as
\* fit the limits: none is lost between two pods, none twice, none dropped but
\* for a newer one, although each append sees only what the last one left; and
\* an event too large for the report does not empty it (report.go:107-129,
\* instance_report.go:52-71).
NewestThatFit ==
    /\ log # <<>> => secret.events # <<>>
    /\ \E i \in 1 .. Len(log) + 1 :
        /\ secret.events = Suffix(log, i)
        /\ Fits(secret.events)
        /\ i > 1 => ~Fits(Suffix(log, i - 1))

\* "make sure events are reported in order" (instance.go:38): instance events
\* of one pod are in the order of the times they bear.
EventsInOrder ==
    serialized =>
        \A i, j \in 1 .. Len(secret.events) :
            /\ i < j
            /\ pod[secret.events[i].of] = pod[secret.events[j].of]
            => secret.events[i].reportedAt < secret.events[j].reportedAt

\* When all appends are made by one pod, none makes another's write fail: the
\* mutex covers fetch and write (report.go:52-53).
NoContentionInPod ==
    \A a \in Appends :
        At(a, "write") /\ (\A b \in Appends : pod[b] = pod[a]) =>
            fetched[a].rv = secret.rv /\ fetched[a].exists = secret.exists

\* No path out of AppendReport or its caller leaves a mutex locked: each is held
\* only by an append of its pod that is inside and can go on, so that every
\* append that waits gets its turn (report.go:52-135, instance.go:39-43).
MutexesAreFreed ==
    \A p \in Pods :
        /\ mtx[p] # Nobody => pod[mtx[p]] = p /\ pc[mtx[p]] \in {"fetch", "write"}
        /\ outer[p] # Nobody => pod[outer[p]] = p /\ pc[outer[p]] \notin {"new", "done"}
=============================================================================
