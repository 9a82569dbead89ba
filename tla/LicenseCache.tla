----------------------------- MODULE LicenseCache -----------------------------
(***************************************************************************)
(* The license, license fields and updates that the store caches, and the  *)
(* goroutines that refresh them from the vendor: the license and update    *)
(* handlers and the heartbeat.  Nothing orders their calls, and a vendor's *)
(* answer is as old as the way back is long.                               *)
(*                                                                         *)
(* The store's GetLicenseFields returns its own map.  The handler of one   *)
(* field changes that map in place before it calls SetLicenseFields, which *)
(* copies values into the store's map and removes none, or drops the map   *)
(* for nil when the vendor answers null for no fields.  A handler that has *)
(* the dropped map goes on with it.  Maps are in memory by their number;   *)
(* none of them has a lock, and the process crashes if the runtime notices *)
(* that one is written while another goroutine uses it.                    *)
(*                                                                         *)
(* The vendor's license, fields and releases change together; a version    *)
(* counts the changes.  The value of a field is the version that gave it   *)
(* that value, 0 when there is no such field.                              *)
(***************************************************************************)
EXTENDS Integers, Sequences

CONSTANTS
    Requests,       \* the HTTP requests, each made once (the bound on them)
    Heartbeat,      \* the job that runs again and again
    Fields,         \* names of license fields
    MaxChanges,     \* bound: changes at the vendor
    NoMap           \* a nil map of fields

Caller == Requests \cup {Heartbeat}

ASSUME HeartbeatAssumption == Heartbeat \notin Requests
ASSUME BoundAssumption == MaxChanges \in Nat
\* A request for one field is known by the field, the others by their names.
ASSUME FieldsAssumption == Fields \cap {"heartbeat", "info", "updates", "fields"} = {}
ASSUME NoMapAssumption == NoMap \notin [Fields -> Nat]

VARIABLES
    airgap,     \* util.IsAirgap()
    saysNull,   \* does the vendor write null for no fields, and not {}?
    given,      \* the fields that the configuration gives, or NoMap
    vendor,     \* the vendor's fields at each version so far, as a sequence
    maps,       \* the maps of license fields in memory, as a sequence
    license,    \* the version of InMemoryStore.license
    fields,     \* InMemoryStore.licenseFields, by its number, 0 for nil
    updates,    \* the version of InMemoryStore.updates, 0 for nil
    pc, op,     \* of each caller
    started,    \* history: the vendor's version when a request began
    alone,      \* history: has no other caller run beside a request?
    answer,     \* the version the vendor answered with
    local,      \* what the handler read from the store at its start
    reply       \* its response: [fresh, value] or [fresh, fields]

settings == <<airgap, saysNull, given>>
storeVars == <<maps, license, fields, updates>>
callVars == <<pc, op, started, alone, answer, local, reply>>
vars == <<settings, vendor, storeVars, callVars>>

-----------------------------------------------------------------------------
FieldMap == [Fields -> 0 .. MaxChanges + 1]
Empty == [f \in Fields |-> 0]
Version == 1 .. MaxChanges + 1

Op == {"heartbeat", "info", "updates", "fields"} \cup Fields
Step == {"idle", "ask", "answered", "failed", "store", "askUpdates",
         "respond", "done"}
Local == [license : Version, map : Nat, updates : {0} \cup Version]
NoLocal == [license |-> 1, map |-> 0, updates |-> 0]
UsesMap(o) == o = "fields" \/ o \in Fields
Reply == [fresh : BOOLEAN, value : {0} \cup Version, fields : FieldMap \cup {NoMap}]
Says(fresh, value) == [fresh |-> fresh, value |-> value, fields |-> NoMap]
SaysFields(fresh, fs) == [fresh |-> fresh, value |-> 0, fields |-> fs]
NoReply == Says(FALSE, 0)

\* InitInMemory with the fields of the configuration, an air-gap installation's.
Loaded == IF given = NoMap THEN <<>> ELSE <<given>>

\* Bootstrap verifies the license and stores the one it is given.
Init ==
    /\ airgap \in BOOLEAN
    /\ saysNull \in BOOLEAN
    /\ vendor \in {<<fs>> : fs \in [Fields -> {0, 1}]}
    /\ given \in {NoMap, vendor[1]}
    /\ maps = Loaded
    /\ license = 1
    /\ fields = Len(maps)
    /\ updates = 0
    /\ pc = [c \in Caller |-> "idle"]
    /\ op = [c \in Caller |-> "heartbeat"]
    /\ started = [r \in Requests |-> 1]
    /\ alone = [r \in Requests |-> FALSE]
    /\ answer = [c \in Caller |-> 1]
    /\ local = [c \in Caller |-> NoLocal]
    /\ reply = [c \in Caller |-> NoReply]

At(c, step) == pc[c] = step
Goto(c, step) == pc' = [pc EXCEPT ![c] = step]
Answered(c) == vendor[answer[c]]

\* The body of a JSON null leaves the map nil that it is read into.
AnsweredFields(c) ==
    IF saysNull /\ Answered(c) = Empty THEN NoMap ELSE Answered(c)

\* What a variable that holds map m says.
Contents(m) == IF m = 0 THEN NoMap ELSE maps[m]

-----------------------------------------------------------------------------
\* The vendor changes the license, or sets or removes a field with it.
VendorChange(fs) ==
    /\ Len(vendor) <= MaxChanges
    /\ \A f \in Fields : fs[f] \in {0, Len(vendor) + 1, vendor[Len(vendor)][f]}
    /\ vendor' = Append(vendor, fs)
    /\ UNCHANGED <<settings, storeVars, callVars>>

\* What a handler reads of the store at its start, when it has map m.
Reads(o, m) ==
    [license |-> IF o = "info" THEN license ELSE 1,
     map |-> IF UsesMap(o) THEN m ELSE 0,
     updates |-> IF o = "updates" THEN updates ELSE 0]

\* Faulty variant of TakeMap: GetLicenseFields returns a copy.
TakeCopy(c, o) ==
    /\ maps' = Append(maps, IF fields = 0 THEN Empty ELSE maps[fields])
    /\ local' = [local EXCEPT ![c] = Reads(o, Len(maps'))]

\* GetLicenseFields returns the store's map itself; the handler of one field
\* makes a new one when that is nil.
TakeMap(c, o) ==
    IF o \in Fields /\ fields = 0
    THEN /\ maps' = Append(maps, Empty)
         /\ local' = [local EXCEPT ![c] = Reads(o, Len(maps) + 1)]
    ELSE /\ maps' = maps
         /\ local' = [local EXCEPT ![c] = Reads(o, fields)]

\* In air-gap mode the handlers answer with what the store was given (there
\* are no updates), and say no more of the cache than of the vendor.
Stored(o) ==
    CASE o = "info" -> Says(TRUE, license)
      [] o = "updates" -> Says(TRUE, 0)
      [] o = "fields" -> SaysFields(TRUE, Contents(fields))
      [] o \in Fields -> Says(TRUE, IF fields = 0 THEN 0 ELSE maps[fields][o])
      [] OTHER -> NoReply

\* A handler or the job starts: it reads what it will fall back on.
Begin(c, o) ==
    /\ At(c, "idle")
    /\ (o = "heartbeat") = (c = Heartbeat)
    /\ op' = [op EXCEPT ![c] = o]
    /\ TakeMap(c, o)
    /\ started' = [r \in Requests |-> IF r = c THEN Len(vendor) ELSE started[r]]
    /\ alone' = [r \in Requests |-> r = c /\ \A d \in Caller : pc[d] \in {"idle", "done"}]
    /\ Goto(c, IF airgap THEN "respond" ELSE "ask")
    /\ reply' = IF airgap THEN [reply EXCEPT ![c] = Stored(o)] ELSE reply
    /\ UNCHANGED <<settings, vendor, license, fields, updates, answer>>

\* The vendor's server answers ...
VendorAnswers(c) ==
    /\ At(c, "ask") \/ At(c, "askUpdates")
    /\ answer' = [answer EXCEPT ![c] = Len(vendor)]
    /\ Goto(c, IF At(c, "ask") THEN "answered" ELSE "store")
    /\ UNCHANGED <<settings, vendor, storeVars, op, started, alone, local, reply>>

\* ... or the call fails: the handler answers with what it read at its start,
\* which for fields is that map, as it is now.
VendorFails(c) ==
    /\ At(c, "ask") \/ At(c, "askUpdates")
    /\ reply' = [reply EXCEPT ![c] =
            CASE op[c] = "info" -> Says(FALSE, local[c].license)
              [] op[c] = "updates" -> Says(FALSE, local[c].updates)
              [] op[c] = "fields" -> SaysFields(FALSE, Contents(local[c].map))
              [] op[c] \in Fields -> Says(FALSE, maps[local[c].map][op[c]])
              [] OTHER -> NoReply]
    /\ Goto(c, "respond")
    /\ UNCHANGED <<settings, vendor, storeVars, op, started, alone, answer, local>>

-----------------------------------------------------------------------------
\* Faulty variant of SetLicense: the job drops the license it fetched.
SetLicenseUnless(c) == license' = IF c = Heartbeat THEN license ELSE answer[c]

\* SetLicense keeps a deep copy.
SetLicense(c) == license' = answer[c]

\* Faulty variant of InfoValue: the handler answers with what it read before.
InfoValueRead(c) == local[c].license

\* GetLicenseInfo answers with the license it has fetched.
InfoValue(c) == answer[c]

\* GetLicenseInfo, GetAppUpdates and the heartbeat have a license.
StoreLicense(c) ==
    /\ At(c, "answered") /\ op[c] \in {"heartbeat", "info", "updates"}
    /\ SetLicense(c)
    /\ reply' = [reply EXCEPT ![c] =
            IF op[c] = "info" THEN Says(TRUE, InfoValue(c)) ELSE @]
    /\ Goto(c, IF op[c] = "updates" THEN "askUpdates" ELSE "respond")
    /\ UNCHANGED <<settings, vendor, maps, fields, updates, op, started, alone, answer, local>>

\* GetAppUpdates has the updates, too.
StoreUpdates(c) ==
    /\ At(c, "store") /\ op[c] = "updates"
    /\ updates' = answer[c]
    /\ reply' = [reply EXCEPT ![c] = Says(TRUE, answer[c])]
    /\ Goto(c, "respond")
    /\ UNCHANGED <<settings, vendor, maps, license, fields, op, started, alone, answer, local>>

\* The loop of SetLicenseFields: values are copied, none is removed.
Merged(old, new) == [f \in Fields |-> IF new[f] # 0 THEN new[f] ELSE old[f]]

\* A nil map replaces the store's; another one is copied into it, or into a new
\* map if the store has none.
SetLicenseFields(new) ==
    \/ /\ new = NoMap
       /\ fields' = 0
       /\ UNCHANGED maps
    \/ /\ new # NoMap /\ fields = 0
       /\ maps' = Append(maps, new)
       /\ fields' = Len(maps) + 1
    \/ /\ new # NoMap /\ fields # 0
       /\ maps' = [maps EXCEPT ![fields] = Merged(@, new)]
       /\ UNCHANGED fields

StoreFields(c) ==
    /\ At(c, "answered") /\ op[c] = "fields"
    /\ SetLicenseFields(AnsweredFields(c))
    /\ reply' = [reply EXCEPT ![c] = SaysFields(TRUE, AnsweredFields(c))]
    /\ Goto(c, "respond")
    /\ UNCHANGED <<settings, vendor, license, updates, op, started, alone, answer, local>>

\* GetLicenseField sets or deletes the field in the map that it has, which may
\* be the store's own, or was until the store dropped it.
ChangeMap(c) ==
    /\ At(c, "answered") /\ op[c] \in Fields
    /\ maps' = [maps EXCEPT ![local[c].map][op[c]] = Answered(c)[op[c]]]
    /\ Goto(c, "store")
    /\ UNCHANGED <<settings, vendor, license, fields, updates, op, started, alone,
                   answer, local, reply>>

\* SetLicenseFields with that map, which changes nothing if it is the store's;
\* the answer is then read from the map.
StoreField(c) ==
    /\ At(c, "store") /\ op[c] \in Fields
    /\ SetLicenseFields(maps[local[c].map])
    /\ reply' = [reply EXCEPT ![c] = Says(TRUE, maps[local[c].map][op[c]])]
    /\ Goto(c, "respond")
    /\ UNCHANGED <<settings, vendor, license, updates, op, started, alone, answer, local>>

\* The call ends and its locals are gone; the job waits for its next turn.
Respond(c) ==
    /\ At(c, "respond")
    /\ Goto(c, IF c = Heartbeat THEN "idle" ELSE "done")
    /\ op' = [op EXCEPT ![c] = "heartbeat"]
    /\ started' = [r \in Requests |-> IF r = c THEN 1 ELSE started[r]]
    /\ alone' = [r \in Requests |-> r # c /\ alone[r]]
    /\ answer' = [answer EXCEPT ![c] = 1]
    /\ local' = [local EXCEPT ![c] = NoLocal]
    /\ reply' = [reply EXCEPT ![c] = NoReply]
    /\ UNCHANGED <<settings, vendor, storeVars>>

\* The maps that the next step of a call writes, and that it reads.
MapsWritten(c) == {m \in 1 .. Len(maps) :
    \/ At(c, "answered") /\ op[c] \in Fields /\ m = local[c].map
    \/ At(c, "answered") /\ op[c] = "fields" /\ m = fields
    \/ At(c, "store") /\ op[c] \in Fields /\ m = fields}
MapsRead(c) == {m \in 1 .. Len(maps) : m = local[c].map /\
    \/ At(c, "ask") /\ UsesMap(op[c])
    \/ At(c, "store") /\ op[c] \in Fields}

\* Two goroutines use a map at once and one of them writes: the runtime may end
\* the process.  Its requests are lost, and bootstrap stores the configuration's
\* fields and the license that it fetches.
Crash(c, d) ==
    /\ c # d /\ MapsWritten(c) \cap (MapsRead(d) \cup MapsWritten(d)) # {}
    /\ maps' = Loaded
    /\ license' = Len(vendor)
    /\ fields' = Len(Loaded)
    /\ updates' = 0
    /\ pc' = [e \in Caller |->
            IF e = Heartbeat \/ pc[e] = "idle" THEN "idle" ELSE "done"]
    /\ op' = [e \in Caller |-> "heartbeat"]
    /\ started' = [r \in Requests |-> 1]
    /\ alone' = [r \in Requests |-> FALSE]
    /\ answer' = [e \in Caller |-> 1]
    /\ local' = [e \in Caller |-> NoLocal]
    /\ reply' = [e \in Caller |-> NoReply]
    /\ UNCHANGED <<settings, vendor>>

-----------------------------------------------------------------------------
Proceed(c) ==
    \/ VendorAnswers(c)
    \/ VendorFails(c)
    \/ StoreLicense(c)
    \/ StoreUpdates(c)
    \/ StoreFields(c)
    \/ ChangeMap(c)
    \/ StoreField(c)
    \/ Respond(c)

Next ==
    \/ \E fs \in FieldMap : VendorChange(fs)
    \/ \E c \in Caller : Proceed(c) \/ \E o \in Op : Begin(c, o)
    \/ \E c, d \in Caller : Crash(c, d)

(***************************************************************************)
(* Calls end, the job runs every four hours, and its call does not fail    *)
(* each and every time.                                                    *)
(***************************************************************************)
Fairness ==
    /\ \A c \in Caller : WF_vars(Proceed(c))
    /\ WF_vars(Begin(Heartbeat, "heartbeat"))
    /\ SF_vars(VendorAnswers(Heartbeat))

Spec == Init /\ [][Next]_vars /\ Fairness

-----------------------------------------------------------------------------
(***************************************************************************)
(* Properties                                                              *)
(***************************************************************************)

\* The types of the variables.
TypeOK ==
    /\ airgap \in BOOLEAN /\ saysNull \in BOOLEAN
    /\ given \in FieldMap \cup {NoMap}
    /\ vendor \in Seq(FieldMap) /\ Len(vendor) \in Version
    /\ maps \in Seq(FieldMap)
    /\ license \in Version
    /\ fields \in 0 .. Len(maps)
    /\ updates \in {0} \cup Version
    /\ pc \in [Caller -> Step]
    /\ op \in [Caller -> Op]
    /\ started \in [Requests -> Version]
    /\ alone \in [Requests -> BOOLEAN]
    /\ answer \in [Caller -> Version]
    /\ local \in [Caller -> Local]
    /\ reply \in [Caller -> Reply]

\* An answer that does not bear the served-from-cache header is what the
\* vendor said at or after the start of the request (license.go:40-74,
\* app.go:276-304), unless the installation is air-gapped: then it bears no
\* such header either (license.go:55, 73; app.go:224), and is what the
\* installation was given.  A single field of an installation that is not is
\* left out: it is answered from the map that other requests change meanwhile.
FreshAnswers ==
    \A c \in Requests : reply[c].fresh =>
        IF airgap
        THEN /\ op[c] = "info" => reply[c].value = 1
             /\ op[c] = "updates" => reply[c].value = 0
             /\ op[c] = "fields" => reply[c].fields = given
             /\ op[c] \in Fields =>
                    reply[c].value = IF given = NoMap THEN 0 ELSE given[op[c]]
        ELSE /\ op[c] \in {"info", "updates"} => reply[c].value \in started[c] .. Len(vendor)
             /\ op[c] = "fields" =>
                    \E v \in started[c] .. Len(vendor) :
                        \/ reply[c].fields = vendor[v]
                        \/ saysNull /\ reply[c].fields = NoMap /\ vendor[v] = Empty

\* A request that ran alone leaves in the store what the vendor answered; for
\* a single field that includes its removal, license.go:97 "field might not
\* exist or has been removed", though SetLicenseFields removes nothing.
AloneRefreshes ==
    \A c \in Requests : At(c, "respond") /\ reply[c].fresh /\ alone[c] /\ ~airgap =>
        CASE op[c] = "info" -> license = answer[c]
          [] op[c] = "updates" -> updates = answer[c] /\ license <= answer[c]
          [] op[c] = "fields" -> \A f \in Fields :
                Answered(c)[f] # 0 => maps[fields][f] = Answered(c)[f]
          [] OTHER -> /\ maps[fields][op[c]] = Answered(c)[op[c]]
                      /\ reply[c].value = Answered(c)[op[c]]

\* Whatever late answers the requests bring in, the store has the vendor's
\* license in the end, once that stops changing (heartbeat.go:52-63).
LicenseConverges == <>[](airgap \/ license = Len(vendor))
=============================================================================
