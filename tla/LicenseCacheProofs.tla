------------------------- MODULE LicenseCacheProofs -------------------------
(***************************************************************************)
(* Proofs about LicenseCache, for any number of requests, any names of     *)
(* license fields and any number of changes at the vendor.                 *)
(***************************************************************************)
EXTENDS LicenseCache, TLAPS

(***************************************************************************)
(* The inductive invariant.                                                *)
(***************************************************************************)

\* The call runs.
Running(c) == pc[c] \notin {"idle", "done"}

\* A version that the vendor has had since the call began.
Began(c) == IF c \in Requests THEN started[c] ELSE 1
Seen(c) == answer[c] \in Began(c) .. Len(vendor)

\* The vendor's version does not go back, and the store's license has been one.
VersionInv ==
    /\ license <= Len(vendor)
    /\ \A r \in Requests : started[r] <= Len(vendor)

\* Without the vendor the store keeps what it was given.
AirgapInv ==
    airgap => /\ license = 1 /\ Contents(fields) = given
              /\ \A c \in Caller : pc[c] \in {"idle", "respond", "done"}

\* The call goes the way of its operation, which is not that of the job; the map
\* that it has is there.
PathInv ==
    \A c \in Caller :
        /\ At(c, "askUpdates") => op[c] = "updates"
        /\ local[c].map <= Len(maps)
        /\ Running(c) /\ op[c] \in Fields => local[c].map # 0
        /\ Running(c) /\ c \in Requests => op[c] # "heartbeat"

\* What the vendor has answered it has answered to this call, and an answer that
\* counts as fresh is that, or in an air gap what the store was given.
FreshInv ==
    \A c \in Caller :
        /\ pc[c] \in {"answered", "store"} => Seen(c)
        /\ reply[c].fresh => At(c, "respond")
        /\ reply[c].fresh /\ airgap =>
            /\ op[c] = "info" => reply[c].value = 1
            /\ op[c] = "updates" => reply[c].value = 0
            /\ op[c] = "fields" => reply[c].fields = given
            /\ op[c] \in Fields =>
                    reply[c].value = IF given = NoMap THEN 0 ELSE given[op[c]]
        /\ reply[c].fresh /\ ~airgap =>
            /\ Seen(c)
            /\ op[c] \in {"info", "updates"} => reply[c].value = answer[c]
            /\ op[c] = "fields" => reply[c].fields = AnsweredFields(c)

\* What the call has stored is still in the store.
KeptInv(c) ==
    /\ op[c] = "info" => license = answer[c]
    /\ op[c] = "updates" => updates = answer[c] /\ license <= answer[c]
    /\ op[c] = "fields" => \A f \in Fields :
            Answered(c)[f] # 0 => maps[fields][f] = Answered(c)[f]
    /\ op[c] \in Fields => /\ maps[fields][op[c]] = Answered(c)[op[c]]
                           /\ reply[c].value = Answered(c)[op[c]]

\* Of a request that is alone: no other call runs, the map that it has is the
\* store's unless that has none, and what it has stored is still in the store.
AloneInv ==
    \A c \in Requests : alone[c] /\ Running(c) =>
        /\ \A d \in Caller \ {c} : ~Running(d)
        /\ At(c, "store") /\ op[c] = "updates" => license <= answer[c]
        /\ pc[c] \in {"ask", "answered", "store"} /\ op[c] \in Fields =>
                fields \in {0, local[c].map}
        /\ At(c, "store") /\ op[c] \in Fields =>
                maps[local[c].map][op[c]] = Answered(c)[op[c]]
        /\ reply[c].fresh /\ ~airgap => KeptInv(c)

IInv == TypeOK /\ VersionInv /\ AirgapInv /\ PathInv /\ FreshInv /\ AloneInv

-----------------------------------------------------------------------------
\* What the vendor has had is a map of fields, and no nil one.
LEMMA VendorMaps ==
    ASSUME TypeOK
    PROVE  /\ Len(vendor) \in Nat /\ Len(vendor) >= 1 /\ Len(vendor) <= MaxChanges + 1
           /\ \A v \in 1 .. Len(vendor) : vendor[v] \in FieldMap
           /\ NoMap \notin FieldMap /\ MaxChanges \in Nat
<1>1. NoMap \notin FieldMap
  BY NoMapAssumption, BoundAssumption DEF FieldMap
<1> QED
  BY <1>1, BoundAssumption DEF TypeOK, Version

\* Answers are made of versions and maps.
LEMMA ReplyType ==
    ASSUME NEW fresh \in BOOLEAN
    PROVE  /\ \A value \in {0} \cup Version : Says(fresh, value) \in Reply
           /\ \A fs \in FieldMap \cup {NoMap} : SaysFields(fresh, fs) \in Reply
  BY BoundAssumption DEF Says, SaysFields, Reply, Version

\* The vendor's answer is one of its maps, or nil in place of an empty one.
LEMMA AnsweredType ==
    ASSUME IInv, NEW c \in Caller, Seen(c)
    PROVE  /\ answer[c] \in 1 .. Len(vendor)
           /\ Answered(c) \in FieldMap
           /\ AnsweredFields(c) \in FieldMap \cup {NoMap}
           /\ \A f \in Fields : Answered(c)[f] # 0 => AnsweredFields(c) = Answered(c)
<1>1. Began(c) \in Nat /\ Began(c) >= 1
  BY DEF IInv, TypeOK, Began, Version
<1>2. answer[c] \in 1 .. Len(vendor)
  BY <1>1, VendorMaps DEF Seen, IInv, TypeOK, Version
<1>3. Answered(c) \in FieldMap
  BY <1>2, VendorMaps DEF IInv, Answered
<1> QED
  BY <1>2, <1>3 DEF AnsweredFields, Empty

\* What SetLicenseFields does to the maps in memory.
LEMMA SetFields ==
    ASSUME maps \in Seq(FieldMap), fields \in 0 .. Len(maps),
           NEW new \in FieldMap \cup {NoMap}, SetLicenseFields(new),
           NoMap \notin FieldMap
    PROVE  /\ maps' \in Seq(FieldMap) /\ fields' \in 0 .. Len(maps')
           /\ Len(maps) <= Len(maps')
           /\ new # NoMap =>
                /\ \A f \in Fields : new[f] # 0 => maps'[fields'][f] = new[f]
                /\ fields = 0 => maps'[fields'] = new
                /\ fields # 0 /\ new = maps[fields] =>
                        \A f \in Fields : maps'[fields'][f] = new[f]
<1>1. CASE new = NoMap
  BY <1>1 DEF SetLicenseFields
<1>2. CASE new # NoMap /\ fields = 0
  BY <1>2 DEF SetLicenseFields
<1>3. CASE new # NoMap /\ fields # 0
  <2>1. Merged(maps[fields], new) \in FieldMap
    BY <1>3 DEF Merged, FieldMap
  <2>2. maps' = [maps EXCEPT ![fields] = Merged(maps[fields], new)] /\ fields' = fields
    BY <1>3 DEF SetLicenseFields
  <2>3. /\ maps' \in Seq(FieldMap) /\ Len(maps') = Len(maps)
        /\ maps'[fields'] = Merged(maps[fields], new)
    BY <1>3, <2>1, <2>2
  <2>4. \A f \in Fields : Merged(maps[fields], new)[f] =
            IF new[f] # 0 THEN new[f] ELSE maps[fields][f]
    BY DEF Merged
  <2> QED
    BY <1>3, <2>2, <2>3, <2>4
<1> QED
  BY <1>1, <1>2, <1>3

\* What a handler of one field does to the map that it has.
LEMMA ChangesMap ==
    ASSUME IInv, NEW c \in Caller, ChangeMap(c)
    PROVE  /\ maps' \in Seq(FieldMap) /\ Len(maps') = Len(maps)
           /\ local[c].map \in 1 .. Len(maps)
           /\ maps'[local[c].map][op[c]] = Answered(c)[op[c]]
<1> DEFINE m == local[c].map
           value == Answered(c)[op[c]]
           new == [maps[m] EXCEPT ![op[c]] = value]
<1>1. op[c] \in Fields /\ Seen(c) /\ m # 0 /\ m <= Len(maps)
  BY DEF ChangeMap, At, IInv, FreshInv, PathInv, Running
<1>2. m \in 1 .. Len(maps)
  BY <1>1 DEF IInv, TypeOK, Local
<1>3. maps[m] \in FieldMap /\ Answered(c) \in FieldMap
  BY <1>1, <1>2, AnsweredType DEF IInv, TypeOK
<1>4. value \in 0 .. MaxChanges + 1
  BY <1>1, <1>3 DEF FieldMap
<1>5. new \in FieldMap /\ new[op[c]] = value
  BY <1>1, <1>3, <1>4 DEF FieldMap
<1>6. maps' = [maps EXCEPT ![m] = new]
  BY DEF ChangeMap
<1> HIDE DEF new, value, m
<1>7. maps' \in Seq(FieldMap) /\ Len(maps') = Len(maps) /\ maps'[m] = new
  BY <1>2, <1>5, <1>6 DEF IInv, TypeOK
<1> QED
  BY <1>2, <1>5, <1>7 DEF m, value

\* The map of a call about one field is there, and says versions.
LEMMA FieldValueType ==
    ASSUME IInv, NEW c \in Caller, op[c] \in Fields, Running(c)
    PROVE  /\ local[c].map \in 1 .. Len(maps)
           /\ maps[local[c].map] \in FieldMap
           /\ maps[local[c].map][op[c]] \in {0} \cup Version
<1>1. local[c].map \in 1 .. Len(maps)
  BY DEF IInv, PathInv, TypeOK, Local
<1>2. maps[local[c].map] \in FieldMap
  BY <1>1 DEF IInv, TypeOK
<1> QED
  BY <1>1, <1>2, BoundAssumption DEF FieldMap, Version

\* What a variable that holds a map says.
LEMMA ContentsType ==
    ASSUME TypeOK, NEW m \in 0 .. Len(maps)
    PROVE  Contents(m) \in FieldMap \cup {NoMap}
  BY DEF TypeOK, Contents

\* What a handler takes with it when it begins.
LEMMA TakesMap ==
    ASSUME TypeOK, NEW c \in Caller, NEW o \in Op, TakeMap(c, o)
    PROVE  /\ maps' \in Seq(FieldMap) /\ Len(maps) <= Len(maps')
           /\ \A m \in 1 .. Len(maps) : maps'[m] = maps[m]
           /\ local' \in [Caller -> Local]
           /\ \A d \in Caller \ {c} : local'[d] = local[d]
           /\ local'[c].map <= Len(maps')
           /\ o \in Fields => local'[c].map # 0 /\ fields \in {0, local'[c].map}
<1>1. Empty \in FieldMap
  BY BoundAssumption DEF Empty, FieldMap
<1>2. \A m \in Nat : Reads(o, m) \in Local /\ Reads(o, m).map \in {0, m}
  BY BoundAssumption DEF TypeOK, Reads, Local, Version
<1>3. o \in Fields => \A m \in Nat : Reads(o, m).map = m
  BY DEF Reads, UsesMap
<1>4. CASE o \in Fields /\ fields = 0
  <2>1. maps' = Append(maps, Empty) /\ local' = [local EXCEPT ![c] = Reads(o, Len(maps) + 1)]
    BY <1>4 DEF TakeMap
  <2>2. Len(maps) \in Nat /\ maps' \in Seq(FieldMap) /\ Len(maps') = Len(maps) + 1
    BY <1>1, <2>1 DEF TypeOK
  <2>3. /\ local' \in [Caller -> Local] /\ local'[c].map \in {0, Len(maps) + 1}
        /\ o \in Fields => local'[c].map = Len(maps) + 1
    BY <1>2, <1>3, <2>1, <2>2 DEF TypeOK
  <2>4. \A m \in 1 .. Len(maps) : maps'[m] = maps[m]
    BY <2>1, <2>2 DEF TypeOK
  <2>5. \A d \in Caller \ {c} : local'[d] = local[d]
    BY <2>1 DEF TypeOK
  <2> QED
    BY <1>4, <2>2, <2>3, <2>4, <2>5
<1>5. CASE ~(o \in Fields /\ fields = 0)
  <2>1. maps' = maps /\ local' = [local EXCEPT ![c] = Reads(o, fields)]
    BY <1>5 DEF TakeMap
  <2>2. fields \in Nat /\ fields <= Len(maps)
    BY DEF TypeOK
  <2>3. /\ local' \in [Caller -> Local] /\ local'[c].map \in {0, fields}
        /\ o \in Fields => local'[c].map = fields
    BY <1>2, <1>3, <2>1, <2>2 DEF TypeOK
  <2>4. \A d \in Caller \ {c} : local'[d] = local[d]
    BY <2>1 DEF TypeOK
  <2> QED
    BY <1>5, <2>1, <2>2, <2>3, <2>4 DEF TypeOK
<1> QED
  BY <1>4, <1>5

-----------------------------------------------------------------------------
\* A call that proceeds runs, and what it does to the others is to the store.
LEMMA ProceedMoves ==
    ASSUME TypeOK, NEW c \in Caller, Proceed(c)
    PROVE  /\ Running(c) /\ vendor' = vendor /\ settings' = settings
           /\ \A d \in Caller \ {c} :
                /\ pc'[d] = pc[d] /\ op'[d] = op[d]
                /\ answer'[d] = answer[d] /\ local'[d] = local[d] /\ reply'[d] = reply[d]
           /\ \A r \in Requests \ {c} : started'[r] = started[r] /\ alone'[r] = alone[r]
           /\ (op' = op /\ started' = started /\ alone' = alone) \/ Respond(c)
<1> USE DEF TypeOK, At, Goto, Running, storeVars
<1>1. CASE VendorAnswers(c) \/ VendorFails(c)
  BY <1>1 DEF VendorAnswers, VendorFails
<1>2. CASE StoreLicense(c) \/ StoreUpdates(c)
  BY <1>2 DEF StoreLicense, StoreUpdates
<1>3. CASE StoreFields(c)
  BY <1>3 DEF StoreFields
<1>4. CASE ChangeMap(c)
  BY <1>4 DEF ChangeMap
<1>5. CASE StoreField(c)
  BY <1>5 DEF StoreField
<1>6. CASE Respond(c)
  BY <1>6 DEF Respond
<1> QED
  BY <1>1, <1>2, <1>3, <1>4, <1>5, <1>6 DEF Proceed

\* What the handlers say in an air gap has the type of an answer.
LEMMA StoredType ==
    ASSUME TypeOK, NEW o \in Op
    PROVE  Stored(o) \in Reply
<1>1. license \in Version /\ Contents(fields) \in FieldMap \cup {NoMap}
  BY ContentsType DEF TypeOK
<1> DEFINE value == IF fields = 0 THEN 0 ELSE maps[fields][o]
<1>2. ASSUME o \in Fields PROVE value \in {0} \cup Version
  <2>1. CASE fields = 0
    BY <2>1
  <2>2. CASE fields # 0
    <3>1. maps[fields] \in FieldMap
      BY <2>2 DEF TypeOK
    <3> QED
      BY <1>2, <2>2, <3>1, BoundAssumption DEF FieldMap, Version
  <2> QED
    BY <2>1, <2>2
<1>3. /\ Says(TRUE, license) \in Reply /\ Says(TRUE, 0) \in Reply
      /\ SaysFields(TRUE, Contents(fields)) \in Reply /\ NoReply \in Reply
  BY <1>1, ReplyType DEF NoReply
<1> HIDE DEF value
<1>4. o \in Fields => Says(TRUE, value) \in Reply
  BY <1>2, ReplyType
<1>5. Stored(o) = CASE o = "info" -> Says(TRUE, license)
                    [] o = "updates" -> Says(TRUE, 0)
                    [] o = "fields" -> SaysFields(TRUE, Contents(fields))
                    [] o \in Fields -> Says(TRUE, value)
                    [] OTHER -> NoReply
  BY DEF Stored, value
<1> QED
  BY <1>3, <1>4, <1>5, FieldsAssumption

\* A call that begins starts from the store and from the vendor's version.
LEMMA BeginType ==
    ASSUME IInv, NEW c \in Caller, NEW o \in Op, Begin(c, o)
    PROVE  TypeOK'
<1> USE DEF IInv
<1>1. maps' \in Seq(FieldMap) /\ Len(maps) <= Len(maps') /\ local' \in [Caller -> Local]
  BY TakesMap DEF Begin
<1>2. reply' \in [Caller -> Reply]
  BY StoredType DEF Begin, TypeOK
<1>3. /\ pc' \in [Caller -> Step] /\ op' \in [Caller -> Op]
      /\ started' \in [Requests -> Version] /\ alone' \in [Requests -> BOOLEAN]
  <2>1. pc' \in [Caller -> Step] /\ op' \in [Caller -> Op]
    BY DEF Begin, Goto, TypeOK, Step
  <2>2. started' \in [Requests -> Version]
    BY DEF Begin, TypeOK
  <2>3. alone' \in [Requests -> BOOLEAN]
    BY DEF Begin
  <2> QED
    BY <2>1, <2>2, <2>3
<1>4. fields' \in 0 .. Len(maps')
  <2>1. fields' = fields /\ fields \in 0 .. Len(maps) /\ Len(maps') \in Nat
    BY <1>1 DEF Begin, TypeOK
  <2> QED
    BY <1>1, <2>1
<1> QED
  BY <1>1, <1>2, <1>3, <1>4 DEF Begin, TypeOK, settings

\* Every step of a call keeps the types.
LEMMA ProceedType ==
    ASSUME IInv, NEW c \in Caller, Proceed(c)
    PROVE  TypeOK'
<1> USE DEF IInv
<1>0. answer[c] \in Version /\ local[c] \in Local /\ op[c] \in Op
  BY DEF TypeOK
<1>1. CASE VendorAnswers(c)
  BY <1>1 DEF VendorAnswers, Goto, At, TypeOK, storeVars, settings, Step
<1>2. CASE VendorFails(c)
  <2> DEFINE shared == Contents(local[c].map)
             value == maps[local[c].map][op[c]]
             answered == CASE op[c] = "info" -> Says(FALSE, local[c].license)
                           [] op[c] = "updates" -> Says(FALSE, local[c].updates)
                           [] op[c] = "fields" -> SaysFields(FALSE, shared)
                           [] op[c] \in Fields -> Says(FALSE, value)
                           [] OTHER -> NoReply
  <2>1. op[c] \in Fields => value \in {0} \cup Version
    BY <1>2, FieldValueType DEF VendorFails, Running, At
  <2>2. shared \in FieldMap \cup {NoMap}
    BY <1>0, ContentsType DEF TypeOK, PathInv, Local
  <2>3. reply' = [reply EXCEPT ![c] = answered]
    BY <1>2 DEF VendorFails
  <2> HIDE DEF value, shared
  <2>4. /\ Says(FALSE, local[c].license) \in Reply /\ Says(FALSE, local[c].updates) \in Reply
        /\ SaysFields(FALSE, shared) \in Reply /\ NoReply \in Reply
        /\ op[c] \in Fields => Says(FALSE, value) \in Reply
    BY <1>0, <2>1, <2>2, ReplyType DEF Local, NoReply
  <2>5. answered \in Reply
    BY <2>4
  <2> HIDE DEF answered
  <2>6. reply' \in [Caller -> Reply]
    BY <2>3, <2>5 DEF TypeOK
  <2> QED
    BY <1>2, <2>6 DEF VendorFails, Goto, TypeOK, storeVars, settings, Step
<1>3. CASE StoreLicense(c)
  <2>1. Says(TRUE, InfoValue(c)) \in Reply
    BY <1>0, ReplyType DEF InfoValue
  <2>2. reply' \in [Caller -> Reply]
    BY <1>3, <2>1 DEF StoreLicense, TypeOK
  <2> QED
    BY <1>0, <1>3, <2>2 DEF StoreLicense, SetLicense, Goto, TypeOK, settings, Step
<1>4. CASE StoreUpdates(c)
  <2>1. Says(TRUE, answer[c]) \in Reply
    BY <1>0, ReplyType
  <2>2. reply' \in [Caller -> Reply]
    BY <1>4, <2>1 DEF StoreUpdates, TypeOK
  <2> QED
    BY <1>0, <1>4, <2>2 DEF StoreUpdates, Goto, TypeOK, settings, Step
<1>5. CASE StoreFields(c)
  <2>1. AnsweredFields(c) \in FieldMap \cup {NoMap}
    BY <1>5, AnsweredType DEF StoreFields, At, FreshInv
  <2>2. SaysFields(TRUE, AnsweredFields(c)) \in Reply
    BY <2>1, ReplyType
  <2>3. reply' \in [Caller -> Reply]
    BY <1>5, <2>2 DEF StoreFields, TypeOK
  <2>4. maps' \in Seq(FieldMap) /\ fields' \in 0 .. Len(maps')
    BY <1>5, <2>1, SetFields, VendorMaps DEF StoreFields, TypeOK
  <2> QED
    BY <1>5, <2>3, <2>4 DEF StoreFields, Goto, TypeOK, settings, Step
<1>6. CASE ChangeMap(c)
  BY <1>6, ChangesMap DEF ChangeMap, Goto, TypeOK, settings, Step
<1>7. CASE StoreField(c)
  <2> DEFINE m == maps[local[c].map]
  <2>1. m \in FieldMap /\ m[op[c]] \in {0} \cup Version
    BY <1>7, FieldValueType DEF StoreField, At, Running
  <2>2. reply' = [reply EXCEPT ![c] = Says(TRUE, m[op[c]])] /\ SetLicenseFields(m)
    BY <1>7 DEF StoreField
  <2> HIDE DEF m
  <2>3. Says(TRUE, m[op[c]]) \in Reply
    BY <2>1, ReplyType
  <2>4. reply' \in [Caller -> Reply]
    BY <2>2, <2>3 DEF TypeOK
  <2>5. maps' \in Seq(FieldMap) /\ fields' \in 0 .. Len(maps')
    BY <2>1, <2>2, SetFields, VendorMaps DEF TypeOK
  <2> QED
    BY <1>7, <2>4, <2>5 DEF StoreField, Goto, TypeOK, settings, Step
<1>8. CASE Respond(c)
  <2>1. 1 \in Version
    BY BoundAssumption DEF Version
  <2>2. NoReply \in Reply
    BY ReplyType DEF NoReply
  <2>3. NoLocal \in Local
    BY <2>1 DEF NoLocal, Local
  <2> QED
    BY <1>8, <2>1, <2>2, <2>3 DEF Respond, Goto, TypeOK, storeVars, settings, Step, Op
<1> QED
  BY <1>1, <1>2, <1>3, <1>4, <1>5, <1>6, <1>7, <1>8 DEF Proceed

\* The vendor's change takes nothing back that it said before.
LEMMA ChangeKeeps ==
    ASSUME TypeOK, NEW fs \in FieldMap, VendorChange(fs)
    PROVE  /\ vendor' \in Seq(FieldMap) /\ Len(vendor') = Len(vendor) + 1
           /\ Len(vendor') \in Version
           /\ \A v \in 1 .. Len(vendor) : vendor'[v] = vendor[v]
  BY VendorMaps DEF VendorChange, TypeOK, Version

\* What the configuration gives is a map, and the store starts with it.
LEMMA LoadedType ==
    ASSUME TypeOK
    PROVE  /\ Loaded \in Seq(FieldMap) /\ Len(Loaded) \in 0 .. Len(Loaded)
           /\ (IF Len(Loaded) = 0 THEN NoMap ELSE Loaded[Len(Loaded)]) = given
<1>1. CASE given = NoMap
  BY <1>1 DEF Loaded
<1>2. CASE given # NoMap
  <2>1. given \in FieldMap /\ Loaded = <<given>>
    BY <1>2 DEF Loaded, TypeOK
  <2>2. Len(Loaded) = 1 /\ Loaded[1] = given /\ Loaded \in Seq(FieldMap)
    BY <2>1
  <2> QED
    BY <2>2
<1> QED
  BY <1>1, <1>2

\* A crash leaves no call running, and the store as bootstrap fills it.
LEMMA CrashInvariant ==
    ASSUME IInv, NEW c \in Caller, NEW d \in Caller, Crash(c, d)
    PROVE  IInv'
<1> USE DEF IInv
<1>0. ~airgap
  <2>1. \E m \in 1 .. Len(maps) : m \in MapsWritten(c)
    BY DEF Crash, MapsWritten
  <2> QED
    BY <2>1 DEF MapsWritten, At, AirgapInv
<1>1. 1 \in Version /\ NoReply \in Reply /\ ~NoReply.fresh /\ NoLocal \in Local
  <2>1. 1 \in Version
    BY BoundAssumption DEF Version
  <2>2. NoReply \in Reply
    BY ReplyType DEF NoReply
  <2> QED
    BY <2>1, <2>2 DEF NoLocal, Local, NoReply, Says
<1>2. /\ \A e \in Caller : pc'[e] \in {"idle", "done"} /\ reply'[e] = NoReply
                          /\ local'[e] = NoLocal /\ op'[e] = "heartbeat"
      /\ \A r \in Requests : started'[r] = 1 /\ ~alone'[r]
      /\ license' = Len(vendor) /\ vendor' = vendor /\ airgap' = airgap
      /\ maps' = Loaded
  BY DEF Crash, settings
<1>3. TypeOK'
  <2>1. /\ pc' \in [Caller -> Step] /\ op' \in [Caller -> Op]
    BY DEF Crash, Step, Op
  <2>2. maps' \in Seq(FieldMap) /\ fields' \in 0 .. Len(maps')
    BY LoadedType DEF Crash
  <2>3. /\ started' \in [Requests -> Version] /\ alone' \in [Requests -> BOOLEAN]
        /\ answer' \in [Caller -> Version] /\ local' \in [Caller -> Local]
        /\ reply' \in [Caller -> Reply]
    BY <1>1 DEF Crash
  <2> QED
    BY <2>1, <2>2, <2>3 DEF Crash, TypeOK, settings
<1>4. VersionInv' /\ AirgapInv' /\ FreshInv' /\ AloneInv'
  BY <1>0, <1>1, <1>2, VendorMaps DEF VersionInv, AirgapInv, FreshInv, AloneInv, Running, At
<1>5. PathInv'
  <2>1. Len(maps') \in Nat /\ \A e \in Caller : local'[e].map = 0
    BY <1>2, <1>3 DEF NoLocal, TypeOK
  <2> QED
    BY <1>2, <2>1 DEF PathInv, Running, At
<1> QED
  BY <1>3, <1>4, <1>5

\* Every step keeps the types.
LEMMA TypeInvariant ==
    ASSUME IInv, [Next]_vars
    PROVE  TypeOK'
<1>1. CASE UNCHANGED vars
  BY <1>1 DEF vars, settings, storeVars, callVars, IInv, TypeOK
<1>2. ASSUME NEW fs \in FieldMap, VendorChange(fs) PROVE TypeOK'
  BY <1>2, ChangeKeeps DEF VendorChange, settings, storeVars, callVars, IInv, TypeOK
<1> QED
  BY <1>1, <1>2, BeginType, ProceedType, CrashInvariant DEF Next, IInv

\* Every step of the vendor or of a call keeps the versions in their order.
LEMMA VersionInvariant ==
    ASSUME IInv, [Next]_vars
    PROVE  VersionInv'
<1> USE DEF IInv, VersionInv
<1>0. Len(vendor) \in Nat /\ Len(vendor) >= 1 /\ license \in Int
      /\ \A r \in Requests : started[r] \in Int
  BY VendorMaps DEF TypeOK, Version
<1>1. CASE UNCHANGED vars
  BY <1>1 DEF vars, storeVars, callVars
<1>2. ASSUME NEW fs \in FieldMap, VendorChange(fs) PROVE VersionInv'
  <2>1. Len(vendor') = Len(vendor) + 1 /\ license' = license /\ started' = started
    BY <1>2, ChangeKeeps DEF VendorChange, storeVars, callVars
  <2> QED
    BY <1>0, <2>1
<1>3. ASSUME NEW c \in Caller, NEW o \in Op, Begin(c, o) PROVE VersionInv'
  BY <1>0, <1>3 DEF Begin
<1>4. ASSUME NEW c \in Caller, Proceed(c) PROVE VersionInv'
  <2>1. vendor' = vendor
    BY <1>4, ProceedMoves
  <2>2. \A r \in Requests : started'[r] \in {started[r], 1}
    BY <1>4 DEF Proceed, VendorAnswers, VendorFails, StoreLicense, StoreUpdates,
                StoreFields, ChangeMap, StoreField, Respond
  <2>3. license' = license \/ (license' = answer[c] /\ At(c, "answered"))
    BY <1>4 DEF Proceed, VendorAnswers, VendorFails, StoreLicense, SetLicense, StoreUpdates,
                StoreFields, ChangeMap, StoreField, Respond, storeVars
  <2>4. At(c, "answered") => answer[c] <= Len(vendor)
    BY DEF FreshInv, Seen, At
  <2> QED
    BY <1>0, <2>1, <2>2, <2>3, <2>4
<1> QED
  BY <1>1, <1>2, <1>3, <1>4, CrashInvariant DEF Next

\* In an air gap no call gets as far as to store anything.
LEMMA AirgapInvariant ==
    ASSUME IInv, [Next]_vars
    PROVE  AirgapInv'
<1> USE DEF IInv, AirgapInv
<1>1. CASE UNCHANGED vars
  BY <1>1 DEF vars, settings, storeVars, callVars, Contents
<1>2. ASSUME NEW fs \in FieldMap, VendorChange(fs) PROVE AirgapInv'
  BY <1>2 DEF VendorChange, settings, storeVars, callVars, Contents
<1>3. ASSUME NEW c \in Caller, NEW o \in Op, Begin(c, o) PROVE AirgapInv'
  <2>1. airgap' = airgap /\ given' = given /\ license' = license /\ fields' = fields
    BY <1>3 DEF Begin, settings
  <2>2. Contents(fields)' = Contents(fields)
    BY <1>3, <2>1, TakesMap DEF Begin, Contents, TypeOK
  <2>3. airgap => pc' = [pc EXCEPT ![c] = "respond"]
    BY <1>3 DEF Begin, Goto
  <2> QED
    BY <2>1, <2>2, <2>3 DEF TypeOK
<1>4. ASSUME NEW c \in Caller, Proceed(c) PROVE AirgapInv'
  <2>1. airgap' = airgap
    BY <1>4, ProceedMoves DEF settings
  <2>2. airgap => Respond(c)
    BY <1>4 DEF Proceed, VendorAnswers, VendorFails, StoreLicense, StoreUpdates,
                StoreFields, ChangeMap, StoreField, At
  <2> QED
    BY <2>1, <2>2 DEF Respond, Goto, TypeOK, settings, storeVars, Contents
<1> QED
  BY <1>1, <1>2, <1>3, <1>4, CrashInvariant DEF Next

\* Every step keeps the calls on their way, and the maps that they have.
LEMMA PathInvariant ==
    ASSUME IInv, [Next]_vars
    PROVE  PathInv'
<1> USE DEF IInv, PathInv, At, Running
<1>0. Len(maps) \in Nat /\ \A c \in Caller : local[c].map \in Nat
  BY DEF TypeOK, Local
<1>1. CASE UNCHANGED vars
  BY <1>1 DEF vars, storeVars, callVars
<1>2. ASSUME NEW fs \in FieldMap, VendorChange(fs) PROVE PathInv'
  BY <1>2 DEF VendorChange, storeVars, callVars
<1>3. ASSUME NEW c \in Caller, NEW o \in Op, Begin(c, o) PROVE PathInv'
  <2>1. /\ Len(maps) <= Len(maps') /\ Len(maps') \in Nat
        /\ \A d \in Caller \ {c} : local'[d] = local[d]
        /\ local'[c].map <= Len(maps')
        /\ o \in Fields => local'[c].map # 0
    BY <1>3, TakesMap DEF Begin
  <2>2. /\ pc'[c] # "askUpdates" /\ op'[c] = o
        /\ c \in Requests => op'[c] # "heartbeat"
        /\ \A d \in Caller \ {c} : pc'[d] = pc[d] /\ op'[d] = op[d]
    BY <1>3, HeartbeatAssumption DEF Begin, Goto, TypeOK
  <2>3. \A d \in Caller : local'[d].map <= Len(maps')
    BY <1>0, <2>1
  <2> QED
    BY <2>1, <2>2, <2>3
<1>4. ASSUME NEW c \in Caller, Proceed(c) PROVE PathInv'
  <2>1. /\ Running(c)
        /\ \A d \in Caller \ {c} : pc'[d] = pc[d] /\ op'[d] = op[d] /\ local'[d] = local[d]
    BY <1>4, ProceedMoves
  <2>2. Len(maps) <= Len(maps') /\ Len(maps') \in Nat
    <3>1. CASE StoreFields(c)
      <4>1. AnsweredFields(c) \in FieldMap \cup {NoMap}
        BY <3>1, AnsweredType DEF StoreFields, FreshInv
      <4> QED
        BY <3>1, <4>1, SetFields, VendorMaps DEF StoreFields, TypeOK
    <3>2. CASE ChangeMap(c)
      BY <1>0, <3>2, ChangesMap
    <3>3. CASE StoreField(c)
      <4>1. maps[local[c].map] \in FieldMap
        BY <3>3, FieldValueType DEF StoreField
      <4> QED
        BY <3>3, <4>1, SetFields, VendorMaps DEF StoreField, TypeOK
    <3>4. CASE maps' = maps
      BY <1>0, <3>4
    <3> QED
      BY <1>4, <3>1, <3>2, <3>3, <3>4 DEF Proceed, VendorAnswers, VendorFails, StoreLicense,
         StoreUpdates, Respond, storeVars
  <2>3. \/ op' = op /\ local' = local
        \/ pc'[c] \in {"idle", "done"} /\ local'[c].map = 0
    <3>1. CASE Respond(c)
      BY <3>1 DEF Respond, Goto, TypeOK, NoLocal
    <3> QED
      BY <1>4, <3>1 DEF Proceed, VendorAnswers, VendorFails, StoreLicense, StoreUpdates,
                        StoreFields, ChangeMap, StoreField
  <2>4. pc'[c] = "askUpdates" => op[c] = "updates" /\ op' = op
    BY <1>4 DEF Proceed, VendorAnswers, VendorFails, StoreLicense, StoreUpdates,
                StoreFields, ChangeMap, StoreField, Respond, Goto, TypeOK
  <2>5. \A d \in Caller : local'[d].map <= Len(maps')
    BY <1>0, <2>1, <2>2, <2>3
  <2> QED
    BY <2>1, <2>3, <2>4, <2>5
<1> QED
  BY <1>1, <1>2, <1>3, <1>4, CrashInvariant DEF Next

\* What a handler says in an air gap is what the store was given.
LEMMA StoredIsGiven ==
    ASSUME IInv, airgap, NEW o \in Op
    PROVE  /\ o = "info" => Stored(o).value = 1
           /\ o = "updates" => Stored(o).value = 0
           /\ o = "fields" => Stored(o).fields = given
           /\ o \in Fields =>
                Stored(o).value = IF given = NoMap THEN 0 ELSE given[o]
<1>1. license = 1 /\ Contents(fields) = given
  BY DEF IInv, AirgapInv
<1>2. given = NoMap <=> fields = 0
  <2>1. fields # 0 => maps[fields] \in FieldMap
    BY DEF IInv, TypeOK
  <2> QED
    BY <1>1, <2>1, VendorMaps DEF IInv, Contents
<1>3. fields # 0 => maps[fields] = given
  BY <1>1 DEF Contents
<1>4. o \in Fields => o \notin {"info", "updates", "fields"}
  BY FieldsAssumption
<1> QED
  BY <1>1, <1>2, <1>3, <1>4 DEF Stored, Says, SaysFields

\* Every step keeps what counts as fresh an answer of the vendor to that call, or
\* what the store was given.
LEMMA FreshInvariant ==
    ASSUME IInv, [Next]_vars
    PROVE  FreshInv'
<1> USE DEF IInv
<1>0. /\ Len(vendor) \in Nat /\ Len(vendor) >= 1
      /\ \A c \in Caller : Began(c) \in Nat /\ Began(c) >= 1 /\ Began(c) <= Len(vendor)
  BY VendorMaps DEF TypeOK, Version, VersionInv, Began
<1>1. CASE UNCHANGED vars
  BY <1>1 DEF vars, settings, storeVars, callVars, FreshInv, Seen, Began, Answered,
              AnsweredFields, At
<1>2. ASSUME NEW fs \in FieldMap, VendorChange(fs) PROVE FreshInv'
  <2>1. /\ Len(vendor') = Len(vendor) + 1
        /\ \A v \in 1 .. Len(vendor) : vendor'[v] = vendor[v]
    BY <1>2, ChangeKeeps
  <2>2. /\ pc' = pc /\ op' = op /\ started' = started /\ answer' = answer /\ reply' = reply
        /\ settings' = settings
    BY <1>2 DEF VendorChange, callVars
  <2>3. \A c \in Caller : Seen(c) => Seen(c)' /\ AnsweredFields(c)' = AnsweredFields(c)
    BY <1>0, <2>1, <2>2 DEF Seen, Began, Answered, AnsweredFields, settings
  <2> QED
    BY <2>2, <2>3 DEF FreshInv, At, settings
<1>3. ASSUME NEW c \in Caller, NEW o \in Op, Begin(c, o) PROVE FreshInv'
  <2>1. /\ pc'[c] \notin {"answered", "store"} /\ vendor' = vendor /\ answer' = answer
        /\ settings' = settings /\ op'[c] = o
        /\ \A r \in Requests \ {c} : started'[r] = started[r]
        /\ \A d \in Caller \ {c} : pc'[d] = pc[d] /\ op'[d] = op[d] /\ reply'[d] = reply[d]
    BY <1>3 DEF Begin, Goto, TypeOK
  <2>2. IF airgap THEN reply'[c] = Stored(o) /\ pc'[c] = "respond" ELSE ~reply'[c].fresh
    BY <1>3 DEF Begin, Goto, TypeOK, FreshInv, At
  <2>3. airgap => \A d \in Caller \ {c} : reply'[d].fresh => At(d, "respond")
    BY <2>1 DEF FreshInv
  <2> QED
    BY <2>1, <2>2, <2>3, StoredIsGiven
    DEF FreshInv, Seen, Began, Answered, AnsweredFields, At, settings
<1>4. ASSUME NEW c \in Caller, Proceed(c) PROVE FreshInv'
  <2>0. /\ vendor' = vendor /\ settings' = settings
        /\ \A d \in Caller \ {c} : pc'[d] = pc[d] /\ op'[d] = op[d]
                                  /\ answer'[d] = answer[d] /\ reply'[d] = reply[d]
        /\ \A r \in Requests \ {c} : started'[r] = started[r]
    BY <1>4, ProceedMoves
  <2>1. airgap => ~reply'[c].fresh
    <3>1. airgap => Respond(c)
      BY <1>4 DEF AirgapInv, Proceed, VendorAnswers, VendorFails, StoreLicense, StoreUpdates,
                  StoreFields, ChangeMap, StoreField, At
    <3> QED
      BY <3>1 DEF Respond, NoReply, Says, TypeOK
  <2>2. SUFFICES /\ pc'[c] \in {"answered", "store"} => Seen(c)'
                 /\ reply'[c].fresh =>
                      /\ pc'[c] = "respond" /\ Seen(c)'
                      /\ op'[c] \in {"info", "updates"} => reply'[c].value = answer'[c]
                      /\ op'[c] = "fields" => reply'[c].fields = AnsweredFields(c)'
    BY <2>0, <2>1 DEF FreshInv, Seen, Began, Answered, AnsweredFields, At, settings
  <2>3. /\ pc[c] \in {"answered", "store"} => Seen(c)
        /\ pc[c] # "respond" => ~reply[c].fresh
    BY DEF FreshInv, At
  <2> USE <2>0, <2>3 DEF TypeOK, Goto, At
  <2>4. CASE VendorAnswers(c)
    BY <1>0, <2>4 DEF VendorAnswers, Seen, Began
  <2>5. CASE VendorFails(c)
    <3>1. \A v : ~Says(FALSE, v).fresh /\ ~SaysFields(FALSE, v).fresh
      BY DEF Says, SaysFields
    <3> QED
      BY <2>5, <3>1 DEF VendorFails, NoReply
  <2>6. CASE StoreLicense(c)
    BY <2>6 DEF StoreLicense, Seen, Began, Says, InfoValue
  <2>7. CASE StoreUpdates(c)
    BY <2>7 DEF StoreUpdates, Seen, Began, Says
  <2>8. CASE StoreFields(c)
    BY <2>8 DEF StoreFields, Seen, Began, SaysFields, Answered, AnsweredFields, settings
  <2>9. CASE ChangeMap(c)
    BY <2>9 DEF ChangeMap, Seen, Began
  <2>10. CASE StoreField(c)
    <3>1. op[c] \notin {"info", "updates", "fields"}
      BY <2>10, FieldsAssumption DEF StoreField
    <3> QED
      BY <2>10, <3>1 DEF StoreField, Seen, Began
  <2>11. CASE Respond(c)
    BY <2>11 DEF Respond, NoReply, Says
  <2> QED
    BY <1>4, <2>4, <2>5, <2>6, <2>7, <2>8, <2>9, <2>10, <2>11 DEF Proceed
<1> QED
  BY <1>1, <1>2, <1>3, <1>4, CrashInvariant DEF Next

\* Every step keeps what is known of a request that is alone.
LEMMA AloneInvariant ==
    ASSUME IInv, [Next]_vars
    PROVE  AloneInv'
<1> USE DEF IInv
<1>1. CASE UNCHANGED vars
  BY <1>1 DEF vars, settings, storeVars, callVars, AloneInv, KeptInv, Running, Answered, At
<1>2. ASSUME NEW fs \in FieldMap, VendorChange(fs) PROVE AloneInv'
  <2>1. \A v \in 1 .. Len(vendor) : vendor'[v] = vendor[v]
    BY <1>2, ChangeKeeps
  <2>2. UNCHANGED <<airgap, maps, license, fields, updates, pc, op, alone, answer, local, reply>>
    BY <1>2 DEF VendorChange, callVars, storeVars, settings
  <2>3. \A c \in Caller : At(c, "store") \/ (reply[c].fresh /\ ~airgap)
            => Answered(c)' = Answered(c)
    <3>1. \A c \in Caller : At(c, "store") \/ (reply[c].fresh /\ ~airgap)
            => answer[c] \in 1 .. Len(vendor)
      BY AnsweredType DEF FreshInv, At
    <3> QED
      BY <2>1, <2>2, <3>1 DEF Answered
  <2>4. Requests \subseteq Caller
    BY DEF Caller
  <2> QED
    BY <2>2, <2>3, <2>4 DEF AloneInv, KeptInv, Running, At
<1>3. ASSUME NEW c \in Caller, NEW o \in Op, Begin(c, o) PROVE AloneInv'
  <2>1. \A r \in Requests \ {c} : ~alone'[r]
    BY <1>3 DEF Begin
  <2>2. c \in Requests /\ alone'[c] => \A d \in Caller \ {c} : ~Running(d)'
    BY <1>3 DEF Begin, Goto, TypeOK, Running
  <2>3. /\ pc'[c] # "store" /\ op'[c] = o /\ fields' = fields /\ airgap' = airgap
        /\ ~airgap => ~reply'[c].fresh
        /\ o \in Fields => fields \in {0, local'[c].map}
    BY <1>3, TakesMap DEF Begin, Goto, TypeOK, FreshInv, At, settings
  <2> QED
    BY <2>1, <2>2, <2>3 DEF AloneInv, At
<1>4. ASSUME NEW c \in Caller, Proceed(c) PROVE AloneInv'
  <2>0. /\ Running(c) /\ vendor' = vendor /\ airgap' = airgap
        /\ \A d \in Caller \ {c} : pc'[d] = pc[d]
        /\ \A r \in Requests \ {c} : alone'[r] = alone[r]
        /\ (op' = op /\ started' = started /\ alone' = alone) \/ Respond(c)
    BY <1>4, ProceedMoves DEF settings
  <2>1. \A r \in Requests \ {c} : ~(alone'[r] /\ Running(r)')
    BY <2>0 DEF AloneInv, Running, Caller
  <2>2. SUFFICES ASSUME c \in Requests, alone[c], ~Respond(c)
                 PROVE  /\ pc'[c] = "store" /\ op[c] = "updates" => license' <= answer'[c]
                        /\ pc'[c] \in {"ask", "answered", "store"} /\ op[c] \in Fields =>
                                fields' \in {0, local'[c].map}
                        /\ pc'[c] = "store" /\ op[c] \in Fields =>
                                maps'[local'[c].map][op[c]] = Answered(c)'[op[c]]
                        /\ reply'[c].fresh /\ ~airgap => KeptInv(c)'
    <3>1. c \in Requests /\ alone[c] => \A d \in Caller \ {c} : ~Running(d)'
      BY <2>0 DEF AloneInv, Running
    <3>2. Respond(c) /\ c \in Requests => ~alone'[c]
      BY DEF Respond
    <3> QED
      BY <2>0, <2>1, <2>2, <3>1, <3>2 DEF AloneInv, At
  <2>3. /\ pc[c] # "respond" => ~reply[c].fresh
        /\ pc[c] = "store" /\ op[c] = "updates" => license <= answer[c]
        /\ pc[c] \in {"ask", "answered", "store"} /\ op[c] \in Fields =>
                fields \in {0, local[c].map}
        /\ pc[c] = "store" /\ op[c] \in Fields =>
                maps[local[c].map][op[c]] = Answered(c)[op[c]]
        /\ pc[c] = "askUpdates" => op[c] = "updates"
    BY <2>0, <2>2 DEF FreshInv, PathInv, AloneInv, At
  <2>4. op' = op
    BY <2>0, <2>2
  <2> USE <2>0, <2>2, <2>4 DEF Goto, At
  <2>5. CASE VendorAnswers(c)
    <3>1. /\ pc[c] # "respond" /\ reply'[c] = reply[c] /\ local' = local /\ fields' = fields
          /\ pc'[c] = "answered" \/ (pc[c] = "askUpdates" /\ pc'[c] = "store")
          /\ license' = license /\ answer'[c] = Len(vendor)
          /\ pc[c] \in {"ask", "askUpdates"}
      BY <2>5 DEF VendorAnswers, storeVars, TypeOK
    <3> QED
      BY <2>3, <3>1, FieldsAssumption DEF VersionInv
  <2>6. CASE VendorFails(c)
    <3>1. \A v : ~Says(FALSE, v).fresh /\ ~SaysFields(FALSE, v).fresh
      BY DEF Says, SaysFields
    <3> QED
      BY <2>6, <3>1 DEF VendorFails, NoReply, TypeOK
  <2>7. CASE StoreLicense(c)
    BY <2>3, <2>7, FieldsAssumption DEF StoreLicense, SetLicense, Says, KeptInv, TypeOK
  <2>8. CASE StoreUpdates(c)
    BY <2>3, <2>8, FieldsAssumption DEF StoreUpdates, Says, KeptInv, TypeOK
  <2>9. CASE StoreFields(c)
    <3>1. /\ AnsweredFields(c) \in FieldMap \cup {NoMap}
          /\ \A f \in Fields : Answered(c)[f] # 0 =>
                AnsweredFields(c) = Answered(c) /\ Answered(c) # NoMap
      BY <2>9, AnsweredType, VendorMaps DEF StoreFields, FreshInv
    <3>2. SetLicenseFields(AnsweredFields(c)) /\ Answered(c)' = Answered(c)
          /\ op[c] = "fields" /\ pc'[c] = "respond"
      BY <2>9 DEF StoreFields, Answered, TypeOK
    <3>3. \A f \in Fields : Answered(c)[f] # 0 => maps'[fields'][f] = Answered(c)[f]
      BY <3>1, <3>2, SetFields, VendorMaps DEF TypeOK
    <3> QED
      BY <3>2, <3>3, FieldsAssumption DEF KeptInv
  <2>10. CASE ChangeMap(c)
    <3>1. /\ Answered(c)' = Answered(c) /\ op[c] \in Fields /\ pc[c] = "answered"
          /\ pc'[c] = "store" /\ reply' = reply /\ local' = local /\ fields' = fields
      BY <2>10 DEF ChangeMap, Answered, TypeOK
    <3> QED
      BY <2>3, <2>10, <3>1, ChangesMap, FieldsAssumption
  <2>11. CASE StoreField(c)
    <3> DEFINE m == maps[local[c].map]
    <3>1. /\ Answered(c)' = Answered(c) /\ op[c] \in Fields /\ pc[c] = "store"
          /\ pc'[c] = "respond" /\ SetLicenseFields(m)
          /\ reply'[c] = Says(TRUE, m[op[c]])
      BY <2>11 DEF StoreField, Answered, TypeOK
    <3>2. m \in FieldMap /\ m # NoMap
      BY <3>1, FieldValueType, VendorMaps
    <3>3. m[op[c]] = Answered(c)[op[c]] /\ (fields = 0 \/ m = maps[fields])
      BY <2>3, <3>1
    <3> HIDE DEF m
    <3>4. maps'[fields'][op[c]] = m[op[c]]
      BY <3>1, <3>2, <3>3, SetFields, VendorMaps DEF TypeOK
    <3> QED
      BY <3>1, <3>3, <3>4, FieldsAssumption DEF KeptInv, Says
  <2> QED
    BY <1>4, <2>5, <2>6, <2>7, <2>8, <2>9, <2>10, <2>11 DEF Proceed
<1> QED
  BY <1>1, <1>2, <1>3, <1>4, CrashInvariant DEF Next

\* Init establishes the invariant.
LEMMA InitInvariant == Init => IInv
<1> SUFFICES ASSUME Init PROVE IInv
  OBVIOUS
<1>1. PICK fs \in [Fields -> {0, 1}] : vendor = <<fs>>
  BY DEF Init
<1>2. fs \in FieldMap /\ 1 \in Version /\ MaxChanges \in Nat
  BY BoundAssumption DEF FieldMap, Version
<1>3. /\ vendor \in Seq(FieldMap) /\ Len(vendor) = 1 /\ vendor[1] = fs
      /\ given \in FieldMap \cup {NoMap}
  BY <1>1, <1>2 DEF Init
<1>4. NoReply \in Reply /\ ~NoReply.fresh /\ NoLocal \in Local /\ NoLocal.map = 0
  <2>1. NoReply \in Reply
    BY ReplyType DEF NoReply
  <2> QED
    BY <1>2, <2>1 DEF NoReply, Says, NoLocal, Local
<1>5. maps \in Seq(FieldMap) /\ fields = Len(maps) /\ Contents(fields) = given
  <2>1. CASE given = NoMap
    BY <2>1 DEF Init, Loaded, Contents
  <2>2. CASE given # NoMap
    <3>1. given \in FieldMap /\ maps = <<given>> /\ fields = Len(maps)
      BY <1>3, <2>2 DEF Init, Loaded
    <3> QED
      BY <3>1 DEF Contents
  <2> QED
    BY <2>1, <2>2
<1>6. TypeOK
  BY <1>2, <1>3, <1>4, <1>5 DEF Init, TypeOK, Step, Op
<1>7. VersionInv /\ AirgapInv /\ FreshInv /\ AloneInv
  BY <1>3, <1>4, <1>5 DEF Init, VersionInv, AirgapInv, FreshInv, AloneInv, Running, At
<1>8. PathInv
  BY <1>4, <1>5 DEF Init, PathInv, Running, At
<1> QED
  BY <1>6, <1>7, <1>8 DEF IInv

\* It holds all along.
LEMMA Invariance == Spec => []IInv
<1>1. IInv /\ [Next]_vars => IInv'
  BY TypeInvariant, VersionInvariant, AirgapInvariant, PathInvariant, FreshInvariant,
     AloneInvariant DEF IInv
<1> QED
  BY <1>1, InitInvariant, PTL DEF Spec

-----------------------------------------------------------------------------
(***************************************************************************)
(* Theorems                                                                *)
(***************************************************************************)

\* Type correctness.
THEOREM TypeCorrect == Spec => []TypeOK
  BY Invariance, PTL DEF IInv

\* An answer that is not told to be from the cache is what the vendor said at or
\* after the start of the request, or in an air gap what the installation was
\* given (license.go:40-74, app.go:223-304).
THEOREM AnswersFresh == Spec => []FreshAnswers
<1>1. IInv => FreshAnswers
  <2> SUFFICES ASSUME IInv, NEW c \in Requests, reply[c].fresh
               PROVE  IF airgap
                      THEN /\ op[c] = "info" => reply[c].value = 1
                           /\ op[c] = "updates" => reply[c].value = 0
                           /\ op[c] = "fields" => reply[c].fields = given
                           /\ op[c] \in Fields =>
                                reply[c].value = IF given = NoMap THEN 0 ELSE given[op[c]]
                      ELSE /\ op[c] \in {"info", "updates"} =>
                                reply[c].value \in started[c] .. Len(vendor)
                           /\ op[c] = "fields" => \E v \in started[c] .. Len(vendor) :
                                \/ reply[c].fields = vendor[v]
                                \/ saysNull /\ reply[c].fields = NoMap /\ vendor[v] = Empty
    BY DEF FreshAnswers
  <2>1. c \in Caller
    BY DEF Caller
  <2> QED
    BY <2>1 DEF IInv, FreshInv, Seen, Began, Answered, AnsweredFields
<1> QED
  BY <1>1, Invariance, PTL

\* A request that ran alone leaves in the store what the vendor answered
\* (license.go:97, app.go:276-304).
THEOREM RefreshedAlone == Spec => []AloneRefreshes
<1>1. IInv => AloneRefreshes
  <2> SUFFICES ASSUME IInv, NEW c \in Requests, At(c, "respond"), reply[c].fresh, alone[c],
                      ~airgap
               PROVE  CASE op[c] = "info" -> license = answer[c]
                        [] op[c] = "updates" -> updates = answer[c] /\ license <= answer[c]
                        [] op[c] = "fields" -> \A f \in Fields :
                              Answered(c)[f] # 0 => maps[fields][f] = Answered(c)[f]
                        [] OTHER -> /\ maps[fields][op[c]] = Answered(c)[op[c]]
                                    /\ reply[c].value = Answered(c)[op[c]]
    BY DEF AloneRefreshes
  <2>1. c \in Caller /\ Running(c)
    BY DEF Caller, Running, At
  <2>2. op[c] \in Op /\ op[c] # "heartbeat"
    BY <2>1 DEF IInv, TypeOK, PathInv
  <2> QED
    BY <2>1, <2>2 DEF IInv, AloneInv, KeptInv, Op
<1> QED
  BY <1>1, Invariance, PTL
=============================================================================
