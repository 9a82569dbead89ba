-------------------------- MODULE ChartSecretsProofs --------------------------
(***************************************************************************)
(* Proofs about ChartSecrets: its variables keep their types, and requests *)
(* are atomic, for any number of requests, pods, keys and edits.           *)
(***************************************************************************)
EXTENDS ChartSecrets, TLAPS

Body == Values \cup {Nothing}
AnyAnswer == [code : {"none", "ok", "failed", "real"}, body : Body]

-----------------------------------------------------------------------------
\* The secrets that a namespace may begin with are secrets.
LEMMA FirstSecrets == Init => secret \in Secret /\ NoSecret \in Secret
<1>1. NoData \in Data /\ [NoData EXCEPT ![EnabledKey] = Yes] \in Data
  BY KeysAssumption, ValuesAssumption DEF NoData, Data
<1>2. NoSecret \in Secret
  BY <1>1 DEF NoSecret, Secret
<1>3. \A d \in Data : [rv |-> 1, exists |-> TRUE, data |-> d] \in Secret
  BY DEF Secret
<1>4. FirstSecret \subseteq Secret
  BY <1>1, <1>2, <1>3 DEF FirstSecret
<1> QED
  BY <1>2, <1>4 DEF Init

\* What a write sends is data.
LEMMA EditedType ==
    ASSUME TypeOK, NEW r \in Requests, req[r] # NoRequest, Writes(r)
    PROVE  Edited(r) \in Data
<1>1. fetched[r].data \in Data
  BY DEF TypeOK, Secret
<1>2. req[r] \in Request
  BY DEF TypeOK
<1>3. CASE req[r].kind = "POST"
  BY <1>2, <1>3 DEF Edited, Request
<1>4. CASE req[r].kind = "PATCH"
  <2>1. req[r].data \in Data
    BY <1>2, <1>4 DEF Request
  <2> QED
    BY <1>1, <1>4, <2>1 DEF Edited, Data
<1>5. CASE req[r].kind = "MOCK"
  <2>1. req[r].data \in Values
    BY <1>2, <1>5 DEF Request
  <2> QED
    BY <1>1, <1>5, <2>1 DEF Edited, Data
<1> QED
  BY <1>2, <1>3, <1>4, <1>5 DEF Request, Writes

(***************************************************************************)
(* The inductive invariant.  Which variables of a request are set follows  *)
(* from where it is; and what makes a write atomic is that the secret it   *)
(* fetched is the one there is, for as long as that has the version it was *)
(* fetched with.                                                           *)
(***************************************************************************)
RequestInv ==
    \A r \in Requests :
        /\ At(r, "new") <=> req[r] = NoRequest
        /\ At(r, "done") <=> answer[r] # NoAnswer
        /\ At(r, "write") => Writes(r)

FetchedInv ==
    \A r \in Requests : At(r, "write") =>
        /\ fetched[r].rv <= secret.rv
        /\ fetched[r].rv = secret.rv => fetched[r] = secret

IInv == TypeOK /\ RequestInv /\ FetchedInv

\* The steps that answer a request and leave the secret alone.
LEMMA AnswerKeeps ==
    ASSUME IInv, NEW r \in Requests, NEW a \in AnyAnswer, a # NoAnswer,
           Answer(r, a), ~At(r, "new"), UNCHANGED secret,
           lock' \in [Pods -> Requests \cup {Nothing}]
    PROVE  IInv'
<1> USE DEF IInv
<1>1. NoSecret \in Secret
  BY DEF NoSecret, Secret, NoData, Data
<1>2. TypeOK'
  BY <1>1 DEF Answer, Goto, TypeOK, Step, AnyAnswer, Body, mode, Request
<1>3. RequestInv'
  BY DEF RequestInv, Answer, Goto, At, Writes, TypeOK
<1>4. FetchedInv'
  BY DEF FetchedInv, Answer, Goto, At, TypeOK
<1> QED
  BY <1>2, <1>3, <1>4

\* An update writes what its request makes of the secret that is there.
LEMMA UpdateKeeps ==
    ASSUME IInv, NEW r \in Requests, Update(r)
    PROVE  /\ secret' \in Secret
           /\ secret'.rv = secret.rv + 1
           /\ secret.exists /\ secret'.exists
           /\ fetched[r] = secret
           /\ secret'.data = Edited(r)
<1> USE DEF IInv
<1>1. Writes(r) /\ req[r] # NoRequest
  BY DEF Update, RequestInv, At
<1>2. Edited(r) \in Data
  BY <1>1, EditedType
<1>3. secret.exists /\ fetched[r].rv \in {Unversioned, secret.rv}
  BY DEF Update, Accepts, Sent
<1>4. fetched[r].rv # Unversioned
  BY DEF TypeOK, Secret, Unversioned
<1>5. secret' = [rv |-> secret.rv + 1, exists |-> TRUE, data |-> Edited(r)]
  BY DEF Update, Sent
<1>6. fetched[r] = secret
  BY <1>3, <1>4 DEF FetchedInv, Update
<1> QED
  BY <1>2, <1>3, <1>5, <1>6 DEF TypeOK, Secret

\* The steps that answer a request and update the secret.
LEMMA UpdateAnswerKeeps ==
    ASSUME IInv, NEW r \in Requests, NEW a \in AnyAnswer, a # NoAnswer,
           Answer(r, a), Update(r),
           lock' \in [Pods -> Requests \cup {Nothing}]
    PROVE  IInv'
<1> USE DEF IInv
<1>1. NoSecret \in Secret
  BY DEF NoSecret, Secret, NoData, Data
<1>2. TypeOK'
  BY <1>1, UpdateKeeps DEF Answer, Goto, TypeOK, Step, AnyAnswer, Body, mode, Request
<1>3. RequestInv'
  BY DEF RequestInv, Answer, Goto, At, Writes, TypeOK, Update
<1>4. ASSUME NEW s \in Requests, At(s, "write")'
      PROVE  /\ fetched'[s].rv <= secret'.rv
             /\ fetched'[s].rv = secret'.rv => fetched'[s] = secret'
  <2>1. s # r /\ At(s, "write") /\ fetched'[s] = fetched[s]
    BY <1>4 DEF Answer, Goto, At, TypeOK
  <2>2. fetched[s].rv \in Nat /\ secret.rv \in Nat /\ fetched[s].rv <= secret.rv
    BY <2>1 DEF TypeOK, Secret, FetchedInv
  <2> QED
    BY <2>1, <2>2, UpdateKeeps
<1> QED
  BY <1>2, <1>3, <1>4 DEF FetchedInv

-----------------------------------------------------------------------------
\* Every step of a request, and every edit by others, keeps the invariant.
LEMMA Invariant ==
    ASSUME IInv, [Next]_vars
    PROVE  IInv'
<1> USE DEF IInv
<1>1. ASSUME NEW r \in Requests, NEW q \in Request, Arrive(r, q) PROVE IInv'
  <2>1. q # NoRequest
    BY DEF Request, NoRequest
  <2>2. TypeOK'
    BY <1>1 DEF Arrive, Goto, TypeOK, Step, mode, Request
  <2>3. RequestInv' /\ FetchedInv'
    BY <1>1, <2>1 DEF Arrive, Goto, At, TypeOK, RequestInv, FetchedInv, Writes
  <2> QED
    BY <2>2, <2>3
<1>2. ASSUME NEW r \in Requests, Handle(r) PROVE IInv'
  <2>1. TypeOK'
    BY <1>2 DEF Handle, Goto, TypeOK, Step, mode, Request
  <2>2. RequestInv' /\ FetchedInv'
    BY <1>2 DEF Handle, Goto, At, TypeOK, RequestInv, FetchedInv, Writes
  <2> QED
    BY <2>1, <2>2
<1>3. ASSUME NEW r \in Requests, Lock(r) PROVE IInv'
  <2>1. TypeOK'
    BY <1>3 DEF Lock, Goto, TypeOK, Step, mode, Request
  <2>2. RequestInv' /\ FetchedInv'
    BY <1>3 DEF Lock, Goto, At, TypeOK, RequestInv, FetchedInv, Writes
  <2> QED
    BY <2>1, <2>2
<1>4. ASSUME NEW r \in Requests, Fetch(r) PROVE IInv'
  <2>1. TypeOK'
    BY <1>4 DEF Fetch, Goto, TypeOK, Step, mode, Request
  <2>2. RequestInv'
    BY <1>4 DEF Fetch, Goto, At, TypeOK, RequestInv, Writes
  <2>3. FetchedInv'
    BY <1>4 DEF Fetch, Goto, At, TypeOK, FetchedInv, Secret
  <2> QED
    BY <2>1, <2>2, <2>3
<1> DEFINE OpenLock == lock' \in [Pods -> Requests \cup {Nothing}]
<1>5. /\ Failed \in AnyAnswer /\ Failed # NoAnswer
      /\ \A r \in Requests : WithoutMock(r) \in AnyAnswer /\ WithoutMock(r) # NoAnswer
  BY DEF Failed, Real, WithoutMock, AnyAnswer, NoAnswer, Body
<1>6. \A body \in Body : Ok(body) \in AnyAnswer /\ Ok(body) # NoAnswer
  BY DEF Ok, AnyAnswer, NoAnswer
<1>7. ASSUME NEW r \in Requests, Refuse(r) \/ NotDev(r) PROVE IInv'
  BY <1>5, <1>7, AnswerKeeps DEF Refuse, NotDev, At, TypeOK
<1>8. ASSUME NEW r \in Requests, Checked(r) PROVE IInv'
  <2>1. OpenLock
    BY <1>8 DEF Checked, Unlock, TypeOK
  <2>2. CASE Enabled
    <3>1. TypeOK'
      BY <1>8, <2>1, <2>2 DEF Checked, Goto, TypeOK, Step, mode, Request
    <3>2. RequestInv' /\ FetchedInv'
      BY <1>8, <2>2 DEF Checked, Goto, At, TypeOK, RequestInv, FetchedInv, Writes
    <3> QED
      BY <3>1, <3>2
  <2>3. CASE ~Enabled
    BY <1>5, <1>8, <2>1, <2>3, AnswerKeeps DEF Checked, At
  <2> QED
    BY <2>2, <2>3
<1>9. ASSUME NEW r \in Requests, Read(r) PROVE IInv'
  <2>1. OpenLock
    BY <1>9 DEF Read, Unlock, TypeOK
  <2>2. MockData \in Body
    BY KeysAssumption DEF MockData, TypeOK, Secret, Data, Body
  <2> QED
    BY <1>6, <1>9, <2>1, <2>2, AnswerKeeps DEF Read, At
<1>10. ASSUME NEW r \in Requests, Write(r) PROVE IInv'
  <2>1. OpenLock
    BY <1>10 DEF Write, Unlock, TypeOK
  <2>2. Nothing \in Body
    BY DEF Body
  <2> QED
    BY <1>6, <1>10, <2>1, <2>2, UpdateAnswerKeeps DEF Write
<1>11. ASSUME NEW r \in Requests, Fails(r) PROVE IInv'
  <2>1. OpenLock
    BY <1>11 DEF Fails, Unlock, TypeOK
  <2> QED
    BY <1>5, <1>11, <2>1, AnswerKeeps, UpdateAnswerKeeps DEF Fails, At
<1>12. ASSUME NEW exists \in BOOLEAN, NEW value \in Body, Edit(exists, value)
       PROVE  IInv'
  <2>1. secret' \in Secret /\ secret'.rv = secret.rv + 1
    <3>1. NoData \in Data /\ [secret.data EXCEPT ![EnabledKey] = value] \in Data
      BY DEF NoData, Data, Body, TypeOK, Secret
    <3> QED
      BY <1>12, <3>1 DEF Edit, Secret, TypeOK
  <2>2. TypeOK'
    BY <1>12, <2>1, EditsAssumption DEF Edit, TypeOK, mode, Request
  <2>3. RequestInv'
    BY <1>12 DEF Edit, RequestInv, At, Writes
  <2>4. FetchedInv'
    BY <1>12, <2>1 DEF Edit, FetchedInv, At, TypeOK, Secret
  <2> QED
    BY <2>2, <2>3, <2>4
<1>13. CASE UNCHANGED vars
  BY <1>13 DEF vars, mode, TypeOK, RequestInv, FetchedInv, At, Writes, Request
<1> QED
  BY <1>1, <1>2, <1>3, <1>4, <1>7, <1>8, <1>9, <1>10, <1>11, <1>12, <1>13
  DEF Next, Serve, Body

\* A request's place and its variables agree, and what it fetched is the
\* secret as long as the version says so.
LEMMA Invariance == Spec => []IInv
<1>1. Init => IInv
  <2>1. Init => TypeOK
    BY FirstSecrets, EditsAssumption DEF Init, TypeOK, Step, NoAnswer
  <2>2. Init => RequestInv /\ FetchedInv
    BY DEF Init, RequestInv, FetchedInv, At, NoRequest, NoAnswer
  <2> QED
    BY <2>1, <2>2 DEF IInv
<1> QED
  BY <1>1, Invariant, PTL DEF Spec

\* Every variable keeps its type.
THEOREM TypeCorrect == Spec => []TypeOK
BY Invariance, PTL DEF IInv

-----------------------------------------------------------------------------
\* A secret, even an empty one, is told from none.
LEMMA SeenType ==
    ASSUME TypeOK
    PROVE  /\ secret.exists => Seen = secret.data /\ Seen # Store!Absent
           /\ ~secret.exists => Seen = Store!Absent
           /\ Seen \in Store!Data \cup {Store!Absent}
<1>1. secret.data \in Data
  BY DEF TypeOK, Secret
<1>2. DOMAIN secret.data = Keys /\ DOMAIN Store!Absent = {}
  BY <1>1 DEF Data, Store!Absent
<1>3. secret.data # Store!Absent
  BY <1>2, KeysAssumption
<1> QED
  BY <1>1, <1>3 DEF Seen, Store!Absent, Store!Data, Data

\* The update is the effect its request has on the data that are there now,
\* not on those that were there when it fetched them.
LEMMA EditedIsEffect ==
    ASSUME IInv, NEW r \in Requests, Update(r)
    PROVE  /\ req[r].kind \in {"POST", "PATCH", "MOCK"}
           /\ Seen = secret.data /\ Seen # Store!Absent
           /\ Seen' = Store!Effect(req[r], Seen)
<1> USE DEF IInv
<1>1. /\ secret.exists /\ fetched[r] = secret
      /\ secret'.exists /\ secret'.data = Edited(r)
  BY UpdateKeeps
<1>2. Seen = secret.data /\ Seen # Store!Absent /\ Seen' = Edited(r)
  BY <1>1, SeenType DEF Seen
<1>3. req[r] \in Request /\ Writes(r)
  BY DEF TypeOK, RequestInv, Update, At
<1>4. CASE req[r].kind = "POST"
  BY <1>2, <1>4 DEF Edited, Store!Effect
<1>5. CASE req[r].kind = "PATCH"
  BY <1>1, <1>2, <1>5 DEF Edited, Store!Effect
<1>6. CASE req[r].kind = "MOCK"
  <2>1. secret.data \in Data
    BY DEF TypeOK, Secret
  <2>2. Edited(r) = [secret.data EXCEPT ![MockKey] = req[r].data]
    BY <1>1, <1>6 DEF Edited
  <2>3. Store!Effect(req[r], Seen)
          = [k \in Keys |-> IF k = MockKey THEN req[r].data ELSE secret.data[k]]
    BY <1>2, <1>6 DEF Store!Effect
  <2>4. [secret.data EXCEPT ![MockKey] = req[r].data]
          = [k \in Keys |-> IF k = MockKey THEN req[r].data ELSE secret.data[k]]
    BY <2>1 DEF Data
  <2> QED
    BY <1>2, <1>6, <2>2, <2>3, <2>4
<1> QED
  BY <1>2, <1>3, <1>4, <1>5, <1>6 DEF Request, Writes

\* A request that is answered is one that was asked and was not answered yet.
LEMMA AnswerOnce ==
    ASSUME IInv, NEW r \in Requests, NEW a,
           Answer(r, a), ~At(r, "new"), ~At(r, "done")
    PROVE  Store!Answers(r, a)
BY DEF IInv, RequestInv, Answer, Store!Answers, Store!NoRequest, Store!NoAnswer,
       NoRequest, NoAnswer

\* Whatever a step does, to those who only see the data, the requests and the
\* answers it is a whole request, an edit by others, or nothing.
LEMMA StepsAreAtomic ==
    ASSUME IInv, [Next]_vars
    PROVE  [Store!StoreNext]_(Store!store)
<1> USE DEF IInv
<1>1. ASSUME NEW r \in Requests, NEW q \in Request, Arrive(r, q)
      PROVE  Store!StoreNext
  <2>1. q \in Store!Request
    BY DEF Request, Store!Request, Data, Store!Data
  <2>2. Store!Ask(r, q)
    BY <1>1 DEF Arrive, Store!Ask, Seen, RequestInv, Store!NoRequest, NoRequest
  <2> QED
    BY <2>1, <2>2 DEF Store!StoreNext
<1>2. ASSUME NEW r \in Requests, Handle(r) \/ Lock(r) \/ Fetch(r)
      PROVE  UNCHANGED Store!store
  BY <1>2 DEF Handle, Lock, Fetch, Store!store, Seen
<1>3. ASSUME NEW r \in Requests, Answer(r, Failed) \/ Answer(r, WithoutMock(r)),
             ~At(r, "new"), ~At(r, "done"), UNCHANGED secret
      PROVE  Store!StoreNext
  <2>1. CASE Answer(r, Failed)
    BY <1>3, <2>1, AnswerOnce
    DEF Store!Fail, Seen, Failed, Store!Failed, Store!StoreNext, Store!Reply
  <2>2. CASE Answer(r, Real) /\ req[r].kind = "APP"
    BY <1>3, <2>2, AnswerOnce
    DEF Store!LookElsewhere, Seen, Real, Store!Real, Store!StoreNext, Store!Reply
  <2> QED
    BY <1>3, <2>1, <2>2 DEF WithoutMock
<1>4. ASSUME NEW r \in Requests, Refuse(r) \/ NotDev(r) PROVE Store!StoreNext
  BY <1>3, <1>4 DEF Refuse, NotDev, At
<1>5. ASSUME NEW r \in Requests, Checked(r)
      PROVE  Store!StoreNext \/ UNCHANGED Store!store
  <2>1. CASE Enabled
    BY <1>5, <2>1 DEF Checked, Store!store, Seen
  <2>2. CASE ~Enabled
    BY <1>3, <1>5, <2>2 DEF Checked, At
  <2> QED
    BY <2>1, <2>2
<1>6. ASSUME NEW r \in Requests, Read(r) PROVE Store!StoreNext
  <2>1. req[r].kind \in {"GET", "APP"}
    BY <1>6 DEF Read, Writes
  <2>2. Ok(MockData) = Store!Ok(IF Seen = Store!Absent THEN Nothing ELSE Seen[MockKey])
    BY SeenType DEF Ok, MockData, Store!Ok
  <2>3. Store!Answers(r, Ok(MockData)) /\ UNCHANGED Seen
    BY <1>6, AnswerOnce DEF Read, At, Seen
  <2>4. Store!Look(r)
    BY <2>1, <2>2, <2>3 DEF Store!Look
  <2> QED
    BY <2>4 DEF Store!StoreNext, Store!Reply
<1>7. ASSUME NEW r \in Requests, Update(r), Answer(r, Failed) \/ Answer(r, Ok(Nothing))
      PROVE  Store!StoreNext
  <2>1. Store!Answers(r, Store!Failed) \/ Store!Answers(r, Store!Ok(Nothing))
    BY <1>7, AnswerOnce DEF Update, At, Failed, Store!Failed, Ok, Store!Ok
  <2>2. Store!Change(r)
    BY <1>7, <2>1, EditedIsEffect DEF Store!Change
  <2> QED
    BY <2>2 DEF Store!StoreNext, Store!Reply
<1>8. ASSUME NEW r \in Requests, Write(r) \/ Fails(r) PROVE Store!StoreNext
  BY <1>3, <1>7, <1>8 DEF Write, Fails, At
<1>9. ASSUME NEW exists \in BOOLEAN, NEW value \in Body, Edit(exists, value)
      PROVE  Store!StoreNext
  <2>1. Seen' \in Store!Data \cup {Store!Absent}
    <3>1. TypeOK'
      BY Invariant
    <3>2. CASE secret'.exists
      BY <3>1, <3>2 DEF Seen, TypeOK, Secret, Data, Store!Data
    <3>3. CASE ~secret'.exists
      BY <3>3 DEF Seen, Store!Absent
    <3> QED
      BY <3>2, <3>3
  <2> QED
    BY <1>9, <2>1 DEF Edit, Store!StoreNext, Store!OtherHands
<1>10. CASE UNCHANGED vars
  BY <1>10 DEF vars, Store!store, Seen
<1> QED
  BY <1>1, <1>2, <1>4, <1>5, <1>6, <1>8, <1>9, <1>10 DEF Next, Serve, Body

\* Requests are atomic for any number of requests, pods, keys, values and edits
\* by others: the safety part of RequestsAreAtomic (that every request is
\* answered is left to TLC).
THEOREM Atomicity == Spec => Store!StoreSafety
<1>1. Init => Store!StoreInit
  <2>1. Init => TypeOK
    BY FirstSecrets, EditsAssumption DEF Init, TypeOK, Step, NoAnswer
  <2> QED
    BY <2>1, SeenType
    DEF Init, Store!StoreInit, Store!NoRequest, Store!NoAnswer, NoRequest, NoAnswer
<1> QED
  BY <1>1, Invariance, StepsAreAtomic, PTL DEF Spec, Store!StoreSafety

===============================================================================
