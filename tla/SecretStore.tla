----------------------------- MODULE SecretStore -----------------------------
(***************************************************************************)
(* What the requests about a secret promise, whatever locks, fetches and   *)
(* versions there are: each is served in one atomic step.  A write that is *)
(* answered "ok" has changed the data as it is at that time, exactly once; *)
(* one that is answered "failed" has done that or nothing; a read returns  *)
(* the data of one moment, or is answered from elsewhere where that is     *)
(* allowed.  The data also changes by other hands.                         *)
(***************************************************************************)
EXTENDS Naturals

CONSTANTS Requests, Keys, Values, MockKey, Nothing

VARIABLES data,     \* of the secret, Absent when there is none
          req,      \* what each request asks
          answer    \* what it was answered

store == <<data, req, answer>>

Data == [Keys -> Values \cup {Nothing}]
Absent == [k \in {} |-> Nothing]

Request ==
    [kind : {"POST", "PATCH"}, data : Data] \cup
    [kind : {"MOCK"}, data : Values] \cup
    [kind : {"GET", "APP"}, data : {Nothing}]
NoRequest == [kind |-> "none", data |-> Nothing]

NoAnswer == [code |-> "none", body |-> Nothing]
Ok(body) == [code |-> "ok", body |-> body]
Failed == [code |-> "failed", body |-> Nothing]
Real == [code |-> "real", body |-> Nothing]

\* What a write makes of the data.
Effect(q, old) ==
    CASE q.kind = "POST"  -> q.data
      [] q.kind = "PATCH" ->
            [k \in Keys |-> IF q.data[k] = Nothing THEN old[k] ELSE q.data[k]]
      [] q.kind = "MOCK"  -> [k \in Keys |-> IF k = MockKey THEN q.data ELSE old[k]]

StoreInit ==
    /\ data \in Data \cup {Absent}
    /\ req = [r \in Requests |-> NoRequest]
    /\ answer = [r \in Requests |-> NoAnswer]

Ask(r, q) ==
    /\ req[r] = NoRequest
    /\ req' = [req EXCEPT ![r] = q]
    /\ UNCHANGED <<data, answer>>

Answers(r, a) ==
    /\ req[r] # NoRequest /\ answer[r] = NoAnswer
    /\ answer' = [answer EXCEPT ![r] = a]
    /\ UNCHANGED req

Change(r) ==
    /\ req[r].kind \in {"POST", "PATCH", "MOCK"} /\ data # Absent
    /\ data' = Effect(req[r], data)
    /\ Answers(r, Ok(Nothing)) \/ Answers(r, Failed)

Look(r) ==
    /\ req[r].kind \in {"GET", "APP"}
    /\ Answers(r, Ok(IF data = Absent THEN Nothing ELSE data[MockKey]))
    /\ UNCHANGED data

LookElsewhere(r) ==
    /\ req[r].kind = "APP"
    /\ Answers(r, Real)
    /\ UNCHANGED data

Fail(r) == Answers(r, Failed) /\ UNCHANGED data

Reply(r) == Change(r) \/ Look(r) \/ LookElsewhere(r) \/ Fail(r)

OtherHands ==
    /\ data' \in Data \cup {Absent}
    /\ UNCHANGED <<req, answer>>

StoreNext ==
    \/ \E r \in Requests : Reply(r) \/ \E q \in Request : Ask(r, q)
    \/ OtherHands

StoreSafety == StoreInit /\ [][StoreNext]_store

StoreSpec == StoreSafety /\ \A r \in Requests : WF_store(Reply(r))
=============================================================================
