----------------------------- MODULE AppStates -----------------------------
(***************************************************************************)
(* The states of a resource and how the state of an app follows from them  *)
(* (pkg/appstate/types/types.go).  The loops of MinState and GetState keep *)
(* the worst state met so far, so order and repetition play no part and    *)
(* their argument is a set here.                                           *)
(***************************************************************************)
LOCAL INSTANCE Integers

\* From the worst to the best.
Severity == <<"missing", "unavailable", "degraded", "updating", "ready">>

State == {"missing", "unavailable", "degraded", "updating", "ready"}

\* The zero value of a state, which MinState looks through.
NoState == ""

Rank(s) == CHOOSE i \in 1..5 : Severity[i] = s

\* s is at least as good as t.
AtLeast(s, t) == Rank(s) >= Rank(t)

MinState(S) ==
    IF S = {} THEN "missing"
    ELSE IF S \cap State = {} THEN NoState
    ELSE CHOOSE s \in S \cap State : \A t \in S \cap State : AtLeast(t, s)

\* The state of an app, from the states of its resources.
GetState(S) == IF S = {} THEN "missing" ELSE MinState(S \cup {"ready"})
=============================================================================
