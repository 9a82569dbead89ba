-------------------------- MODULE MCCustomMetrics --------------------------
(***************************************************************************)
(* CustomMetrics for TLC.  The pods are interchangeable, which liveness    *)
(* does not let a SYMMETRY say: the first request goes to the first pod.   *)
(***************************************************************************)
EXTENDS CustomMetrics

CONSTANTS FirstRequest, FirstPod

MCInit == Init /\ pod[FirstRequest] = FirstPod

MCSpec == MCInit /\ [][Next]_vars /\ Fairness
=============================================================================
