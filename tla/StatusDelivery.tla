--------------------------- MODULE StatusDelivery ---------------------------
(***************************************************************************)
(* What status reporting promises, whatever throttles, stores and sends:   *)
(* of the statuses received, the one kept and the one the vendor was told  *)
(* only move forward, intermediate ones may be skipped, none is invented,  *)
(* and the last one received is kept in the end.                           *)
(* Statuses are known by the order in which they were received.            *)
(***************************************************************************)
EXTENDS Integers

VARIABLES received,     \* how many statuses there have been
          kept,         \* the one in the store, 0 before the first
          told          \* the newest one in a report, 0 before the first

delivery == <<received, kept, told>>

DeliveryInit == received = 0 /\ kept = 0 /\ told = 0

ReceiveNext == received' = received + 1 /\ UNCHANGED <<kept, told>>

Keep ==
    /\ kept < received
    /\ kept' \in kept + 1 .. received
    /\ UNCHANGED <<received, told>>

Tell ==
    /\ told' \in told .. received
    /\ UNCHANGED <<received, kept>>

DeliveryNext == ReceiveNext \/ Keep \/ Tell

DeliverySafety == DeliveryInit /\ [][DeliveryNext]_delivery

DeliverySpec == DeliverySafety /\ WF_delivery(Keep)
=============================================================================
