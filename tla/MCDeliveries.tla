----------------------------- MODULE MCDeliveries -----------------------------
(***************************************************************************)
(* Two deliveries that must end: a call over the Core API's transport and  *)
(* a notification to a Matrix room.  They share no state, so their         *)
(* instances are explored one beside the other: part says which one moves. *)
(***************************************************************************)
EXTENDS CoreTransport, NotificationOutbox

CONSTANTS e1, e2, e3

\* NotifierConfig{RetryBase: 1, RetryMax: 2}.
MCRetryDelay(n) == IF n = 1 THEN 1 ELSE 2

VARIABLE part

deliveryVars == <<transportVars, vars, part>>

DeliveryInit == part \in {"transport", "outbox"} /\ TransportInit /\ Init

DeliveryNext ==
    /\ UNCHANGED part
    /\ \/ part = "transport" /\ TransportNext /\ UNCHANGED vars
       \/ part = "outbox" /\ Next /\ UNCHANGED transportVars

\* The initial state of a part that does not move owes no step but the clock's.
DeliverySpec ==
    /\ DeliveryInit /\ [][DeliveryNext]_deliveryVars
    /\ TransportFairness
    /\ WF_vars(Flush) /\ WF_vars(Restart) /\ WF_vars(part = "outbox" /\ Tick)
=============================================================================
