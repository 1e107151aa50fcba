---------------------------- MODULE JobDelivery ----------------------------
(***************************************************************************)
(* What the job system promises of an envelope, whatever it is made of: it *)
(* travels from the handler that accepted it through the list to a worker, *)
(* it is in one place at a time, a worker that cannot use it may put it     *)
(* back, and once it has been started, or is gone, it never returns.        *)
(* Delivery is at most once: an envelope may be lost on its way.            *)
(***************************************************************************)
CONSTANT Jobs

VARIABLES
    place,    \* job -> "unborn", "handler", "list", "worker" or "gone"
    started   \* jobs a worker of their type has taken up

deliveryVars == <<place, started>>

DeliveryInit == place = [j \in Jobs |-> "unborn"] /\ started = {}

Accept(j) ==
    /\ place[j] = "unborn" /\ place' = [place EXCEPT ![j] = "handler"]
    /\ UNCHANGED started

HandOver(j) ==
    /\ place[j] = "handler" /\ place' = [place EXCEPT ![j] = "list"]
    /\ UNCHANGED started

\* A worker takes it, and starts it if it is of its type.
Take(j) ==
    /\ place[j] = "list" /\ place' = [place EXCEPT ![j] = "worker"]
    /\ started' \in {started, started \cup {j}}

PutBack(j) ==
    /\ place[j] = "worker" /\ j \notin started
    /\ place' = [place EXCEPT ![j] = "list"]
    /\ UNCHANGED started

\* The work of some ends, or they are lost with a handler or a worker; what is
\* in the list is never lost.
Leave(js) ==
    /\ \A j \in js : place[j] \in {"handler", "worker"}
    /\ place' = [j \in Jobs |-> IF j \in js THEN "gone" ELSE place[j]]
    /\ UNCHANGED started

DeliveryNext ==
    \/ \E j \in Jobs : Accept(j) \/ HandOver(j) \/ Take(j) \/ PutBack(j)
    \/ \E js \in SUBSET Jobs : Leave(js)

DeliverySpec == DeliveryInit /\ [][DeliveryNext]_deliveryVars
=============================================================================
