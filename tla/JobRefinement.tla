--------------------------- MODULE JobRefinement ---------------------------
(***************************************************************************)
(* JobLifecycle implements JobDelivery: where an envelope is follows from  *)
(* the handlers that wait for a push, the Redis list and the workers' loops *)
(* alone; what was started follows from the attempt counters in Redis.      *)
(***************************************************************************)
EXTENDS JobLifecycle

PlaceOf(j) ==
    IF Pushing(j) THEN "handler"
    ELSE IF InQueue(j) THEN "list"
    ELSE IF \E w \in Workers : HeldBy(w, j) THEN "worker"
    ELSE IF jobType[j] = "none" THEN "unborn" ELSE "gone"

Delivery == INSTANCE JobDelivery WITH
    place <- [j \in Jobs |-> PlaceOf(j)],
    started <- {j \in Jobs : attempts[j] > 0}

\* Crashes, restarts, lost pushes, retries and workers that requeue each other's
\* jobs included, the job system delivers an envelope at most once: every step
\* of it is a step of JobDelivery or leaves the envelopes where they are.
DeliversAtMostOnce == Delivery!DeliverySpec
=============================================================================
