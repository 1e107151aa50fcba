--------------------------- MODULE MCLiveUpdates ---------------------------
(* An instance for TLC of what brings a job to its end and its events to the         *)
(* desktop, under fairness: the job lifecycle, and the topic stream with its replay. *)
(* A behaviour is one of a single component, the part, and the other rests.          *)
EXTENDS MCJobLifecycle, MCWsReplay

VARIABLE part

liveVars == <<part, vars, wsVars>>

LiveInit ==
    /\ part \in {"jobs", "stream"}
    /\ Init /\ WsInit

LiveNext ==
    /\ UNCHANGED part
    /\ \/ part = "jobs" /\ Next /\ UNCHANGED wsVars
       \/ part = "stream" /\ WsNext /\ UNCHANGED vars

\* The fairness of each component, while it is the part.
LiveFairness ==
    /\ WF_vars(part = "jobs" /\ \E c \in calls : Continue(c))
    /\ WF_vars(part = "jobs" /\ \E p \in posts : Deliver(p))
    /\ \A w \in Workers : WF_vars(part = "jobs" /\ WorkerStep(w))
    /\ \A c \in Clients :
         /\ WF_wsVars(part = "stream" /\ LiveSend(c))
         /\ WF_wsVars(part = "stream" /\ (Subscribe(c) \/ StartReplay(c) \/ ReplaySend(c)))
         /\ WF_wsVars(part = "stream" /\ ReaderStep(c))

LiveUpdatesSpec == LiveInit /\ [][LiveNext]_liveVars /\ LiveFairness
=============================================================================
