----------------------------- MODULE MCJobPage -----------------------------
(* An instance for TLC of what an operator does with jobs, without faults, and of    *)
(* the page on which the operator follows one.  A behaviour is one of a single       *)
(* component, the part, and the other rests.                                         *)
EXTENDS MCJobLifecycle, TopicStream

VARIABLE part

jobPageVars == <<part, vars, streamVars>>

JobPageInit ==
    /\ part \in {"jobs", "page"}
    /\ Init /\ StreamInit

JobPageNext ==
    /\ UNCHANGED part
    /\ \/ part = "jobs" /\ Next /\ UNCHANGED streamVars
       \/ part = "page" /\ StreamNext /\ UNCHANGED vars

JobPageSpec == JobPageInit /\ [][JobPageNext]_jobPageVars
=============================================================================
