----------------------------- MODULE Deployments -----------------------------
(***************************************************************************)
(* Model deployments of the control plane.  A create, activate or           *)
(* deactivate changes the deployment and publishes on topic "models" in one *)
(* step, then awaits the subscribers, and after that writes the log event   *)
(* and answers from the deployment as it is by then: other requests may     *)
(* have changed it.                                                        *)
(***************************************************************************)
EXTENDS Integers, Sequences, FiniteSets

CONSTANTS MaxDeployments,    \* bound: deployments made
          MaxModelEvents     \* bound: events on topic "models"

ASSUME DeploymentConstants == MaxDeployments \in Nat /\ MaxModelEvents \in Nat

VARIABLES
    deployed,      \* id -> status
    modelTopic,    \* events on topic "models", [deployment, previous, status]
    modelLog,      \* events of the deployments on topic "logs", [deployment, status]
    telling        \* numbers of the events whose handler awaits the subscribers

deploymentVars == <<deployed, modelTopic, modelLog, telling>>

DeployStatuses == {"deploying", "active", "inactive"}
ModelEvents == [deployment : Nat, previous : DeployStatuses \cup {"none"}, status : DeployStatuses]

DeploymentsInit == deployed = <<>> /\ modelTopic = <<>> /\ modelLog = <<>> /\ telling = {}

-----------------------------------------------------------------------------
\* _broadcast_model_event up to its first await.
Broadcast(d, previous) ==
    /\ Len(modelTopic) < MaxModelEvents
    /\ modelTopic' = Append(modelTopic,
                            [deployment |-> d, previous |-> previous, status |-> deployed'[d]])
    /\ telling' = telling \cup {Len(modelTopic) + 1}
    /\ UNCHANGED modelLog

CreateDeployment ==
    /\ Len(deployed) < MaxDeployments
    /\ deployed' = Append(deployed, "deploying")
    /\ Broadcast(Len(deployed) + 1, "none")

\* Mutant of MoveTo: the previous status is read after the change.
MoveReadsLate(d, status) ==
    /\ deployed[d] # status
    /\ deployed' = [deployed EXCEPT ![d] = status]
    /\ Broadcast(d, status)

\* One that already has the status is answered 409.
MoveTo(d, status) ==
    /\ deployed[d] # status
    /\ deployed' = [deployed EXCEPT ![d] = status]
    /\ Broadcast(d, deployed[d])

Activate(d) == MoveTo(d, "active")
Deactivate(d) == MoveTo(d, "inactive")

\* The rest of the handler, the answer with the same status included.
TellLog(n) ==
    /\ modelLog' = Append(modelLog, [deployment |-> modelTopic[n].deployment,
                                     status |-> deployed[modelTopic[n].deployment]])
    /\ telling' = telling \ {n}
    /\ UNCHANGED <<deployed, modelTopic>>

DeploymentsNext ==
    \/ CreateDeployment
    \/ \E d \in DOMAIN deployed : Activate(d) \/ Deactivate(d)
    \/ \E n \in telling : TellLog(n)

DeploymentsSpec == DeploymentsInit /\ [][DeploymentsNext]_deploymentVars

-----------------------------------------------------------------------------
\* The positions of a deployment before the k-th event, and whether it comes again after it.
EarlierOf(events, k) == {i \in 1 .. k - 1 : events[i].deployment = events[k].deployment}
LastOf(events, d, k) ==
    /\ k \in DOMAIN events /\ events[k].deployment = d
    /\ \A i \in k + 1 .. Len(events) : events[i].deployment # d

\* A subscriber of topic "models" can follow each deployment from its creation:
\* every event starts from the status the one before it ended in, and the last
\* one is the status the deployment has.
ModelChainUnbroken ==
    /\ \A k \in DOMAIN modelTopic :
        LET e == modelTopic[k]
            earlier == EarlierOf(modelTopic, k)
        IN  IF earlier = {} THEN e.previous = "none" /\ e.status = "deploying"
            ELSE \E i \in earlier : /\ \A m \in earlier : m <= i
                                    /\ e.previous = modelTopic[i].status /\ e.status # e.previous
    /\ \A d \in DOMAIN deployed :
        \E k \in DOMAIN modelTopic : LastOf(modelTopic, d, k) /\ modelTopic[k].status = deployed[d]

\* When no handler awaits, the last log event of a deployment tells its status,
\* in whatever order the handlers went on.
LogEndsCurrent ==
    telling = {} =>
        \A d \in DOMAIN deployed :
            \E k \in DOMAIN modelLog : LastOf(modelLog, d, k) /\ modelLog[k].status = deployed[d]

\* The status of a deployment can be followed: on the topic step by step, and in the log
\* up to its present status, whatever handlers overlap.
StatusTraceable ==
    /\ ModelChainUnbroken
    /\ LogEndsCurrent
=============================================================================
