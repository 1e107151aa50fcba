--------------------------- MODULE MCControlPlane ---------------------------
(* An instance for TLC of the transport of the desktop, of what the control plane    *)
(* and the training worker do with the requests it carries, and of the start of the  *)
(* control plane.  They share no state: a behaviour is one of a single component,    *)
(* the part, and the others rest.                                                    *)
EXTENDS ApiTransport, MCTraining, RunArtifacts, Deployments, StrategyControl, Alerts,
        SchemaStartup, GraphView, TLC

CONSTANTS c1, c2, r1, j1, j2

VARIABLE part

-----------------------------------------------------------------------------
\* Two jobs of one run, or of a run under two types; and the ladder and windows of alerts,
\* scaled down.
MCBacktest == <<r1, "backtest">>
MCSweep == <<r1, "parameter_sweep">>
MCRunMaps == {j1 :> MCBacktest @@ j2 :> MCBacktest, j1 :> MCBacktest @@ j2 :> MCSweep}
MCRunIds == <<"b1", "b2">>
MCLadder == <<1, 1, 2>>
MCWindows == [l \in {"warning", "critical"} |-> IF l = "warning" THEN 1 ELSE 2]

-----------------------------------------------------------------------------
controlVars ==
    <<part, vars, pipelineVars, admissionVars, qualificationVars, splitVars, artifactVars,
      deploymentVars, strategyVars, alertVars, schemaVars, graphVars>>

\* What a component starts from is chosen only where it is the part.
ControlInit ==
    /\ part \in {"transport", "training", "admission", "models", "splits", "artifacts",
                 "deployments", "strategies", "alerts", "schema", "graph"}
    /\ Init /\ AdmissionInit /\ QualificationInit /\ DeploymentsInit /\ StrategyInit
    /\ AlertsInit
    /\ PipelineInit /\ (part # "training" => payload = GoodTraining)
    /\ SplitInit
    /\ part # "splits" => work = "walk" /\ given = CHOOSE w \in MCWalkInputs : TRUE
    /\ ArtifactInit /\ (part # "artifacts" => prod /\ runOf = j1 :> MCBacktest @@ j2 :> MCBacktest)
    /\ SchemaInit /\ (part # "schema" => madeBy = "nobody")
    /\ GraphInit /\ (part # "graph" => enforced)

ControlNext ==
    /\ UNCHANGED part
    /\ \/ /\ part = "transport" /\ Next
          /\ UNCHANGED <<pipelineVars, admissionVars, qualificationVars, splitVars, artifactVars,
                         deploymentVars, strategyVars, alertVars, schemaVars, graphVars>>
       \/ /\ part = "training" /\ PipelineNext
          /\ UNCHANGED <<vars, admissionVars, qualificationVars, splitVars, artifactVars,
                         deploymentVars, strategyVars, alertVars, schemaVars, graphVars>>
       \/ /\ part = "admission" /\ AdmissionNext
          /\ UNCHANGED <<vars, pipelineVars, qualificationVars, splitVars, artifactVars,
                         deploymentVars, strategyVars, alertVars, schemaVars, graphVars>>
       \/ /\ part = "models" /\ QualificationNext
          /\ UNCHANGED <<vars, pipelineVars, admissionVars, splitVars, artifactVars,
                         deploymentVars, strategyVars, alertVars, schemaVars, graphVars>>
       \/ /\ part = "splits" /\ SplitNext
          /\ UNCHANGED <<vars, pipelineVars, admissionVars, qualificationVars, artifactVars,
                         deploymentVars, strategyVars, alertVars, schemaVars, graphVars>>
       \/ /\ part = "artifacts" /\ ArtifactNext
          /\ UNCHANGED <<vars, pipelineVars, admissionVars, qualificationVars, splitVars,
                         deploymentVars, strategyVars, alertVars, schemaVars, graphVars>>
       \/ /\ part = "deployments" /\ DeploymentsNext
          /\ UNCHANGED <<vars, pipelineVars, admissionVars, qualificationVars, splitVars,
                         artifactVars, strategyVars, alertVars, schemaVars, graphVars>>
       \/ /\ part = "strategies" /\ StrategyNext
          /\ UNCHANGED <<vars, pipelineVars, admissionVars, qualificationVars, splitVars,
                         artifactVars, deploymentVars, alertVars, schemaVars, graphVars>>
       \/ /\ part = "alerts" /\ AlertsNext
          /\ UNCHANGED <<vars, pipelineVars, admissionVars, qualificationVars, splitVars,
                         artifactVars, deploymentVars, strategyVars, schemaVars, graphVars>>
       \/ /\ part = "schema" /\ SchemaNext
          /\ UNCHANGED <<vars, pipelineVars, admissionVars, qualificationVars, splitVars,
                         artifactVars, deploymentVars, strategyVars, alertVars, graphVars>>
       \/ /\ part = "graph" /\ GraphNext
          /\ UNCHANGED <<vars, pipelineVars, admissionVars, qualificationVars, splitVars,
                         artifactVars, deploymentVars, strategyVars, alertVars, schemaVars>>

ControlFairness ==
    /\ \A d \in Calls : WF_vars(part = "transport" /\ Step(d))
    /\ WF_vars(part = "transport" /\ \E d \in Calls, k \in Kinds : Begin(d, k))
    /\ WF_vars(part = "transport" /\ Tick)
    /\ \A p \in Apis : WF_schemaVars(part = "schema" /\ Boot(p))
    /\ \A c \in Callers : WF_graphVars(part = "graph" /\ Seed(c))

ControlSpec == ControlInit /\ [][ControlNext]_controlVars /\ ControlFairness
=============================================================================
