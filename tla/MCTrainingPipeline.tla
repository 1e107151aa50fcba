------------------------- MODULE MCTrainingPipeline -------------------------
(* Instances of TrainingPipeline for TLC. *)
EXTENDS TrainingPipeline

-----------------------------------------------------------------------------
(* A payload every stage accepts, and one for each way to fall short.  The digest of *)
(* the first is one of the request it stands in: no SHA-256 agrees with that, and it *)
(* stands for a repaired gate, so that the stages behind the gate are checked too.   *)

GoodTraining ==
    [wellFormed |-> TRUE, hasLineage |-> TRUE, hasSeed |-> TRUE, datasetAgrees |-> TRUE,
     codeAgrees |-> TRUE, digestOf |-> "whole_request", seedAgrees |-> TRUE, adapter |-> TRUE]

MCTrainPayloads ==
    {GoodTraining, [GoodTraining EXCEPT !.hasSeed = FALSE],
     [GoodTraining EXCEPT !.adapter = FALSE], [GoodTraining EXCEPT !.wellFormed = FALSE],
     [GoodTraining EXCEPT !.digestOf = "payload"]}
=============================================================================
