\* A payload whose lineage is the one a client can compute.
CONSTANTS
    TrainPayloads <- MCTrainPayloads
    MaxGivenUp = 0
    MaxFailedPosts = 0
SPECIFICATION PipelineSpec
INVARIANTS
    MatchingLineageAccepted
CHECK_DEADLOCK FALSE
