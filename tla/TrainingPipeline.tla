-------------------------- MODULE TrainingPipeline --------------------------
(***************************************************************************)
(* What a training worker does with one job: the stages of                  *)
(* run_training_pipeline under the time limit of handle_with_timeout, the   *)
(* lineage gate, the artifact files, and the events it posts.  An envelope  *)
(* is popped at most once and a retry is another job (JobDelivery), so the  *)
(* attempt counter is 1 and the directory, which has the job's id, its own. *)
(*                                                                         *)
(* The worker awaits each post, in a thread of its own that gives up after *)
(* three seconds; the request given up on may still be carried out.         *)
(***************************************************************************)
EXTENDS Integers, FiniteSets, Sequences, SequencesExt

CONSTANTS
    TrainPayloads,   \* job payloads: what the stages can tell apart
    MaxGivenUp,      \* bound: posts whose thread gives up before they are carried out
    MaxFailedPosts   \* bound: posts that fail

ASSUME PipelineConstants == {MaxGivenUp, MaxFailedPosts} \subseteq Nat

Roles == {"model", "diagnostics", "metadata", "metrics_parquet"}
NoPost == 0

VARIABLES
    payload,      \* the job's payload
    stage,        \* the stage last announced, or what the worker does next
    posts,        \* the statuses posted, in the order the worker began to
    awaited,      \* the post whose answer the worker awaits
    flying,       \* posts on their way to the control plane
    arrived,      \* posts in the order the control plane carried them out
    disk,         \* roles with a file in the job's directory
    reason,       \* why the last failure was posted
    sealed,       \* roles the artifact_manifest of the success describes
    abandoned     \* history: posts the worker went on without an answer to

pipelineVars ==
    <<payload, stage, posts, awaited, flying, arrived, disk, reason, sealed, abandoned>>

-----------------------------------------------------------------------------
(* The lineage gate: the first check that fails names the reason. *)

\* The digest in the lineage agrees with the one the gate computes when it was
\* taken of the whole request, the lineage with that digest included.
ConfigAgrees(p) == p.digestOf = "whole_request"

GateError(p) ==
    IF ~p.hasLineage THEN "missing_lineage"
    ELSE IF ~p.hasSeed THEN "missing_seed"
    ELSE IF ~p.datasetAgrees THEN "dataset_fingerprint_mismatch"
    ELSE IF ~p.codeAgrees THEN "code_hash_mismatch"
    ELSE IF ~ConfigAgrees(p) THEN "config_digest_mismatch"
    ELSE IF ~p.seedAgrees THEN "seed_mismatch"
    ELSE "none"

PipelineInit ==
    /\ payload \in TrainPayloads
    /\ stage = "queued"
    /\ posts = <<>> /\ awaited = NoPost /\ flying = {} /\ arrived = <<>>
    /\ disk = {} /\ reason = "none" /\ sealed = {}
    /\ abandoned = {}

\* The coroutine runs on once the post it awaits is answered or has failed.
Resumed(at) == stage = at /\ awaited = NoPost

\* persist_event: the next post starts, and the worker awaits it.
Post(status) ==
    /\ posts' = Append(posts, status)
    /\ awaited' = Len(posts) + 1
    /\ flying' = flying \cup {Len(posts) + 1}
    /\ UNCHANGED <<payload, arrived>>

PostsUnchanged == UNCHANGED <<payload, posts, awaited, flying, arrived, abandoned>>
FilesUnchanged == UNCHANGED <<disk, sealed>>

\* _emit of a stage: RUNNING.
Announce(next) ==
    /\ Post("running") /\ stage' = next
    /\ UNCHANGED <<reason, abandoned>>

\* The pipeline ends with a failure of its own, whose post it awaits.
Fail(why) ==
    /\ Post("failed") /\ stage' = "answered"
    /\ reason' = why
    /\ UNCHANGED abandoned

\* handle_with_timeout catches what ended the pipeline and posts the failure itself,
\* outside the limit; a post that was being awaited goes its own way.
Catch(why) ==
    /\ Post("failed") /\ stage' = "caught"
    /\ reason' = why
    /\ abandoned' = abandoned \cup ({awaited} \ {NoPost})

-----------------------------------------------------------------------------
(* The posts. *)

Resume(k) == awaited' = IF awaited = k THEN NoPost ELSE awaited

\* The control plane carries the request out; the worker's thread gets an answer.
PostArrives(k) ==
    /\ k \in flying
    /\ flying' = flying \ {k}
    /\ arrived' = Append(arrived, k)
    /\ Resume(k)
    /\ UNCHANGED <<payload, stage, posts, reason, abandoned>> /\ FilesUnchanged

\* post_event swallows the error.
PostFails(k) ==
    /\ k \in flying
    /\ Len(posts) - Len(arrived) - Cardinality(flying) < MaxFailedPosts
    /\ flying' = flying \ {k}
    /\ Resume(k)
    /\ UNCHANGED <<payload, stage, posts, arrived, reason, abandoned>> /\ FilesUnchanged

\* urlopen's own limit: the worker runs on, the request is still under way.
PostGivenUp ==
    /\ awaited # NoPost /\ Cardinality(abandoned) < MaxGivenUp
    /\ awaited' = NoPost
    /\ abandoned' = abandoned \cup {awaited}
    /\ UNCHANGED <<payload, stage, posts, flying, arrived, reason>> /\ FilesUnchanged

-----------------------------------------------------------------------------
(* run_training_pipeline, one action from one await to the next. *)

LoadIntent ==
    /\ stage = "queued"
    /\ Announce("load_intent")
    /\ FilesUnchanged

\* The payload is parsed once load_intent was posted.
ParsePayload ==
    /\ Resumed("load_intent")
    /\ IF payload.wellFormed THEN Announce("preflight") ELSE Catch("exception")
    /\ FilesUnchanged

\* Mutant of Preflight: no return after the failure is posted.
PreflightGoesOn ==
    /\ Resumed("preflight")
    /\ IF GateError(payload) = "none" \/ reason # "none"
       THEN Announce("qualify_dataset")
       ELSE Post("failed") /\ reason' = GateError(payload) /\ UNCHANGED <<stage, abandoned>>
    /\ FilesUnchanged

Preflight ==
    /\ Resumed("preflight")
    /\ IF GateError(payload) = "none" THEN Announce("qualify_dataset") ELSE Fail(GateError(payload))
    /\ FilesUnchanged

\* ensure_data_ready asks for what is missing and waits for nothing: a call of it that
\* fails is not noticed (DataRequests models the other end).
EnsureDataReady ==
    /\ Resumed("qualify_dataset")
    /\ Announce("materialize_splits")
    /\ FilesUnchanged

MaterializeSplits ==
    /\ Resumed("materialize_splits")
    /\ Announce("fit_predict")
    /\ FilesUnchanged

\* No adapter for the family or the capability: an error artifact and FAILED.
FitPredict ==
    /\ Resumed("fit_predict")
    /\ IF payload.adapter
       THEN stage' = "write_model" /\ UNCHANGED reason /\ PostsUnchanged
       ELSE Fail("adapter")
    /\ FilesUnchanged

\* What write_mock_artifacts writes at a stage, and where it goes from there.
Writing ==
    [write_model |-> [role |-> "model", next |-> "write_diagnostics"],
     write_diagnostics |-> [role |-> "diagnostics", next |-> "write_metadata"],
     write_metadata |-> [role |-> "metadata", next |-> "write_metrics_parquet"],
     write_metrics_parquet |-> [role |-> "metrics_parquet", next |-> "written"]]

WriteArtifact ==
    /\ stage \in DOMAIN Writing
    /\ disk' = disk \cup {Writing[stage].role}
    /\ stage' = Writing[stage].next
    /\ UNCHANGED <<reason, sealed>> /\ PostsUnchanged

\* Without pyarrow there is no parquet file.
NoParquet ==
    /\ stage = "write_metrics_parquet"
    /\ stage' = "written"
    /\ UNCHANGED reason /\ PostsUnchanged /\ FilesUnchanged

Evaluate ==
    /\ Resumed("written")
    /\ Announce("evaluate")
    /\ FilesUnchanged

PersistArtifacts ==
    /\ Resumed("evaluate")
    /\ Announce("persist_artifacts")
    /\ FilesUnchanged

\* The manifest hashes the files of all required roles, or there is none.
SealManifest ==
    /\ Resumed("persist_artifacts")
    /\ IF disk = Roles
       THEN /\ Post("success") /\ stage' = "answered"
            /\ sealed' = disk
            /\ UNCHANGED <<reason, abandoned>>
       ELSE Fail("artifact_set_incomplete") /\ UNCHANGED sealed
    /\ UNCHANGED disk

Return ==
    /\ Resumed("answered") \/ Resumed("caught")
    /\ stage' = "over"
    /\ UNCHANGED reason /\ PostsUnchanged /\ FilesUnchanged

\* The files are written without an await.
UnderLimit == {"load_intent", "preflight", "qualify_dataset", "materialize_splits", "fit_predict",
               "written", "evaluate", "persist_artifacts", "answered"}

\* wait_for cancels at an await: that of a post, or of the state in Redis before it.
TimeOut ==
    /\ stage \in UnderLimit
    /\ Catch("timeout")
    /\ FilesUnchanged

\* Redis, the disk, or an answer of the control plane that does not validate raises; what
\* post_event raises does not come out of it.
Raises ==
    /\ stage \in (UnderLimit \ {"answered"}) \cup DOMAIN Writing
    /\ awaited = NoPost
    /\ Catch("exception")
    /\ FilesUnchanged

WorkerDies ==
    /\ stage \notin {"queued", "over", "dead"}
    /\ stage' = "dead" /\ awaited' = NoPost
    /\ abandoned' = abandoned \cup ({awaited} \ {NoPost})
    /\ UNCHANGED <<payload, posts, flying, arrived, reason>> /\ FilesUnchanged

PipelineNext ==
    \/ \E k \in flying : PostArrives(k) \/ PostFails(k)
    \/ PostGivenUp
    \/ LoadIntent \/ ParsePayload \/ Preflight \/ EnsureDataReady \/ MaterializeSplits
    \/ FitPredict \/ WriteArtifact \/ NoParquet
    \/ Evaluate \/ PersistArtifacts \/ SealManifest \/ Return
    \/ TimeOut \/ Raises \/ WorkerDies

PipelineSpec == PipelineInit /\ [][PipelineNext]_pipelineVars

-----------------------------------------------------------------------------
Verdicts == {"success", "failed"}

\* Types; posts on their way and carried out are numbers of posts.
PipelineTypeOK ==
    /\ payload \in TrainPayloads
    /\ posts \in Seq({"running"} \cup Verdicts)
    /\ flying \subseteq DOMAIN posts /\ ToSet(arrived) \subseteq DOMAIN posts
    /\ awaited \in {NoPost} \cup flying
    /\ disk \subseteq Roles /\ sealed \subseteq Roles

\* After its verdict the worker posts nothing more about a job, but for one failure when
\* the time limit strikes while that verdict's own post is awaited, inside wait_for: a job
\* can get success and then failed, or failed twice (pipeline.py:148, 181, 195, 214 and
\* main.py:196-202).
OneVerdict ==
    \A i \in DOMAIN posts : posts[i] \in Verdicts =>
        \/ i = Len(posts)
        \/ i + 1 = Len(posts) /\ posts[i + 1] = "failed" /\ reason = "timeout"

\* Whatever raised or ran out of time, a worker that goes on to the next job has posted a
\* verdict about this one (main.py:190-202).
NeverSilent ==
    stage = "over" => posts # <<>> /\ posts[Len(posts)] \in Verdicts

\* A success, however late it arrives, describes four files that this execution wrote and
\* that are still there when a timeout says failed after it (pipeline.py:186-214).
SuccessBacked ==
    "success" \in ToSet(posts) => disk = Roles /\ sealed = Roles

\* Nothing of a job whose lineage the gate refuses ever reaches the disk, and it never
\* succeeds (pipeline.py:145-149).
GateBeforeArtifacts ==
    GateError(payload) # "none" => disk = {} /\ "success" \notin ToSet(posts)

\* The control plane carries the posts out in their order, but for those the worker went
\* on without: only these may come after a later one, a RUNNING or even the verdict after
\* the failure of a timeout (main.py:376-428 awaits each post; the thread of asyncio.to_thread
\* outlives the cancelled await).
LateOnlyAbandoned ==
    \A i, j \in DOMAIN arrived : i < j /\ arrived[i] > arrived[j] => arrived[j] \in abandoned

\* An attempt is told as it went: one verdict, backed by its files and by the gate, in order
\* but for what the worker did not wait for.
AttemptsClean ==
    /\ PipelineTypeOK
    /\ OneVerdict
    /\ NeverSilent
    /\ SuccessBacked
    /\ GateBeforeArtifacts
    /\ LateOnlyAbandoned

\* test_worker_training_orchestration_flow.py:44-77: a payload with an explicit
\* seed and the lineage computed from it, config_digest being the digest of the
\* payload it is added to, is not refused by the gate.
MatchingLineageAccepted == reason # "config_digest_mismatch"
=============================================================================
