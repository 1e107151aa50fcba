------------------------ MODULE ControlPlane_proofs ------------------------
(***************************************************************************)
(* Proofs about the components of the control plane and its training       *)
(* worker: for each, an inductive invariant, the lemmas that one operation *)
(* needs, and the theorem that the property its run checks always holds.   *)
(***************************************************************************)
EXTENDS TrainingPipeline, BacktestAdmission, ModelQualification, RunArtifacts,
        Deployments, StrategyControl, Alerts, SchemaStartup, GraphView, DatasetSplits,
        FiniteSetTheorems, SequenceTheorems, WellFoundedInduction, TLAPS

-----------------------------------------------------------------------------
(* One attempt of the training pipeline. *)

PostStatuses == {"running"} \cup Verdicts
Ended == {"answered", "caught", "over", "dead"}
Unjudged == {"queued", "load_intent", "preflight"}
Judged == {"qualify_dataset", "materialize_splits", "fit_predict", "write_model",
           "write_diagnostics", "write_metadata", "write_metrics_parquet", "written",
           "evaluate", "persist_artifacts"}

PipelineTyped ==
    /\ payload \in TrainPayloads
    /\ stage \in Unjudged \cup Judged \cup Ended
    /\ posts \in Seq(PostStatuses)
    /\ awaited \in 0 .. Len(posts)
    /\ flying \subseteq 1 .. Len(posts)
    /\ arrived \in Seq(Nat) /\ \A i \in DOMAIN arrived : arrived[i] \in 1 .. Len(posts)
    /\ disk \subseteq Roles /\ sealed \subseteq Roles

\* The worker awaits its last post; it went on without all others that are under way.
FlightTrue ==
    /\ awaited # NoPost => awaited = Len(posts) /\ awaited \in flying
    /\ \A k \in flying : k \in abandoned \/ k = awaited

Said(x) == \E i \in DOMAIN posts : posts[i] = x

\* Until the pipeline ends it posts nothing but RUNNING; it ends with a verdict.
StoryTrue ==
    /\ OneVerdict
    /\ stage = "queued" => awaited = NoPost
    /\ stage \notin Ended => \A i \in DOMAIN posts : posts[i] = "running"
    /\ stage = "answered" => \A i \in DOMAIN posts : i # Len(posts) => posts[i] = "running"
    /\ stage \in {"answered", "caught", "over"} => posts # <<>> /\ posts[Len(posts)] \in Verdicts

BackedTrue ==
    /\ Said("success") => disk = Roles /\ sealed = Roles
    /\ GateError(payload) # "none" => stage \notin Judged /\ disk = {} /\ ~Said("success")

\* The inductive invariant.
PipelineInv ==
    /\ PipelineTyped
    /\ FlightTrue
    /\ LateOnlyAbandoned
    /\ StoryTrue
    /\ BackedTrue

\* Appending a status.
LEMMA OneMorePost ==
    ASSUME NEW s \in Seq(PostStatuses), NEW x \in PostStatuses, NEW t, t = Append(s, x)
    PROVE  /\ t \in Seq(PostStatuses)
           /\ Len(s) \in Nat /\ DOMAIN s = 1 .. Len(s)
           /\ Len(t) = Len(s) + 1 /\ DOMAIN t = 1 .. (Len(s) + 1) /\ t # <<>>
           /\ \A i \in 1 .. Len(s) : t[i] = s[i]
           /\ t[Len(s) + 1] = x
OBVIOUS

\* A post whose turn has come: what is under way and what has arrived stay told.
LEMMA PostKeepsFlight ==
    ASSUME PipelineInv, NEW x \in PostStatuses, Post(x),
           stage' \in Unjudged \cup Judged \cup Ended, disk' \subseteq Roles, sealed' \subseteq Roles,
           abandoned' = abandoned \cup ({awaited} \ {NoPost})
    PROVE  PipelineTyped' /\ FlightTrue' /\ LateOnlyAbandoned'
  <1>1. PICK n : n = Len(posts)
    OBVIOUS
  <1>2. /\ posts' = Append(posts, x) /\ awaited' = n + 1 /\ flying' = flying \cup {n + 1}
        /\ payload' = payload /\ arrived' = arrived
    BY <1>1 DEF Post
  <1>3. n \in Nat /\ posts' \in Seq(PostStatuses) /\ Len(posts') = n + 1
    BY <1>1, <1>2, OneMorePost DEF PipelineInv, PipelineTyped
  <1>4. PipelineTyped'
    <2>1. awaited' \in 0 .. Len(posts') /\ flying' \subseteq 1 .. Len(posts')
      <3>1. \A k \in flying : k \in 1 .. n
        BY <1>1 DEF PipelineInv, PipelineTyped
      <3>2. \A k \in flying' : k \in 1 .. (n + 1)
        BY <1>2, <1>3, <3>1
      <3> QED BY <1>2, <1>3, <3>2
    <2>2. arrived' \in Seq(Nat) /\ \A i \in DOMAIN arrived' : arrived'[i] \in 1 .. Len(posts')
      BY <1>1, <1>2, <1>3 DEF PipelineInv, PipelineTyped
    <2> QED BY <1>2, <1>3, <2>1, <2>2 DEF PipelineInv, PipelineTyped
  <1>5. FlightTrue'
    <2>1. \A k \in flying : k \in abandoned \/ (k = awaited /\ k # NoPost)
      BY DEF PipelineInv, PipelineTyped, FlightTrue, NoPost
    <2>2. \A k \in flying' : k \in abandoned' \/ k = awaited'
      BY <1>2, <2>1
    <2> QED BY <1>2, <1>3, <2>2 DEF FlightTrue
  <1>6. LateOnlyAbandoned'
    BY <1>2 DEF PipelineInv, LateOnlyAbandoned
  <1> QED BY <1>4, <1>5, <1>6

\* A stage announced.
LEMMA AnnounceKeeps ==
    ASSUME PipelineInv, NEW next \in Unjudged \cup Judged, Announce(next), next # "queued",
           stage \notin Ended, awaited = NoPost, FilesUnchanged,
           next \in Judged => GateError(payload) = "none"
    PROVE  PipelineInv'
  <1>1. /\ Post("running") /\ stage' = next /\ UNCHANGED <<reason, abandoned, disk, sealed>>
    BY DEF Announce, FilesUnchanged
  <1>2. "running" \in PostStatuses
    BY DEF PostStatuses
  <1>3. PipelineTyped' /\ FlightTrue' /\ LateOnlyAbandoned'
    <2>1. disk \subseteq Roles /\ sealed \subseteq Roles
      BY DEF PipelineInv, PipelineTyped
    <2> QED BY <1>1, <1>2, <2>1, PostKeepsFlight
  <1>4. PICK n : n = Len(posts)
    OBVIOUS
  <1>5. /\ n \in Nat /\ DOMAIN posts = 1 .. n /\ DOMAIN posts' = 1 .. (n + 1)
        /\ \A i \in 1 .. n : posts'[i] = posts[i]
        /\ posts'[n + 1] = "running"
    BY <1>1, <1>2, <1>4, OneMorePost DEF Post, PipelineInv, PipelineTyped
  <1>6. \A i \in DOMAIN posts' : posts'[i] = "running"
    BY <1>5 DEF PipelineInv, StoryTrue
  <1>7. stage' \notin Ended
    BY <1>1 DEF Unjudged, Judged, Ended
  <1>8. StoryTrue'
    BY <1>1, <1>6, <1>7 DEF StoryTrue, OneVerdict, Verdicts, Ended
  <1>9. BackedTrue'
    <2>1. ~Said("success")'
      BY <1>6 DEF Said
    <2>2. payload' = payload
      BY <1>1 DEF Post
    <2> QED BY <1>1, <2>1, <2>2 DEF PipelineInv, BackedTrue
  <1> QED BY <1>3, <1>8, <1>9 DEF PipelineInv

\* The pipeline's own verdict.
LEMMA VerdictKeeps ==
    ASSUME PipelineInv, NEW x \in Verdicts, Post(x), stage' = "answered", stage \notin Ended,
           awaited = NoPost, abandoned' = abandoned, disk' = disk,
           sealed' = IF x = "success" THEN disk ELSE sealed,
           x = "success" => disk = Roles /\ GateError(payload) = "none"
    PROVE  PipelineInv'
  <1>1. x \in PostStatuses
    BY DEF PostStatuses
  <1>2. PipelineTyped' /\ FlightTrue' /\ LateOnlyAbandoned'
    <2>1. disk' \subseteq Roles /\ sealed' \subseteq Roles
      BY DEF PipelineInv, PipelineTyped
    <2>2. stage' \in Unjudged \cup Judged \cup Ended
      BY DEF Ended
    <2> QED BY <1>1, <2>1, <2>2, PostKeepsFlight
  <1>3. PICK n : n = Len(posts)
    OBVIOUS
  <1>4. /\ n \in Nat /\ DOMAIN posts = 1 .. n /\ DOMAIN posts' = 1 .. (n + 1) /\ Len(posts') = n + 1
        /\ \A i \in 1 .. n : posts'[i] = posts[i]
        /\ posts'[n + 1] = x /\ posts' # <<>>
    BY <1>1, <1>3, OneMorePost DEF Post, PipelineInv, PipelineTyped
  <1>5. \A i \in DOMAIN posts' : i # n + 1 => posts'[i] = "running"
    BY <1>4 DEF PipelineInv, StoryTrue
  <1>6. StoryTrue'
    <2>1. OneVerdict'
      BY <1>4, <1>5 DEF OneVerdict, Verdicts
    <2> QED BY <1>4, <1>5, <2>1 DEF StoryTrue, Ended
  <1>7. BackedTrue'
    <2>1. Said("success")' => x = "success"
      BY <1>4, <1>5 DEF Said
    <2>2. payload' = payload /\ stage' \notin Judged
      BY DEF Post, Judged
    <2> QED BY <2>1, <2>2 DEF PipelineInv, BackedTrue
  <1> QED BY <1>2, <1>6, <1>7 DEF PipelineInv

\* The handler's verdict about what ended the pipeline.
LEMMA CatchKeeps ==
    ASSUME PipelineInv, NEW why, Catch(why), FilesUnchanged,
           stage \notin Ended \/ (stage = "answered" /\ why = "timeout")
    PROVE  PipelineInv'
  <1>1. /\ Post("failed") /\ stage' = "caught" /\ reason' = why /\ UNCHANGED <<disk, sealed>>
        /\ abandoned' = abandoned \cup ({awaited} \ {NoPost})
    BY DEF Catch, FilesUnchanged
  <1>2. "failed" \in PostStatuses /\ "failed" \in Verdicts
    BY DEF PostStatuses, Verdicts
  <1>3. PipelineTyped' /\ FlightTrue' /\ LateOnlyAbandoned'
    <2>1. disk' \subseteq Roles /\ sealed' \subseteq Roles
      BY <1>1 DEF PipelineInv, PipelineTyped
    <2>2. stage' \in Unjudged \cup Judged \cup Ended
      BY <1>1 DEF Ended
    <2> QED BY <1>1, <1>2, <2>1, <2>2, PostKeepsFlight
  <1>4. PICK n : n = Len(posts)
    OBVIOUS
  <1>5. /\ n \in Nat /\ DOMAIN posts = 1 .. n /\ DOMAIN posts' = 1 .. (n + 1) /\ Len(posts') = n + 1
        /\ \A i \in 1 .. n : posts'[i] = posts[i]
        /\ posts'[n + 1] = "failed" /\ posts' # <<>>
    BY <1>1, <1>2, <1>4, OneMorePost DEF Post, PipelineInv, PipelineTyped
  <1>6. \A i \in 1 .. n : posts[i] = "running" \/ (i = n /\ why = "timeout")
    BY <1>4, <1>5 DEF PipelineInv, StoryTrue
  <1>7. StoryTrue'
    <2>1. OneVerdict'
      <3>1. ASSUME NEW i \in DOMAIN posts', posts'[i] \in Verdicts
            PROVE  i = n + 1 \/ (i + 1 = n + 1 /\ why = "timeout")
        <4>1. CASE i = n + 1
          BY <4>1
        <4>2. CASE i # n + 1
          <5>1. i \in 1 .. n /\ posts[i] # "running"
            BY <1>5, <3>1, <4>2 DEF Verdicts
          <5> QED BY <1>6, <5>1
        <4> QED BY <4>1, <4>2
      <3> QED BY <1>1, <1>5, <3>1 DEF OneVerdict
    <2>2. stage' = "caught" /\ stage' \in Ended
      BY <1>1 DEF Ended
    <2> QED BY <1>2, <1>5, <2>1, <2>2 DEF StoryTrue
  <1>8. BackedTrue'
    <2>1. Said("success")' => Said("success")
      BY <1>5 DEF Said
    <2>2. payload' = payload /\ stage' \notin Judged
      BY <1>1 DEF Post, Judged
    <2> QED BY <1>1, <2>1, <2>2 DEF PipelineInv, BackedTrue
  <1> QED BY <1>3, <1>7, <1>8 DEF PipelineInv

\* A post that arrives or fails.
LEMMA AnswerKeeps ==
    ASSUME PipelineInv, NEW k \in flying, PostArrives(k) \/ PostFails(k)
    PROVE  PipelineInv'
  <1>1. /\ flying' = flying \ {k} /\ awaited' = IF awaited = k THEN NoPost ELSE awaited
        /\ UNCHANGED <<payload, stage, posts, reason, abandoned, disk, sealed>>
        /\ arrived' = Append(arrived, k) \/ arrived' = arrived
    BY DEF PostArrives, PostFails, Resume, FilesUnchanged
  <1>2. PICK n : n = Len(posts) /\ n \in Nat
    BY DEF PipelineInv, PipelineTyped
  <1>3. k \in 1 .. n /\ (k \in abandoned \/ k = n)
    BY <1>2 DEF PipelineInv, PipelineTyped, FlightTrue, NoPost
  <1>4. PipelineTyped' /\ LateOnlyAbandoned'
    <2>1. CASE arrived' = arrived
      BY <1>1, <2>1 DEF PipelineInv, PipelineTyped, LateOnlyAbandoned, NoPost
    <2>2. CASE arrived' = Append(arrived, k)
      <3>1. PICK m : m = Len(arrived) /\ m \in Nat
        BY DEF PipelineInv, PipelineTyped
      <3>2. /\ arrived' \in Seq(Nat) /\ DOMAIN arrived = 1 .. m /\ DOMAIN arrived' = 1 .. (m + 1)
            /\ \A i \in 1 .. m : arrived'[i] = arrived[i]
            /\ arrived'[m + 1] = k
        BY <1>3, <2>2, <3>1 DEF PipelineInv, PipelineTyped
      <3>3. \A i \in DOMAIN arrived' : arrived'[i] \in 1 .. n
        <4>1. \A i \in 1 .. m : arrived[i] \in 1 .. n
          BY <1>2, <3>2 DEF PipelineInv, PipelineTyped
        <4> QED BY <1>3, <3>1, <3>2, <4>1
      <3>4. PipelineTyped'
        BY <1>1, <1>2, <3>2, <3>3 DEF PipelineInv, PipelineTyped, NoPost
      <3>5. ASSUME NEW i \in DOMAIN arrived', NEW j \in DOMAIN arrived', i < j,
                   arrived'[i] > arrived'[j]
            PROVE  arrived'[j] \in abandoned
        <4>1. CASE j = m + 1
          <5>1. arrived'[i] \in 1 .. n /\ arrived'[j] = k
            BY <3>2, <3>3, <4>1
          <5> QED BY <1>2, <1>3, <3>5, <5>1
        <4>2. CASE j # m + 1
          <5>1. i \in DOMAIN arrived /\ j \in DOMAIN arrived
                /\ arrived'[i] = arrived[i] /\ arrived'[j] = arrived[j]
            BY <3>1, <3>2, <3>5, <4>2
          <5> QED BY <3>5, <5>1 DEF PipelineInv, LateOnlyAbandoned
        <4> QED BY <4>1, <4>2
      <3> QED BY <1>1, <3>4, <3>5 DEF LateOnlyAbandoned
    <2> QED BY <1>1, <2>1, <2>2
  <1>5. FlightTrue'
    BY <1>1 DEF PipelineInv, FlightTrue
  <1>6. StoryTrue' /\ BackedTrue'
    BY <1>1 DEF PipelineInv, StoryTrue, BackedTrue, OneVerdict, Said
  <1> QED BY <1>4, <1>5, <1>6 DEF PipelineInv

\* A step that posts nothing and only moves the worker, leaves it or writes a file.
LEMMA QuietKeeps ==
    ASSUME PipelineInv, UNCHANGED <<payload, posts, flying, arrived, reason, sealed>>,
           \/ UNCHANGED <<awaited, abandoned>>
           \/ awaited' = NoPost /\ abandoned' = abandoned \cup ({awaited} \ {NoPost}),
           \/ stage' = stage /\ disk' = disk
           \/ /\ stage \in {"fit_predict"} \cup DOMAIN Writing /\ stage' \in Judged
              /\ disk \subseteq disk' /\ disk' \subseteq Roles
           \/ stage \in {"answered", "caught"} /\ stage' = "over" /\ disk' = disk
           \/ stage' = "dead" /\ disk' = disk
    PROVE  PipelineInv'
  <1>1. PipelineTyped'
    <2>1. stage' \in Unjudged \cup Judged \cup Ended
      BY DEF PipelineInv, PipelineTyped, Ended
    <2>2. Len(posts) \in Nat
      BY DEF PipelineInv, PipelineTyped
    <2>3. awaited' \in 0 .. Len(posts)
      BY <2>2 DEF PipelineInv, PipelineTyped, NoPost
    <2> QED BY <2>1, <2>3 DEF PipelineInv, PipelineTyped
  <1>2. FlightTrue'
    BY DEF PipelineInv, FlightTrue
  <1>3. LateOnlyAbandoned'
    BY DEF PipelineInv, LateOnlyAbandoned
  <1>4. DOMAIN Writing = {"write_model", "write_diagnostics", "write_metadata", "write_metrics_parquet"}
    BY DEF Writing
  <1>5. StoryTrue'
    <2>1. OneVerdict' /\ (posts # <<>> /\ posts[Len(posts)] \in Verdicts)' = (posts # <<>> /\ posts[Len(posts)] \in Verdicts)
      BY DEF PipelineInv, StoryTrue, OneVerdict
    <2>2. CASE stage' = stage
      BY <2>1, <2>2 DEF PipelineInv, StoryTrue
    <2>3. CASE stage \in {"fit_predict"} \cup DOMAIN Writing /\ stage' \in Judged
      BY <1>4, <2>1, <2>3 DEF PipelineInv, StoryTrue, Judged, Ended
    <2>4. CASE stage \in {"answered", "caught"} /\ stage' = "over"
      BY <2>1, <2>4 DEF PipelineInv, StoryTrue, Ended
    <2>5. CASE stage' = "dead"
      BY <2>1, <2>5 DEF PipelineInv, StoryTrue, Ended
    <2> QED BY <2>2, <2>3, <2>4, <2>5
  <1>6. BackedTrue'
    <2>1. Said("success")' = Said("success") /\ payload' = payload
      BY DEF Said
    <2>2. CASE stage \in {"fit_predict"} \cup DOMAIN Writing /\ stage' \in Judged
      <3>1. stage \in Judged /\ stage \notin Ended
        BY <1>4, <2>2 DEF Judged, Ended
      <3>2. GateError(payload) = "none"
        BY <3>1 DEF PipelineInv, BackedTrue
      <3>3. ~Said("success")
        BY <3>1 DEF PipelineInv, StoryTrue, Said
      <3> QED BY <2>1, <3>2, <3>3 DEF BackedTrue
    <2>3. CASE disk' = disk /\ (stage' = stage \/ stage' \in {"over", "dead"})
      BY <2>1, <2>3 DEF PipelineInv, BackedTrue, Judged
    <2> QED BY <2>2, <2>3
  <1> QED BY <1>1, <1>2, <1>3, <1>5, <1>6 DEF PipelineInv

\* The stages up to the adapter.
LEMMA StagesKeep ==
    ASSUME PipelineInv,
           \/ LoadIntent \/ ParsePayload \/ Preflight \/ EnsureDataReady \/ MaterializeSplits
           \/ Evaluate \/ PersistArtifacts
    PROVE  PipelineInv'
  <1>1. CASE LoadIntent
    <2>1. awaited = NoPost
      BY <1>1 DEF LoadIntent, PipelineInv, StoryTrue
    <2> QED BY <1>1, <2>1, AnnounceKeeps DEF LoadIntent, Unjudged, Judged, Ended
  <1>2. CASE ParsePayload
    <2>1. stage = "load_intent" /\ awaited = NoPost /\ FilesUnchanged
          /\ (Announce("preflight") \/ Catch("exception"))
      BY <1>2 DEF ParsePayload, Resumed
    <2>2. CASE Announce("preflight")
      BY <2>1, <2>2, AnnounceKeeps DEF Unjudged, Judged, Ended
    <2>3. CASE Catch("exception")
      BY <2>1, <2>3, CatchKeeps DEF Ended
    <2> QED BY <2>1, <2>2, <2>3
  <1>3. CASE Preflight
    <2>1. CASE GateError(payload) = "none"
      <3>1. /\ stage = "preflight" /\ awaited = NoPost /\ FilesUnchanged
            /\ Announce("qualify_dataset")
        BY <1>3, <2>1 DEF Preflight, Resumed
      <3> QED BY <2>1, <3>1, AnnounceKeeps DEF Unjudged, Judged, Ended
    <2>2. CASE GateError(payload) # "none"
      <3>1. /\ stage = "preflight" /\ awaited = NoPost /\ UNCHANGED <<disk, sealed, abandoned>>
            /\ Post("failed") /\ stage' = "answered"
        BY <1>3, <2>2 DEF Preflight, Resumed, Fail, FilesUnchanged
      <3> QED BY <3>1, VerdictKeeps DEF Verdicts, Ended
    <2> QED BY <2>1, <2>2
  <1>4. CASE EnsureDataReady \/ MaterializeSplits \/ Evaluate \/ PersistArtifacts
    <2>1. PICK next \in Judged : Announce(next)
      BY <1>4 DEF EnsureDataReady, MaterializeSplits, Evaluate, PersistArtifacts, Judged
    <2>2. stage \in Judged /\ awaited = NoPost /\ FilesUnchanged
      BY <1>4 DEF EnsureDataReady, MaterializeSplits, Evaluate, PersistArtifacts, Resumed, Judged
    <2>3. GateError(payload) = "none" /\ stage \notin Ended
      BY <2>2 DEF PipelineInv, BackedTrue, Judged, Ended
    <2>4. next # "queued" /\ next \in Judged
      BY <2>1 DEF Judged
    <2> QED BY <2>1, <2>2, <2>3, <2>4, AnnounceKeeps
  <1> QED BY <1>1, <1>2, <1>3, <1>4

\* Every step keeps the invariant.
LEMMA PipelineInvStep ==
    ASSUME PipelineInv, [PipelineNext]_pipelineVars
    PROVE  PipelineInv'
  <1>1. CASE UNCHANGED pipelineVars
    BY <1>1, QuietKeeps DEF pipelineVars
  <1>2. CASE PostGivenUp
    BY <1>2, QuietKeeps DEF PostGivenUp, FilesUnchanged
  <1>3. CASE FitPredict
    <2>1. /\ stage = "fit_predict" /\ awaited = NoPost /\ UNCHANGED <<disk, sealed>>
          /\ \/ stage' = "write_model" /\ UNCHANGED reason /\ PostsUnchanged
             \/ Post("failed") /\ stage' = "answered" /\ UNCHANGED abandoned
      BY <1>3 DEF FitPredict, Resumed, Fail, FilesUnchanged
    <2>2. CASE stage' = "write_model" /\ UNCHANGED reason /\ PostsUnchanged
      <3>1. disk \subseteq Roles
        BY DEF PipelineInv, PipelineTyped
      <3> QED BY <2>1, <2>2, <3>1, QuietKeeps DEF PostsUnchanged, Judged
    <2>3. CASE Post("failed") /\ stage' = "answered" /\ UNCHANGED abandoned
      BY <2>1, <2>3, VerdictKeeps DEF Verdicts, Ended
    <2> QED BY <2>1, <2>2, <2>3
  <1>4. CASE WriteArtifact
    <2>1. /\ stage \in DOMAIN Writing /\ disk' = disk \cup {Writing[stage].role}
          /\ stage' = Writing[stage].next /\ UNCHANGED <<reason, sealed>> /\ PostsUnchanged
      BY <1>4 DEF WriteArtifact
    <2>2. Writing[stage].role \in Roles /\ Writing[stage].next \in Judged
      BY <2>1 DEF Writing, Roles, Judged
    <2>3. disk \subseteq disk' /\ disk' \subseteq Roles
      BY <2>1, <2>2 DEF PipelineInv, PipelineTyped
    <2> QED BY <2>1, <2>2, <2>3, QuietKeeps DEF PostsUnchanged
  <1>5. CASE NoParquet
    <2>1. "write_metrics_parquet" \in DOMAIN Writing /\ "written" \in Judged
      BY DEF Writing, Judged
    <2>2. disk \subseteq Roles
      BY DEF PipelineInv, PipelineTyped
    <2> QED BY <1>5, <2>1, <2>2, QuietKeeps DEF NoParquet, PostsUnchanged, FilesUnchanged
  <1>6. CASE SealManifest
    <2>1. stage = "persist_artifacts" /\ awaited = NoPost /\ disk' = disk
      BY <1>6 DEF SealManifest, Resumed
    <2>2. GateError(payload) = "none"
      BY <2>1 DEF PipelineInv, BackedTrue, Judged
    <2>3. CASE disk = Roles
      <3>1. Post("success") /\ stage' = "answered" /\ sealed' = disk /\ UNCHANGED abandoned
        BY <1>6, <2>3 DEF SealManifest
      <3> QED BY <2>1, <2>2, <2>3, <3>1, VerdictKeeps DEF Verdicts, Ended
    <2>4. CASE disk # Roles
      <3>1. Post("failed") /\ stage' = "answered" /\ sealed' = sealed /\ UNCHANGED abandoned
        BY <1>6, <2>4 DEF SealManifest, Fail
      <3> QED BY <2>1, <3>1, VerdictKeeps DEF Verdicts, Ended
    <2> QED BY <2>3, <2>4
  <1>7. CASE Return
    BY <1>7, QuietKeeps DEF Return, Resumed, PostsUnchanged, FilesUnchanged
  <1>8. CASE TimeOut
    BY <1>8, CatchKeeps DEF TimeOut, UnderLimit, Ended
  <1>9. CASE Raises
    <2>1. DOMAIN Writing = {"write_model", "write_diagnostics", "write_metadata", "write_metrics_parquet"}
      BY DEF Writing
    <2> QED BY <1>9, <2>1, CatchKeeps DEF Raises, UnderLimit, Ended
  <1>10. CASE WorkerDies
    BY <1>10, QuietKeeps DEF WorkerDies, FilesUnchanged
  <1> QED BY <1>1, <1>2, <1>3, <1>4, <1>5, <1>6, <1>7, <1>8, <1>9, <1>10, AnswerKeeps, StagesKeep
      DEF PipelineNext

\* What the invariant says of the property.
LEMMA AttemptTold ==
    ASSUME PipelineInv
    PROVE  AttemptsClean
  <1>1. posts \in Seq(PostStatuses) /\ Len(posts) \in Nat /\ DOMAIN posts = 1 .. Len(posts)
    BY DEF PipelineInv, PipelineTyped
  <1>2. PipelineTypeOK
    <2>1. ToSet(arrived) \subseteq DOMAIN posts
      BY <1>1 DEF PipelineInv, PipelineTyped, ToSet
    <2> QED BY <1>1, <2>1 DEF PipelineInv, PipelineTyped, FlightTrue, PipelineTypeOK, PostStatuses
  <1>3. OneVerdict /\ NeverSilent /\ LateOnlyAbandoned
    BY DEF PipelineInv, StoryTrue, NeverSilent
  <1>4. "success" \in ToSet(posts) => Said("success")
    BY DEF ToSet, Said
  <1> QED BY <1>2, <1>3, <1>4 DEF PipelineInv, BackedTrue, SuccessBacked, GateBeforeArtifacts, AttemptsClean

\* Whenever the time limit strikes, a stage raises, a post is late or the worker dies: a job
\* gets one verdict but for the failure of a timeout during it, none is forgotten, a success
\* has its files and passed the gate, and only posts given up on arrive out of order.
THEOREM AttemptsStayClean == PipelineSpec => []AttemptsClean
  <1>1. PipelineInit => PipelineInv
    <2>1. SUFFICES ASSUME PipelineInit PROVE PipelineInv
      OBVIOUS
    <2>2. PipelineTyped
      BY <2>1 DEF PipelineInit, PipelineTyped, Unjudged, NoPost
    <2>3. FlightTrue /\ LateOnlyAbandoned
      BY <2>1 DEF PipelineInit, FlightTrue, LateOnlyAbandoned
    <2>4. StoryTrue /\ BackedTrue
      BY <2>1 DEF PipelineInit, StoryTrue, BackedTrue, OneVerdict, Said, Judged, Ended
    <2> QED BY <2>2, <2>3, <2>4 DEF PipelineInv
  <1>2. PipelineInv /\ [PipelineNext]_pipelineVars => PipelineInv'
    BY PipelineInvStep
  <1>3. PipelineInv => AttemptsClean
    BY AttemptTold
  <1> QED BY <1>1, <1>2, <1>3, PTL DEF PipelineSpec

-----------------------------------------------------------------------------
(* The admission of backtests. *)

\* The inductive invariant: the latest request was answered with a token the client has.
AdmissionInv ==
    /\ tokens \subseteq {NoToken} \cup {ConfirmationToken(r) : r \in BacktestRequests}
    /\ \A a \in ToSet(asked) :
        /\ a.request \in BacktestRequests /\ a.token \in tokens
        /\ a.answer = AnswerTo(a.request, a.token)

\* The one request recorded.
LEMMA OneAsked == ASSUME NEW a PROVE ToSet(<<a>>) = {a}
  BY DEF ToSet

\* The size of an estimate is the product of the symbols and the days, each at least one.
LEMMA UnitsNamed ==
    ASSUME NEW r \in BacktestRequests
    PROVE  EstimatedUnits(r) =
             (IF r.symbols > 0 THEN r.symbols ELSE IF r.symbolCount > 1 THEN r.symbolCount ELSE 1)
             * (IF r.days > 1 THEN r.days ELSE 1)
  <1>1. r.symbols \in Nat /\ r.symbolCount \in Int /\ r.days \in Int
    BY AdmissionConstants DEF AdmissionConstants
  <1>2. AtLeastOne(r.days) = IF r.days > 1 THEN r.days ELSE 1
    BY <1>1 DEF AtLeastOne
  <1>3. AtLeastOne(IF r.symbols > 0 THEN r.symbols ELSE r.symbolCount) =
            IF r.symbols > 0 THEN r.symbols ELSE IF r.symbolCount > 1 THEN r.symbolCount ELSE 1
    BY <1>1 DEF AtLeastOne
  <1> QED BY <1>2, <1>3 DEF EstimatedUnits

\* The route comes to service.create only past its checks.
LEMMA PassedChecks ==
    ASSUME NEW r, NEW t, AnswerTo(r, t) = "500"
    PROVE  ~Leaks(r) /\ ValidToken(r, t)
  BY DEF AnswerTo

\* However previews and requests are mixed, a backtest of the threshold's size or more gets
\* past the checks only with the token of an estimate that named its size, symbols and
\* days, and none gets past them with a leak.
THEOREM AdmissionAlwaysGuarded == AdmissionSpec => []AdmissionGuarded
  <1>1. AdmissionInit => AdmissionInv
    BY DEF AdmissionInit, AdmissionInv, ToSet
  <1>2. AdmissionInv /\ [AdmissionNext]_admissionVars => AdmissionInv'
    <2> SUFFICES ASSUME AdmissionInv, [AdmissionNext]_admissionVars PROVE AdmissionInv'
      OBVIOUS
    <2>1. ASSUME NEW r \in BacktestRequests, PreflightBacktest(r) PROVE AdmissionInv'
      BY <2>1 DEF PreflightBacktest, AdmissionInv
    <2>2. ASSUME NEW r \in BacktestRequests, NEW t \in tokens, CreateBacktest(r, t)
          PROVE  AdmissionInv'
      <3>1. PICK a : a = [request |-> r, token |-> t, answer |-> AnswerTo(r, t)]
        OBVIOUS
      <3>2. ToSet(asked') = {a} /\ tokens' = tokens
        BY <2>2, <3>1, OneAsked DEF CreateBacktest
      <3>3. a.request = r /\ a.token = t /\ a.answer = AnswerTo(r, t)
        BY <3>1
      <3> QED BY <3>2, <3>3 DEF AdmissionInv
    <2>3. CASE UNCHANGED admissionVars
      BY <2>3 DEF admissionVars, AdmissionInv
    <2> QED BY <2>1, <2>2, <2>3 DEF AdmissionNext
  <1>3. AdmissionInv => AdmissionGuarded
    <2> SUFFICES ASSUME AdmissionInv PROVE AdmissionGuarded
      OBVIOUS
    <2>1. AdmissionTypeOK
      BY DEF AdmissionInv, AdmissionTypeOK, AnswerTo
    <2>2. ConfirmedAsEstimated
      <3> SUFFICES ASSUME NEW a \in ToSet(asked), a.answer = "500", NEW r, r = a.request,
                          EstimatedUnits(r) >= OversizedThreshold
                   PROVE  /\ a.token.units = EstimatedUnits(r)
                          /\ a.token.symbols = r.symbols /\ a.token.days = r.days
        BY UnitsNamed DEF ConfirmedAsEstimated, Passed, AdmissionInv
      <3>1. a.token = ConfirmationToken(r)
        BY PassedChecks DEF AdmissionInv, ValidToken, RequiresConfirmation
      <3> QED BY <3>1 DEF ConfirmationToken
    <2>3. PassedWithoutLeakage
      BY PassedChecks DEF AdmissionInv, PassedWithoutLeakage, Passed, Leaks
    <2> QED BY <2>1, <2>2, <2>3 DEF AdmissionGuarded
  <1> QED BY <1>1, <1>2, <1>3, PTL DEF AdmissionSpec

-----------------------------------------------------------------------------
(* The admission of training runs. *)

\* What is kept of a run that was taken.
TakenWell(a) ==
    /\ a.request.dataset \in DOMAIN Datasets /\ ValidConfig(a.config)
    /\ QualificationErrors(a.request.task, a.config, Datasets[a.request.dataset]) = {}
    /\ a.response.warnings =
            QualificationWarnings(a.request.task, a.config, Datasets[a.request.dataset])

\* The inductive invariant.
QualificationInv ==
    /\ ConfigsValid
    /\ templates \subseteq TemplatePosts
    /\ \A a \in ToSet(accepted) : TakenWell(a)
    /\ TemplateDecidesTask

\* The one record a request leaves.
LEMMA OneRecord == ASSUME NEW v PROVE ToSet(<<v>>) = {v}
  BY DEF ToSet

\* The history a task asks for is a number.
LEMMA TaskHistory == ASSUME NEW task PROVE TaskRequirement(task).history \in Nat
  BY DEF TaskRequirement, EntityTask, ReturnsTask, NoRequirement

\* Windows and horizons are numbers of steps.
LEMMA StepsAreNumbers ==
    /\ \A x : x \in Lookbacks(8) => x \in Nat /\ x > 0
    /\ \A x : x \in Lookbacks(10) => x \in Nat /\ x > 0
    /\ \A x : x \in Horizons => x \in Nat
  <1>1. ASSUME NEW x, x \in 8 .. 10000 PROVE x \in Nat /\ x > 0
    BY <1>1
  <1>2. ASSUME NEW x, x \in 10 .. 10000 PROVE x \in Nat /\ x > 0
    BY <1>2
  <1>3. \A x : x \in Horizons => x \in Nat
    BY DEF Horizons
  <1>4. \A x : x \in Lookbacks(8) => x \in Nat /\ x > 0
    BY <1>1 DEF Lookbacks
  <1>5. \A x : x \in Lookbacks(10) => x \in Nat /\ x > 0
    BY <1>2 DEF Lookbacks
  <1> QED BY <1>3, <1>4, <1>5

\* A valid config needs a history, unless it is a Kalman filter's.
LEMMA ModelHistory ==
    ASSUME NEW c, ValidConfig(c)
    PROVE  /\ MinimumHistory(c) \in Nat
           /\ c.family # "kalman_filter" => MinimumHistory(c) > 0
           /\ c.family = "torch_nn_timeseries" => MinimumHistory(c) = c.lookback + c.horizon
  <1>1. CASE c.family = "torch_nn_timeseries"
    <2>1. c.lookback \in Lookbacks(8) /\ c.horizon \in Horizons
      BY <1>1 DEF ValidConfig, TorchConfigOK
    <2>2. MinimumHistory(c) = c.lookback + c.horizon
      BY <1>1 DEF MinimumHistory
    <2>3. c.lookback \in Nat /\ c.lookback > 0 /\ c.horizon \in Nat
      BY <2>1, StepsAreNumbers
    <2> QED BY <1>1, <2>2, <2>3
  <1>2. CASE c.family = "hmm_regime_switching"
    <2>1. c.lookback \in Lookbacks(10)
      BY <1>2 DEF ValidConfig, HmmConfigOK
    <2>2. MinimumHistory(c) = c.lookback
      BY <1>2 DEF MinimumHistory
    <2>3. c.lookback \in Nat /\ c.lookback > 0
      BY <2>1, StepsAreNumbers
    <2> QED BY <1>2, <2>2, <2>3
  <1>3. CASE c.family = "arima"
    BY <1>3 DEF ValidConfig, ArimaConfigOK, MinimumHistory
  <1>4. CASE c.family = "kalman_filter"
    BY <1>4 DEF MinimumHistory
  <1> QED BY <1>1, <1>2, <1>3, <1>4 DEF ValidConfig

\* The history required is what the task asks for and what the model does.
LEMMA HistoryOfBoth ==
    ASSUME NEW task, NEW c, ValidConfig(c)
    PROVE  /\ RequiredHistory(task, c) \in Nat
           /\ RequiredHistory(task, c) >= TaskRequirement(task).history
           /\ RequiredHistory(task, c) >= MinimumHistory(c)
  BY TaskHistory, ModelHistory DEF RequiredHistory, Larger

\* Parameters of the request over those of the template have one value each.
LEMMA MergedOnce ==
    ASSUME NEW mine, NEW preset, OneValueEach(mine), OneValueEach(preset)
    PROVE  OneValueEach(mine \cup {p \in preset : ~\E q \in mine : q[1] = p[1]})
  BY DEF OneValueEach

\* A run with a valid response is one whose config is stored and whose data were checked.
LEMMA ValidTaken ==
    ASSUME ConfigsValid, NEW r, Response(r).valid
    PROVE  TakenWell(Validated(r))
  <1>1. PICK c : c = configs[r.config]
    OBVIOUS
  <1>2. PICK d : d = Datasets[r.dataset]
    OBVIOUS
  <1>3. /\ r.config \in DOMAIN configs /\ r.dataset \in DOMAIN Datasets
        /\ QualificationErrors(r.task, c, d) = {}
        /\ Response(r).warnings = QualificationWarnings(r.task, c, d)
    BY <1>1, <1>2 DEF Response
  <1>4. ValidConfig(c)
    BY <1>1, <1>3 DEF ConfigsValid
  <1>5. Validated(r) = [request |-> r, response |-> Response(r), config |-> c]
    BY <1>1, <1>3 DEF Validated
  <1>6. /\ Validated(r).request = r /\ Validated(r).response = Response(r)
        /\ Validated(r).config = c
    BY <1>5
  <1> QED BY <1>2, <1>3, <1>4, <1>6 DEF TakenWell

\* What a taken run shows, of its data and of its warnings.
LEMMA TakenHasData ==
    ASSUME NEW a, TakenWell(a), NEW d, d = Datasets[a.request.dataset],
           NEW task, task = TaskRequirement(a.request.task)
    PROVE  /\ d.history # NotSaid =>
                /\ d.history >= task.history
                /\ a.config.family = "torch_nn_timeseries" =>
                    d.history >= a.config.lookback + a.config.horizon
           /\ task.multiAsset /\ d.universe # NotSaid => d.universe >= 2
           /\ task.fields \subseteq d.fields /\ d.pit = "yes"
           /\ d.history = NotSaid /\ a.config.family # "kalman_filter" =>
                "missing_history_window" \in a.response.warnings
           /\ task.multiAsset /\ UniverseOf(d) = NotSaid =>
                "missing_asset_universe" \in a.response.warnings
  <1>1. PICK c : c = a.config
    OBVIOUS
  <1>2. PICK errors : errors = QualificationErrors(a.request.task, c, d)
    OBVIOUS
  <1>3. PICK need : need = RequiredHistory(a.request.task, c)
    OBVIOUS
  <1>4. /\ need \in Nat /\ task.history \in Nat /\ need >= task.history
        /\ need >= MinimumHistory(c) /\ MinimumHistory(c) \in Nat
        /\ c.family # "kalman_filter" => MinimumHistory(c) > 0
        /\ c.family = "torch_nn_timeseries" => MinimumHistory(c) = c.lookback + c.horizon
    BY <1>1, <1>3, TaskHistory, ModelHistory, HistoryOfBoth DEF TakenWell
  <1>5. d.history \in Int /\ d.universe \in Int
    BY QualificationConstants DEF QualificationConstants, TakenWell
  <1>6. errors = {}
    BY <1>1, <1>2 DEF TakenWell
  <1>7. /\ (Requirement[c.family] \cup task.fields) \subseteq d.fields
        /\ ~(d.history # NotSaid /\ d.history < need)
        /\ d.pit = "yes"
        /\ ~(task.multiAsset /\ UniverseOf(d) # NotSaid /\ UniverseOf(d) < 2)
    <2>1. "missing_fields" \notin errors /\ "insufficient_history_window" \notin errors
          /\ "point_in_time_required" \notin errors /\ "insufficient_asset_universe" \notin errors
      BY <1>6
    <2> QED BY <1>2, <1>3, <2>1 DEF QualificationErrors
  <1>8. /\ "missing_history_window" \in a.response.warnings <=> need > 0 /\ d.history = NotSaid
        /\ "missing_asset_universe" \in a.response.warnings
                <=> task.multiAsset /\ UniverseOf(d) = NotSaid
    BY <1>1, <1>3 DEF TakenWell, QualificationWarnings
  <1>9. d.universe # NotSaid => UniverseOf(d) = d.universe
    BY DEF UniverseOf
  <1> QED BY <1>1, <1>4, <1>5, <1>7, <1>8, <1>9

\* Every request and every job of a run keeps its dataset qualified.
LEMMA QualificationInvStep ==
    QualificationInv /\ [QualificationNext]_qualificationVars => QualificationInv'
  <1> SUFFICES ASSUME QualificationInv, [QualificationNext]_qualificationVars
               PROVE  QualificationInv'
    OBVIOUS
  <1>1. ASSUME NEW id \in ConfigSlots, NEW c \in ModelConfigs,
               CreateModelConfig(id, c) \/ UpdateModelConfig(id, c)
        PROVE  QualificationInv'
    <2>1. ConfigsValid'
      <3>1. CASE CreateModelConfig(id, c)
        BY <3>1 DEF CreateModelConfig, QualificationInv, ConfigsValid
      <3>2. CASE UpdateModelConfig(id, c)
        BY <3>2 DEF UpdateModelConfig, QualificationInv, ConfigsValid
      <3> QED BY <1>1, <3>1, <3>2
    <2>2. UNCHANGED <<templates, verdicts, accepted>>
      BY <1>1 DEF CreateModelConfig, UpdateModelConfig
    <2> QED BY <2>1, <2>2 DEF QualificationInv, TemplateDecidesTask
  <1>2. \A r : ToSet(<<Validated(r)>>) = {Validated(r)} /\ "template" \notin DOMAIN Validated(r)
    BY OneRecord DEF Validated
  <1>3. ASSUME NEW r \in RunRequests, PreflightRun(r) PROVE QualificationInv'
    <2>1. TemplateDecidesTask'
      BY <1>2, <1>3 DEF PreflightRun, TemplateDecidesTask
    <2> QED BY <1>3, <2>1 DEF PreflightRun, QualificationInv, ConfigsValid
  <1>4. ASSUME NEW r \in RunRequests, TakeTrainingRun(r) PROVE QualificationInv'
    <2>1. TemplateDecidesTask'
      BY <1>2, <1>4 DEF TakeTrainingRun, TemplateDecidesTask
    <2>2. \A a \in ToSet(accepted') : TakenWell(a)
      <3>1. CASE Response(r).valid
        BY <1>2, <1>4, <3>1, ValidTaken DEF TakeTrainingRun, QualificationInv
      <3>2. CASE ~Response(r).valid
        BY <1>4, <3>2 DEF TakeTrainingRun, QualificationInv
      <3> QED BY <3>1, <3>2
    <2> QED BY <1>4, <2>1, <2>2 DEF TakeTrainingRun, QualificationInv, ConfigsValid
  <1>5. ASSUME NEW t \in TemplatePosts, PostTemplate(t) PROVE QualificationInv'
    BY <1>5 DEF PostTemplate, QualificationInv, ConfigsValid, TemplateDecidesTask
  <1>6. ASSUME NEW t \in templates, NEW r \in RunRequests, ApplyTemplate(t, r)
        PROVE  QualificationInv'
    <2>1. PICK m : m = Merged(t, r)
      OBVIOUS
    <2>2. PICK v : v = Applied(t, r)
      OBVIOUS
    <2>3. ToSet(verdicts') = {v} /\ UNCHANGED <<configs, templates, accepted>>
      BY <1>6, <2>2, OneRecord DEF ApplyTemplate
    <2>4. v.request = m /\ v.response = Response(m) /\ v.template = t /\ v.asked = r
      BY <2>1, <2>2 DEF Applied, Validated
    <2>5. /\ t.profile # Unknown /\ OneValueEach(t.params) /\ OneValueEach(r.params)
      BY QualificationConstants DEF QualificationConstants, QualificationInv
    <2>6. /\ m.task = t.task /\ m.profile = t.profile
          /\ m.params = r.params \cup {p \in t.params : ~\E q \in r.params : q[1] = p[1]}
      <3>1. r = [config |-> r.config, dataset |-> r.dataset, task |-> r.task,
                 profile |-> r.profile, params |-> r.params]
        BY QualificationConstants DEF QualificationConstants
      <3>2. m = [config |-> r.config, dataset |-> r.dataset, task |-> t.task,
                 profile |-> t.profile,
                 params |-> r.params \cup {p \in t.params : ~\E q \in r.params : q[1] = p[1]}]
        BY <2>1, <3>1 DEF Merged
      <3> QED BY <3>2
    <2>7. Response(m).profile = t.profile
      BY <2>5, <2>6 DEF Response
    <2>8. OneValueEach(m.params)
      BY <2>5, <2>6, MergedOnce
    <2>9. TemplateDecidesTask'
      BY <2>3, <2>4, <2>6, <2>7, <2>8 DEF TemplateDecidesTask
    <2> QED BY <2>3, <2>9 DEF QualificationInv, ConfigsValid
  <1>7. CASE UNCHANGED qualificationVars
    BY <1>7 DEF qualificationVars, QualificationInv, ConfigsValid, TemplateDecidesTask
  <1> QED BY <1>1, <1>3, <1>4, <1>5, <1>6, <1>7 DEF QualificationNext

\* A training run that is taken has the data its model and task need, what the dataset does
\* not say was told, stored configs stay valid through updates, and a template decides task
\* and profile without overwriting the request's parameters.
THEOREM RunsStayQualified == QualificationSpec => []RunsQualified
  <1>1. QualificationInit => QualificationInv
    BY DEF QualificationInit, QualificationInv, ConfigsValid, TemplateDecidesTask, ToSet
  <1>2. QualificationInv => RunsQualified
    <2> SUFFICES ASSUME QualificationInv PROVE RunsQualified
      OBVIOUS
    <2>1. AcceptedHasTheData
      BY TakenHasData DEF QualificationInv, AcceptedHasTheData
    <2>2. UnknownIsTold
      BY TakenHasData DEF QualificationInv, UnknownIsTold
    <2> QED BY <2>1, <2>2 DEF QualificationInv, RunsQualified
  <1> QED BY <1>1, <1>2, QualificationInvStep, PTL DEF QualificationSpec

-----------------------------------------------------------------------------
(* The artifact table of the control plane. *)

ArtifactTyped ==
    /\ runOf \in [ArtifactJobs -> Owners] /\ today \in Nat
    /\ touched = [k \in DOMAIN touched |-> touched[k]]
    /\ \A k \in DOMAIN touched : k = <<k[1], k[2]>> /\ touched[k] \in Nat /\ touched[k] <= today
    /\ \A row \in rows :
         /\ row = [of |-> row.of, job |-> row.job, ref |-> row.ref, sum |-> row.sum,
                   class |-> row.class, accessed |-> row.accessed]
         /\ <<row.of, row.sum>> \in DOMAIN touched
         /\ row.accessed = touched[<<row.of, row.sum>>]
         /\ row.job \in ArtifactJobs /\ row.of \in Owners
         /\ row.class \in RetentionClasses

\* A reference stands for a checksum only where a worker's file has none, and then the row
\* is that file's.
OwnReference == \A row \in rows : row.sum \in Refs => row.ref = row.sum /\ row.job = row.sum.job

Kept ==
    \A k \in DOMAIN touched : today <= touched[k] + RetentionDays =>
        \E r \in rows : r.of = k[1] /\ r.sum = k[2]

\* The inductive invariant.
ArtifactInv ==
    /\ ArtifactTyped
    /\ OwnReference
    /\ OneRowPerContent
    /\ OneFilePerChecksum
    /\ Kept

\* What storing a summary does: one row takes the place of those filed there with the
\* checksum, and it names the file that every other row with the checksum names.
Stored(of, sum, q) ==
    /\ q = [of |-> q.of, job |-> q.job, ref |-> q.ref, sum |-> q.sum,
            class |-> q.class, accessed |-> q.accessed]
    /\ q.of = of /\ q.sum = sum /\ q.accessed = today
    /\ q.class \in RetentionClasses
    /\ q.job \in ArtifactJobs /\ q.of \in Owners
    /\ \A r \in rows : r.sum = sum => r.ref = q.ref
    /\ sum \in Refs => q.ref = sum /\ q.job = sum.job

\* Storing a summary leaves one row for its checksum, with the first reference it came with.
LEMMA SummaryStored ==
    ASSUME ArtifactInv, NEW j \in ArtifactJobs, NEW of \in Owners, NEW sum, NEW class \in RetentionClasses,
           sum \in Refs => sum = RefOf(j)
    PROVE  \E q : /\ AddSummary(j, of, RefOf(j), sum, class) = (rows \ RowsWith(of, sum)) \cup {q}
                  /\ Stored(of, sum, q)
  <1>1. CASE RowsWith(of, sum) # {}
    <2>1. PICK old : old = CHOOSE r \in RowsWith(of, sum) : TRUE
      OBVIOUS
    <2>2. old \in RowsWith(of, sum)
      BY <1>1, <2>1
    <2>3. old \in rows /\ old.of = of /\ old.sum = sum /\ RowsWith(of, sum) = {old}
      BY <2>2 DEF RowsWith, ArtifactInv, OneRowPerContent
    <2>4. PICK q : q = [old EXCEPT !.accessed = today, !.class = class]
      OBVIOUS
    <2>5. /\ old = [of |-> old.of, job |-> old.job, ref |-> old.ref, sum |-> old.sum,
                    class |-> old.class, accessed |-> old.accessed]
          /\ old.job \in ArtifactJobs
      BY <2>3 DEF ArtifactInv, ArtifactTyped
    <2>6. q = [of |-> old.of, job |-> old.job, ref |-> old.ref, sum |-> old.sum,
               class |-> class, accessed |-> today]
      BY <2>4, <2>5
    <2>7. /\ q.of = old.of /\ q.job = old.job /\ q.ref = old.ref /\ q.sum = old.sum
          /\ q.class = class /\ q.accessed = today
      BY <2>6
    <2>8. Stored(of, sum, q)
      BY <2>3, <2>5, <2>6, <2>7 DEF Stored, ArtifactInv, OwnReference, OneFilePerChecksum
    <2>9. AddSummary(j, of, RefOf(j), sum, class) = (rows \ {old}) \cup {q}
      BY <1>1, <2>1, <2>4 DEF AddSummary
    <2> QED BY <2>3, <2>8, <2>9
  <1>2. CASE RowsWith(of, sum) = {}
    <2>1. PICK file : file = IF WithSum(sum) = {} THEN RefOf(j) ELSE (CHOOSE r \in WithSum(sum) : TRUE).ref
      OBVIOUS
    <2>2. PICK q : q = NewRow(j, of, file, sum, class)
      OBVIOUS
    <2>3. AddSummary(j, of, RefOf(j), sum, class) = rows \cup {q}
      BY <1>2, <2>1, <2>2 DEF AddSummary
    <2>4. /\ q = [of |-> of, job |-> j, ref |-> file, sum |-> sum, class |-> class, accessed |-> today]
          /\ q.of = of /\ q.job = j /\ q.ref = file /\ q.sum = sum /\ q.class = class
          /\ q.accessed = today
      BY <2>2 DEF NewRow
    <2>5. /\ \A r \in rows : r.sum = sum => r.ref = file
          /\ sum \in Refs => file = sum
      <3>1. CASE WithSum(sum) = {}
        BY <2>1, <3>1 DEF WithSum
      <3>2. CASE WithSum(sum) # {}
        <4>1. PICK r \in rows : r.sum = sum /\ file = r.ref
          BY <2>1, <3>2 DEF WithSum
        <4> QED BY <4>1 DEF ArtifactInv, OwnReference, OneFilePerChecksum
      <3> QED BY <3>1, <3>2
    <2>6. RefOf(j).job = j
      BY DEF RefOf
    <2>7. Stored(of, sum, q)
      BY <2>4, <2>5, <2>6 DEF Stored
    <2> QED BY <1>2, <2>3, <2>7
  <1> QED BY <1>1, <1>2

\* The reference of a job is one, and no checksum a client reports is.
LEMMA SumsApart ==
    ASSUME NEW j \in ArtifactJobs
    PROVE  /\ RefOf(j) \in Refs
           /\ \A c \in Checksums : ResolvedChecksum(c, RefOf(j)) \in Refs
                => ResolvedChecksum(c, RefOf(j)) = RefOf(j)
  BY ArtifactConstants DEF ArtifactConstants, RefOf, Refs, ResolvedChecksum

\* Storing and pruning keep the invariant.
LEMMA SavedKeeps ==
    ASSUME ArtifactInv, NEW j \in ArtifactJobs, NEW of \in Owners, NEW claimed \in Checksums \cup {NoSum},
           NEW class \in RetentionClasses,
           SaveArtifact(j, of, claimed, class), UNCHANGED <<prod, runOf, today>>
    PROVE  ArtifactInv'
  <1>1. PICK sum : sum = ResolvedChecksum(claimed, RefOf(j))
    OBVIOUS
  <1>2. /\ sum \in Refs => sum = RefOf(j)
        /\ claimed = NoSum => sum = RefOf(j)
    BY <1>1, SumsApart DEF ResolvedChecksum
  <1>3. PICK q : /\ AddSummary(j, of, RefOf(j), sum, class) = (rows \ RowsWith(of, sum)) \cup {q}
                 /\ Stored(of, sum, q)
    BY <1>2, SummaryStored
  <1>4. PICK k : k = <<of, sum>>
    OBVIOUS
  <1>5. /\ touched' = [i \in DOMAIN touched \cup {k} |-> IF i = k THEN today ELSE touched[i]]
        /\ rows' = Pruned((rows \ RowsWith(of, sum)) \cup {q})
    BY <1>1, <1>3, <1>4 DEF SaveArtifact
  <1>6. today \in Nat /\ RetentionDays \in Nat
    BY ArtifactConstants DEF ArtifactConstants, ArtifactInv, ArtifactTyped
  <1>7. /\ DOMAIN touched' = DOMAIN touched \cup {k} /\ touched'[k] = today
        /\ \A i \in DOMAIN touched : i # k => touched'[i] = touched[i]
    BY <1>5
  <1>8. \A r \in rows' : \/ r = q
                         \/ r \in rows /\ <<r.of, r.sum>> # k
    BY <1>4, <1>5 DEF Pruned, RowsWith
  <1>9. q \in rows'
    <2>1. ~Outdated(q)
      BY <1>3, <1>6 DEF Stored, Outdated, Longest
    <2> QED BY <1>5, <2>1 DEF Pruned
  <1>10. ArtifactTyped'
    <2>1. ASSUME NEW r \in rows'
          PROVE  /\ r = [of |-> r.of, job |-> r.job, ref |-> r.ref, sum |-> r.sum,
                         class |-> r.class, accessed |-> r.accessed]
                 /\ <<r.of, r.sum>> \in DOMAIN touched'
                 /\ r.accessed = touched'[<<r.of, r.sum>>]
                 /\ r.job \in ArtifactJobs /\ r.of \in Owners
                 /\ r.class \in RetentionClasses
      <3>1. CASE r = q
        BY <1>3, <1>4, <1>7, <3>1 DEF Stored
      <3>2. CASE r \in rows /\ <<r.of, r.sum>> # k
        BY <1>7, <3>2 DEF ArtifactInv, ArtifactTyped
      <3> QED BY <1>8, <3>1, <3>2
    <2>2. \A i \in DOMAIN touched' : i = <<i[1], i[2]>> /\ touched'[i] \in Nat /\ touched'[i] <= today
      BY <1>4, <1>6, <1>7 DEF ArtifactInv, ArtifactTyped
    <2>3. touched' = [i \in DOMAIN touched' |-> touched'[i]]
      BY <1>5
    <2> QED BY <1>5, <2>1, <2>2, <2>3 DEF ArtifactInv, ArtifactTyped
  <1>11. OwnReference'
    BY <1>3, <1>8 DEF ArtifactInv, OwnReference, Stored
  <1>12. OneRowPerContent'
    BY <1>3, <1>4, <1>8 DEF ArtifactInv, OneRowPerContent, Stored
  <1>13. OneFilePerChecksum'
    BY <1>3, <1>8 DEF ArtifactInv, OneFilePerChecksum, Stored
  <1>14. Kept'
    <2>1. ASSUME NEW i \in DOMAIN touched', today <= touched'[i] + RetentionDays
          PROVE  \E r \in rows' : r.of = i[1] /\ r.sum = i[2]
      <3>1. CASE i = k
        BY <1>3, <1>4, <1>9, <3>1 DEF Stored
      <3>2. CASE i # k
        <4>1. i \in DOMAIN touched /\ touched'[i] = touched[i]
          BY <1>7, <3>2
        <4>2. PICK r \in rows : r.of = i[1] /\ r.sum = i[2]
          BY <2>1, <4>1 DEF ArtifactInv, Kept
        <4>3. CASE <<r.of, r.sum>> = k
          <5>1. r.of = of /\ r.sum = sum
            BY <1>4, <4>3
          <5>2. q.of = of /\ q.sum = sum
            BY <1>3 DEF Stored
          <5> QED BY <1>9, <4>2, <5>1, <5>2
        <4>4. CASE <<r.of, r.sum>> # k
          <5>1. r \in (rows \ RowsWith(of, sum)) \cup {q}
            BY <1>4, <4>4 DEF RowsWith
          <5>2. CASE r \in rows'
            BY <4>2, <5>2
          <5>3. CASE r \notin rows'
            <6>1. Outdated(r) /\ r.accessed \in Nat
              BY <1>5, <5>1, <5>3 DEF Pruned, ArtifactInv, ArtifactTyped
            <6>2. today > touched[<<r.of, r.sum>>] + RetentionDays
              BY <1>6, <6>1 DEF Outdated, Longest, ArtifactInv, ArtifactTyped
            <6>3. i = <<r.of, r.sum>>
              BY <4>1, <4>2 DEF ArtifactInv, ArtifactTyped
            <6>4. touched[i] \in Nat /\ today > touched[i] + RetentionDays
              BY <4>1, <6>2, <6>3 DEF ArtifactInv, ArtifactTyped
            <6>5. today <= touched[i] + RetentionDays
              BY <2>1, <4>1
            <6> QED BY <1>6, <6>4, <6>5
          <5> QED BY <5>2, <5>3
        <4> QED BY <4>3, <4>4
      <3> QED BY <3>1, <3>2
    <2> QED BY <2>1 DEF Kept
  <1> QED BY <1>10, <1>11, <1>12, <1>13, <1>14 DEF ArtifactInv

\* A read dates its row, and no row becomes another.
LEMMA ReadKeeps ==
    ASSUME ArtifactInv, NEW row \in rows, ReadArtifact(row)
    PROVE  ArtifactInv'
  <1>1. PICK q : q = [row EXCEPT !.accessed = today]
    OBVIOUS
  <1>2. PICK k : k = <<row.of, row.sum>>
    OBVIOUS
  <1>3. /\ row = [of |-> row.of, job |-> row.job, ref |-> row.ref, sum |-> row.sum,
                  class |-> row.class, accessed |-> row.accessed]
        /\ k \in DOMAIN touched /\ row.job \in ArtifactJobs /\ row.of \in Owners
        /\ row.class \in RetentionClasses
    BY <1>2 DEF ArtifactInv, ArtifactTyped
  <1>4. /\ q = [of |-> row.of, job |-> row.job, ref |-> row.ref, sum |-> row.sum,
                class |-> row.class, accessed |-> today]
        /\ q.of = row.of /\ q.job = row.job /\ q.ref = row.ref /\ q.sum = row.sum
        /\ q.class = row.class /\ q.accessed = today
    BY <1>1, <1>3
  <1>5. /\ rows' = (rows \ {row}) \cup {q}
        /\ touched' = [touched EXCEPT ![k] = today]
        /\ UNCHANGED <<prod, runOf, today>>
    BY <1>1, <1>2 DEF ReadArtifact
  <1>6. /\ DOMAIN touched' = DOMAIN touched /\ touched'[k] = today
        /\ \A i \in DOMAIN touched : i # k => touched'[i] = touched[i]
        /\ touched' = [i \in DOMAIN touched' |-> touched'[i]]
    BY <1>3, <1>5 DEF ArtifactInv, ArtifactTyped
  <1>7. \A r \in rows' : \/ r = q
                         \/ r \in rows /\ r # row /\ <<r.of, r.sum>> # k
    BY <1>2, <1>5 DEF ArtifactInv, OneRowPerContent
  <1>8. ArtifactTyped'
    <2>1. ASSUME NEW r \in rows'
          PROVE  /\ r = [of |-> r.of, job |-> r.job, ref |-> r.ref, sum |-> r.sum,
                         class |-> r.class, accessed |-> r.accessed]
                 /\ <<r.of, r.sum>> \in DOMAIN touched'
                 /\ r.accessed = touched'[<<r.of, r.sum>>]
                 /\ r.job \in ArtifactJobs /\ r.of \in Owners
                 /\ r.class \in RetentionClasses
      <3>1. CASE r = q
        BY <1>2, <1>3, <1>4, <1>6, <3>1
      <3>2. CASE r \in rows /\ <<r.of, r.sum>> # k
        BY <1>6, <3>2 DEF ArtifactInv, ArtifactTyped
      <3> QED BY <1>7, <3>1, <3>2
    <2>2. \A i \in DOMAIN touched' : i = <<i[1], i[2]>> /\ touched'[i] \in Nat /\ touched'[i] <= today
      BY <1>6 DEF ArtifactInv, ArtifactTyped
    <2> QED BY <1>5, <1>6, <2>1, <2>2 DEF ArtifactInv, ArtifactTyped
  <1>9. OwnReference'
    BY <1>4, <1>7 DEF ArtifactInv, OwnReference
  <1>10. OneRowPerContent'
    BY <1>2, <1>4, <1>7 DEF ArtifactInv, OneRowPerContent
  <1>11. OneFilePerChecksum'
    BY <1>4, <1>7 DEF ArtifactInv, OneFilePerChecksum
  <1>12. Kept'
    <2>1. ASSUME NEW i \in DOMAIN touched', today <= touched'[i] + RetentionDays
          PROVE  \E r \in rows' : r.of = i[1] /\ r.sum = i[2]
      <3>1. CASE i = k
        BY <1>2, <1>4, <1>5, <3>1
      <3>2. CASE i # k
        <4>1. PICK r \in rows : r.of = i[1] /\ r.sum = i[2]
          BY <1>6, <2>1, <3>2 DEF ArtifactInv, Kept
        <4> QED BY <1>4, <1>5, <4>1
      <3> QED BY <3>1, <3>2
    <2> QED BY <1>5, <2>1 DEF Kept
  <1> QED BY <1>8, <1>9, <1>10, <1>11, <1>12 DEF ArtifactInv

\* Nothing is stored yet.
LEMMA ArtifactInvInit == ArtifactInit => ArtifactInv
  <1> SUFFICES ASSUME ArtifactInit PROVE ArtifactInv
    OBVIOUS
  <1>1. /\ runOf \in [ArtifactJobs -> Owners] /\ today = 0 /\ rows = {}
        /\ touched = <<>>
    BY ArtifactConstants DEF ArtifactConstants, ArtifactInit
  <1>2. DOMAIN touched = {} /\ touched = [k \in DOMAIN touched |-> touched[k]]
    BY <1>1
  <1> QED BY <1>1, <1>2 DEF ArtifactInv, ArtifactTyped, OwnReference, OneRowPerContent,
                            OneFilePerChecksum, Kept

\* Reports, reads, sweeps and days keep what is stored together with its files.
LEMMA ArtifactInvStep == ArtifactInv /\ [ArtifactNext]_artifactVars => ArtifactInv'
  <1> SUFFICES ASSUME ArtifactInv, [ArtifactNext]_artifactVars PROVE ArtifactInv'
    OBVIOUS
  <1>1. ASSUME UNCHANGED <<prod, runOf, today, rows, touched>> PROVE ArtifactInv'
    BY <1>1 DEF ArtifactInv, ArtifactTyped, OwnReference, OneRowPerContent,
                OneFilePerChecksum, Kept, RefOf
  <1>2. ASSUME NEW j \in ArtifactJobs, WorkerSucceeds(j) PROVE ArtifactInv'
    <2>1. CASE SaveArtifact(j, runOf[j], NoSum, "intermediate")
      <3>1. UNCHANGED <<prod, runOf, today>> /\ "intermediate" \in RetentionClasses /\ runOf[j] \in Owners
        BY <1>2 DEF WorkerSucceeds, RetentionClasses, ArtifactInv, ArtifactTyped
      <3> QED BY <2>1, <3>1, SavedKeeps
    <2>2. CASE UNCHANGED <<rows, touched>>
      BY <1>1, <1>2, <2>2 DEF WorkerSucceeds
    <2> QED BY <1>2, <2>1, <2>2 DEF WorkerSucceeds
  <1>4. ASSUME NEW j \in ArtifactJobs, ClientReports(j) PROVE ArtifactInv'
    <2>1. PICK of \in Owners, c \in Checksums \cup {NoSum}, class \in RetentionClasses :
             SaveArtifact(j, of, c, class)
      BY <1>4 DEF ClientReports
    <2>2. UNCHANGED <<prod, runOf, today>>
      BY <1>4 DEF ClientReports
    <2> QED BY <2>1, <2>2, SavedKeeps
  <1>5. ASSUME NEW row \in rows, ReadArtifact(row) PROVE ArtifactInv'
    BY <1>5, ReadKeeps
  <1>6. CASE DayPasses
    <2>1. /\ today \in Nat /\ today' = today + 1 /\ RetentionDays \in Nat
          /\ UNCHANGED <<prod, runOf, rows, touched>>
      BY <1>6, ArtifactConstants DEF ArtifactConstants, DayPasses, ArtifactInv, ArtifactTyped
    <2>2. ArtifactTyped'
      <3>1. \A k \in DOMAIN touched : touched[k] <= today + 1
        BY <2>1 DEF ArtifactInv, ArtifactTyped
      <3> QED BY <2>1, <3>1 DEF ArtifactInv, ArtifactTyped
    <2>3. Kept'
      <3>1. \A k \in DOMAIN touched : today + 1 <= touched[k] + RetentionDays
                                        => today <= touched[k] + RetentionDays
        BY <2>1 DEF ArtifactInv, ArtifactTyped
      <3> QED BY <2>1, <3>1 DEF ArtifactInv, Kept
    <2> QED BY <2>1, <2>2, <2>3 DEF ArtifactInv, OwnReference, OneRowPerContent,
                                    OneFilePerChecksum, RefOf
  <1>7. CASE UNCHANGED artifactVars
    BY <1>1, <1>7 DEF artifactVars
  <1> QED BY <1>2, <1>4, <1>5, <1>6, <1>7 DEF ArtifactNext

\* What the invariant says of the rows is what a reader of a run sees.
LEMMA KeptIsListed == ArtifactInv => ArtifactsKept
  <1> SUFFICES ASSUME ArtifactInv PROVE ArtifactsKept
    OBVIOUS
  <1>1. ArtifactTypeOK /\ OneRowPerContent /\ OneFilePerChecksum
    BY DEF ArtifactInv, ArtifactTyped, ArtifactTypeOK
  <1>2. KeptForRetention
    BY DEF ArtifactInv, Kept, KeptForRetention, RowsWith
  <1>3. WorkerArtifactListed
    <2> SUFFICES ASSUME NEW k \in DOMAIN touched, k[2] \in Refs, today <= touched[k] + RetentionDays
                 PROVE  \E r \in rows : r.of = k[1] /\ r.job = k[2].job /\ r.ref = k[2]
      BY DEF WorkerArtifactListed
    <2>1. PICK r \in rows : r.of = k[1] /\ r.sum = k[2]
      BY DEF ArtifactInv, Kept
    <2> QED BY <2>1 DEF ArtifactInv, OwnReference
  <1> QED BY <1>1, <1>2, <1>3 DEF ArtifactsKept

\* The rows of runs' artifacts are one per content of a run and name one file per checksum,
\* what was reported or read is there for the retention, and a worker's report is found
\* under its job, for every order of reports, reads, lost events and days.
THEOREM ArtifactsStayKept == ArtifactSpec => []ArtifactsKept
  <1>1. ArtifactSpec => []ArtifactInv
    BY ArtifactInvInit, ArtifactInvStep, PTL DEF ArtifactSpec
  <1> QED BY <1>1, KeptIsListed, PTL

-----------------------------------------------------------------------------
(* The deployments of models. *)

LogEvents == [deployment : Nat, status : DeployStatuses]

DeploymentsTyped ==
    /\ deployed \in Seq(DeployStatuses)
    /\ modelTopic \in Seq(ModelEvents) /\ modelLog \in Seq(LogEvents)
    /\ telling \subseteq DOMAIN modelTopic
    /\ \A k \in DOMAIN modelTopic : modelTopic[k].deployment \in DOMAIN deployed

\* The k-th event on the topic goes on from the one before it of its deployment.
Continues(events, k) ==
    IF EarlierOf(events, k) = {}
    THEN events[k].previous = "none" /\ events[k].status = "deploying"
    ELSE \E i \in EarlierOf(events, k) :
            /\ \A m \in EarlierOf(events, k) : m <= i
            /\ events[k].previous = events[i].status /\ events[k].status # events[k].previous

TopicEnds(d) ==
    \E k \in DOMAIN modelTopic : LastOf(modelTopic, d, k) /\ modelTopic[k].status = deployed[d]
LogEnds(d) ==
    \E k \in DOMAIN modelLog : LastOf(modelLog, d, k) /\ modelLog[k].status = deployed[d]

\* The inductive invariant: the log of a deployment ends in its status unless a handler of
\* one of its events has still to write it.
DeploymentInv ==
    /\ DeploymentsTyped
    /\ \A k \in DOMAIN modelTopic : Continues(modelTopic, k)
    /\ \A d \in DOMAIN deployed : TopicEnds(d)
    /\ \A d \in DOMAIN deployed :
        LogEnds(d) \/ \E n \in telling : modelTopic[n].deployment = d

\* Appending to the topic leaves what the events before continue.
LEMMA PrefixContinues ==
    ASSUME NEW s \in Seq(ModelEvents), NEW e \in ModelEvents, NEW k \in DOMAIN s
    PROVE  Continues(Append(s, e), k) = Continues(s, k)
  <1>1. PICK t : t = Append(s, e)
    OBVIOUS
  <1>2. Len(s) \in Nat /\ DOMAIN s = 1 .. Len(s) /\ \A i \in 1 .. Len(s) : t[i] = s[i]
    BY <1>1
  <1>3. k \in Nat /\ \A i \in 1 .. k - 1 : i \in 1 .. Len(s)
    BY <1>2
  <1>4. EarlierOf(t, k) = EarlierOf(s, k)
    BY <1>2, <1>3 DEF EarlierOf
  <1>5. \A i \in EarlierOf(s, k) : t[i] = s[i]
    BY <1>2, <1>3 DEF EarlierOf
  <1>6. t[k] = s[k]
    BY <1>2
  <1> QED BY <1>1, <1>4, <1>5, <1>6 DEF Continues

\* One handler up to its await: the status and the event change together.
LEMMA BroadcastKeeps ==
    ASSUME DeploymentInv, NEW d, NEW previous \in DeployStatuses \cup {"none"},
           NEW status \in DeployStatuses,
           deployed' \in Seq(DeployStatuses), d \in DOMAIN deployed', deployed'[d] = status,
           \/ /\ d \notin DOMAIN deployed /\ previous = "none" /\ status = "deploying"
              /\ DOMAIN deployed' = DOMAIN deployed \cup {d}
           \/ /\ d \in DOMAIN deployed /\ previous = deployed[d] /\ status # previous
              /\ DOMAIN deployed' = DOMAIN deployed,
           \A c \in DOMAIN deployed : c # d => deployed'[c] = deployed[c],
           Broadcast(d, previous)
    PROVE  DeploymentInv'
  <1>1. PICK e : e = [deployment |-> d, previous |-> previous, status |-> status]
    OBVIOUS
  <1>2. PICK last : last = Len(modelTopic) + 1
    OBVIOUS
  <1>3. DOMAIN deployed' = 1 .. Len(deployed') /\ d \in Nat
    OBVIOUS
  <1>4. /\ modelTopic' = Append(modelTopic, e) /\ modelTopic \in Seq(ModelEvents)
        /\ e \in ModelEvents /\ e.deployment = d /\ e.previous = previous /\ e.status = status
        /\ telling' = telling \cup {last} /\ modelLog' = modelLog
    BY <1>1, <1>2, <1>3 DEF Broadcast, ModelEvents, DeploymentInv, DeploymentsTyped
  <1>5. /\ Len(modelTopic) \in Nat /\ DOMAIN modelTopic = 1 .. Len(modelTopic)
        /\ Len(modelTopic') = last /\ DOMAIN modelTopic' = 1 .. last
        /\ modelTopic'[last] = e
        /\ \A k \in DOMAIN modelTopic : modelTopic'[k] = modelTopic[k]
        /\ \A k \in DOMAIN modelTopic' : k \in DOMAIN modelTopic \/ k = last
        /\ last \in DOMAIN modelTopic' /\ last \notin DOMAIN modelTopic
        /\ \A k \in DOMAIN modelTopic : k \in DOMAIN modelTopic'
    BY <1>2, <1>4
  <1>6. DeploymentsTyped'
    <2>1. modelTopic' \in Seq(ModelEvents)
      BY <1>4
    <2>2. \A k \in DOMAIN modelTopic' : modelTopic'[k].deployment \in DOMAIN deployed'
      BY <1>4, <1>5 DEF DeploymentInv, DeploymentsTyped
    <2> QED BY <1>4, <1>5, <2>1, <2>2 DEF DeploymentInv, DeploymentsTyped
  <1>7. EarlierOf(modelTopic', last) = {i \in DOMAIN modelTopic : modelTopic[i].deployment = d}
    <2>1. 1 .. last - 1 = DOMAIN modelTopic
      BY <1>2, <1>5
    <2> QED BY <1>4, <1>5, <2>1 DEF EarlierOf
  <1>8. Continues(modelTopic', last)
    <2>1. CASE d \notin DOMAIN deployed
      <3>1. EarlierOf(modelTopic', last) = {}
        BY <1>7, <2>1 DEF DeploymentInv, DeploymentsTyped
      <3> QED BY <1>4, <1>5, <2>1, <3>1 DEF Continues
    <2>2. CASE d \in DOMAIN deployed
      <3>1. previous = deployed[d] /\ status # previous
        BY <2>2
      <3>2. PICK i \in DOMAIN modelTopic : LastOf(modelTopic, d, i) /\ modelTopic[i].status = deployed[d]
        BY <2>2 DEF DeploymentInv, TopicEnds
      <3>3. i \in EarlierOf(modelTopic', last)
        BY <1>7, <3>2 DEF LastOf
      <3>4. ASSUME NEW m \in EarlierOf(modelTopic', last) PROVE m <= i
        <4>1. m \in 1 .. Len(modelTopic) /\ modelTopic[m].deployment = d
          BY <1>5, <1>7
        <4>2. ~(m \in i + 1 .. Len(modelTopic))
          BY <3>2, <4>1 DEF LastOf
        <4> QED BY <1>5, <3>2, <4>1, <4>2
      <3> QED BY <1>4, <1>5, <3>1, <3>2, <3>3, <3>4 DEF Continues
    <2> QED BY <2>1, <2>2
  <1>9. \A k \in DOMAIN modelTopic' : Continues(modelTopic', k)
    <2>1. \A k \in DOMAIN modelTopic : Continues(modelTopic', k)
      BY <1>4, PrefixContinues DEF DeploymentInv
    <2> QED BY <1>5, <1>8, <2>1
  <1>10. ASSUME NEW c \in DOMAIN deployed' PROVE TopicEnds(c)'
    <2>1. CASE c = d
      <3>1. \A i \in last + 1 .. Len(modelTopic') : FALSE
        BY <1>2, <1>5
      <3>2. LastOf(modelTopic', d, last)
        BY <1>4, <1>5, <3>1 DEF LastOf
      <3> QED BY <1>4, <1>5, <2>1, <3>2 DEF TopicEnds
    <2>2. CASE c # d
      <3>1. c \in DOMAIN deployed /\ deployed'[c] = deployed[c]
        BY <2>2
      <3>2. PICK k \in DOMAIN modelTopic : LastOf(modelTopic, c, k) /\ modelTopic[k].status = deployed[c]
        BY <3>1 DEF DeploymentInv, TopicEnds
      <3>3. ASSUME NEW i \in k + 1 .. Len(modelTopic') PROVE modelTopic'[i].deployment # c
        <4>1. i = last \/ i \in k + 1 .. Len(modelTopic)
          BY <1>2, <1>5
        <4>2. i \in k + 1 .. Len(modelTopic) => i \in DOMAIN modelTopic
          BY <1>5, <3>2
        <4> QED BY <1>4, <1>5, <2>2, <3>2, <4>1, <4>2 DEF LastOf
      <3>4. LastOf(modelTopic', c, k)
        BY <1>5, <3>2, <3>3 DEF LastOf
      <3> QED BY <1>5, <3>1, <3>2, <3>4 DEF TopicEnds
    <2> QED BY <2>1, <2>2
  <1>11. ASSUME NEW c \in DOMAIN deployed'
         PROVE  LogEnds(c)' \/ \E n \in telling' : modelTopic'[n].deployment = c
    <2>1. CASE c = d
      BY <1>4, <1>5, <2>1
    <2>2. CASE c # d
      <3>1. c \in DOMAIN deployed /\ deployed'[c] = deployed[c]
        BY <2>2
      <3>2. CASE LogEnds(c)
        BY <1>4, <3>1, <3>2 DEF LogEnds
      <3>3. CASE \E n \in telling : modelTopic[n].deployment = c
        BY <1>4, <1>5, <3>3 DEF DeploymentInv, DeploymentsTyped
      <3> QED BY <3>1, <3>2, <3>3 DEF DeploymentInv
    <2> QED BY <2>1, <2>2
  <1> QED BY <1>6, <1>9, <1>10, <1>11 DEF DeploymentInv

\* The rest of a handler: the log event tells the status of now.
LEMMA TellLogKeeps ==
    ASSUME DeploymentInv, NEW n \in telling, TellLog(n)
    PROVE  DeploymentInv'
  <1>1. PICK d : d = modelTopic[n].deployment
    OBVIOUS
  <1>2. PICK last : last = Len(modelLog) + 1
    OBVIOUS
  <1>3. d \in DOMAIN deployed /\ DOMAIN deployed = 1 .. Len(deployed) /\ deployed[d] \in DeployStatuses
    BY <1>1 DEF DeploymentInv, DeploymentsTyped
  <1>4. PICK e : e = [deployment |-> d, status |-> deployed[d]]
    OBVIOUS
  <1>5. /\ modelLog' = Append(modelLog, e) /\ modelLog \in Seq(LogEvents) /\ e \in LogEvents
        /\ e.deployment = d /\ e.status = deployed[d]
        /\ telling' = telling \ {n} /\ deployed' = deployed /\ modelTopic' = modelTopic
    BY <1>1, <1>3, <1>4 DEF TellLog, LogEvents, DeploymentInv, DeploymentsTyped
  <1>6. /\ Len(modelLog) \in Nat /\ DOMAIN modelLog = 1 .. Len(modelLog)
        /\ Len(modelLog') = last /\ DOMAIN modelLog' = 1 .. last
        /\ modelLog'[last] = e /\ last \in DOMAIN modelLog'
        /\ \A k \in DOMAIN modelLog : modelLog'[k] = modelLog[k] /\ k \in DOMAIN modelLog'
    BY <1>2, <1>5
  <1>7. DeploymentsTyped'
    <2>1. modelLog' \in Seq(LogEvents)
      BY <1>5
    <2> QED BY <1>5, <2>1 DEF DeploymentInv, DeploymentsTyped
  <1>8. ASSUME NEW c \in DOMAIN deployed'
        PROVE  LogEnds(c)' \/ \E i \in telling' : modelTopic'[i].deployment = c
    <2>1. CASE c = d
      <3>1. \A i \in last + 1 .. Len(modelLog') : FALSE
        BY <1>2, <1>6
      <3>2. LastOf(modelLog', d, last)
        BY <1>5, <1>6, <3>1 DEF LastOf
      <3> QED BY <1>5, <1>6, <2>1, <3>2 DEF LogEnds
    <2>2. CASE c # d /\ LogEnds(c)
      <3>1. PICK k \in DOMAIN modelLog : LastOf(modelLog, c, k) /\ modelLog[k].status = deployed[c]
        BY <2>2 DEF LogEnds
      <3>2. ASSUME NEW i \in k + 1 .. Len(modelLog') PROVE modelLog'[i].deployment # c
        <4>1. i = last \/ i \in k + 1 .. Len(modelLog)
          BY <1>2, <1>6
        <4>2. i \in k + 1 .. Len(modelLog) => i \in DOMAIN modelLog
          BY <1>6, <3>1
        <4> QED BY <1>5, <1>6, <2>2, <3>1, <4>1, <4>2 DEF LastOf
      <3>3. LastOf(modelLog', c, k)
        BY <1>6, <3>1, <3>2 DEF LastOf
      <3> QED BY <1>5, <1>6, <3>1, <3>3 DEF LogEnds
    <2>3. CASE c # d /\ ~LogEnds(c)
      <3>1. PICK i \in telling : modelTopic[i].deployment = c
        BY <1>5, <2>3 DEF DeploymentInv
      <3> QED BY <1>1, <1>5, <2>3, <3>1
    <2> QED BY <2>1, <2>2, <2>3
  <1>9. \A c \in DOMAIN deployed' : TopicEnds(c)'
    BY <1>5 DEF DeploymentInv, TopicEnds
  <1> QED BY <1>5, <1>7, <1>8, <1>9 DEF DeploymentInv

\* Requests and rollouts leave a log that tells the present status.
LEMMA DeploymentInvStep == DeploymentInv /\ [DeploymentsNext]_deploymentVars => DeploymentInv'
  <1> SUFFICES ASSUME DeploymentInv, [DeploymentsNext]_deploymentVars PROVE DeploymentInv'
    OBVIOUS
  <1>1. deployed \in Seq(DeployStatuses) /\ DOMAIN deployed = 1 .. Len(deployed) /\ Len(deployed) \in Nat
    BY DEF DeploymentInv, DeploymentsTyped
  <1>2. CASE CreateDeployment
    <2>1. PICK d : d = Len(deployed) + 1
      OBVIOUS
    <2>2. deployed' = Append(deployed, "deploying") /\ Broadcast(d, "none")
      BY <1>2, <2>1 DEF CreateDeployment
    <2>3. "deploying" \in DeployStatuses
      BY DEF DeployStatuses
    <2>4. /\ deployed' \in Seq(DeployStatuses) /\ d \in DOMAIN deployed' /\ deployed'[d] = "deploying"
          /\ d \notin DOMAIN deployed /\ DOMAIN deployed' = DOMAIN deployed \cup {d}
          /\ \A c \in DOMAIN deployed : c # d => deployed'[c] = deployed[c]
      BY <1>1, <2>1, <2>2, <2>3
    <2> QED BY <2>2, <2>3, <2>4, BroadcastKeeps
  <1>3. ASSUME NEW d \in DOMAIN deployed, NEW status \in DeployStatuses, MoveTo(d, status)
        PROVE  DeploymentInv'
    <2>1. /\ deployed' = [deployed EXCEPT ![d] = status] /\ Broadcast(d, deployed[d])
          /\ deployed[d] # status
      BY <1>3 DEF MoveTo
    <2>2. /\ deployed' \in Seq(DeployStatuses) /\ deployed[d] \in DeployStatuses
          /\ DOMAIN deployed' = DOMAIN deployed /\ d \in DOMAIN deployed' /\ deployed'[d] = status
          /\ \A c \in DOMAIN deployed : c # d => deployed'[c] = deployed[c]
      BY <1>1, <2>1
    <2> QED BY <2>1, <2>2, BroadcastKeeps
  <1>4. ASSUME NEW n \in telling, TellLog(n) PROVE DeploymentInv'
    BY <1>4, TellLogKeeps
  <1>5. CASE UNCHANGED deploymentVars
    BY <1>5 DEF deploymentVars, DeploymentInv, DeploymentsTyped, TopicEnds, LogEnds
  <1>6. "active" \in DeployStatuses /\ "inactive" \in DeployStatuses
    BY DEF DeployStatuses
  <1> QED BY <1>2, <1>3, <1>4, <1>5, <1>6 DEF DeploymentsNext, Activate, Deactivate

\* A subscriber of the topic can follow each deployment from its creation to the status it
\* has, and the log ends in it once no handler awaits, however many handlers overlap and in
\* whatever order they go on.
THEOREM StatusAlwaysTraceable == DeploymentsSpec => []StatusTraceable
  <1>1. DeploymentsInit => DeploymentInv
    BY DEF DeploymentsInit, DeploymentInv, DeploymentsTyped
  <1>2. DeploymentInv => StatusTraceable
    BY DEF DeploymentInv, Continues, TopicEnds, LogEnds, StatusTraceable, ModelChainUnbroken,
           LogEndsCurrent
  <1> QED BY <1>1, <1>2, DeploymentInvStep, PTL DEF DeploymentsSpec

-----------------------------------------------------------------------------
(* Strategy instances and risk overrides. *)

\* A set of natural numbers has a least element.
LEMMA LeastOfSet ==
    ASSUME NEW T \in SUBSET Nat, T # {}
    PROVE  \E n \in T : \A m \in T : n <= m
  <1>1. PICK R : R = OpToRel(<, Nat)
    OBVIOUS
  <1>2. IsWellFoundedOn(R, Nat)
    BY <1>1, NatLessThanWellFounded
  <1>3. PICK n \in T : \A m \in T : ~(<<m, n>> \in R)
    BY <1>2, WFMin
  <1>4. ASSUME NEW m \in T PROVE n <= m
    <2>1. m \in Nat /\ n \in Nat /\ <<m, n>> \notin R
      BY <1>3
    <2>2. ~(m < n)
      BY <1>1, <2>1 DEF OpToRel
    <2> QED BY <2>1, <2>2
  <1> QED BY <1>4

\* A set of numbers that are at most n has a greatest element.
LEMMA GreatestOfSet ==
    ASSUME NEW n \in Nat, NEW T, T # {}, \A m \in T : m \in Nat /\ m <= n
    PROVE  \E m \in T : \A l \in T : l <= m
  <1>1. PICK U : U = {i \in Nat : i <= n /\ n - i \in T}
    OBVIOUS
  <1>2. \A m \in T : n - m \in U
    <2> SUFFICES ASSUME NEW m \in T PROVE n - m \in U
      OBVIOUS
    <2>1. m \in Nat /\ n - m \in Nat /\ n - m <= n /\ n - (n - m) = m
      OBVIOUS
    <2> QED BY <1>1, <2>1
  <1>3. PICK i \in U : \A j \in U : i <= j
    <2>1. U \in SUBSET Nat /\ U # {}
      BY <1>1, <1>2
    <2> QED BY <2>1, LeastOfSet
  <1>4. n - i \in T /\ i \in Nat
    BY <1>1
  <1>5. \A l \in T : l <= n - i
    BY <1>2, <1>3, <1>4
  <1> QED BY <1>4, <1>5

InstanceRows ==
    [key : Keys, status : {"created", "running", "stopped"}, intent : StrategyIntents]
RulingRows == [instance : Nat, approved : BOOLEAN, posted : Nat,
               failed : SUBSET (OtherRules \cup {"required_fields", "max_order_size", "max_notional"})]
StrategyEvents == [instance : Nat, action : {"create", "start", "stop"}]

StrategyTyped ==
    /\ instances \in Seq(InstanceRows)
    /\ overrides \in Seq(OverrideRows) /\ trail \in Seq(OverrideRows)
    /\ rulings \in Seq(RulingRows) /\ strategyLog \in Seq(StrategyEvents)
    /\ \A k \in DOMAIN rulings :
        rulings[k].instance \in DOMAIN instances /\ rulings[k].posted <= Len(trail)
    /\ \A n \in DOMAIN strategyLog : strategyLog[n].instance \in DOMAIN instances

\* The overrides are the audit trail, newest first.
NewestFirst ==
    /\ Len(overrides) = Len(trail)
    /\ \A n \in 1 .. Len(trail) : overrides[n] = trail[Len(trail) + 1 - n]

\* The last of the first n overrides posted that names the strategy or the symbol.
LastNaming(n, key, intent) ==
    LET all == {k \in 1 .. n : Matches(trail[k], key, intent)}
    IN  IF all = {} THEN <<>> ELSE <<trail[CHOOSE k \in all : \A m \in all : m <= k]>>

Fits(intent, last) ==
    /\ intent.quantity > 0 /\ intent.symbol # NoSymbol /\ intent.broken = {}
    /\ intent.quantity <= CapOf(last, "quantity", ConfigQuantity)
    /\ intent.price # 0
       => intent.quantity * intent.price <= CapOf(last, "notional", ConfigNotional)

\* The k-th decision follows the newest override before it.
DecidedWell(k) ==
    LET r == rulings[k]
        intent == instances[r.instance].intent
    IN  r.approved <=> Fits(intent, LastNaming(r.posted, instances[r.instance].key, intent))

\* The n-th event of an instance follows the one before it.
Alternates(n) ==
    IF EarlierOn(n) = {} THEN strategyLog[n].action = "create"
    ELSE \E m \in EarlierOn(n) :
            /\ \A l \in EarlierOn(n) : l <= m
            /\ strategyLog[n].action = IF strategyLog[m].action = "start" THEN "stop" ELSE "start"

LastEvent(i, n) ==
    /\ n \in DOMAIN strategyLog /\ strategyLog[n].instance = i
    /\ \A m \in n + 1 .. Len(strategyLog) : strategyLog[m].instance # i

EndsAs(i) ==
    \E n \in DOMAIN strategyLog : LastEvent(i, n) /\ instances[i].status = LeftIn(strategyLog[n].action)

CountsAgree(i) == Cardinality(Approvals(i)) = Cardinality(StartsOf(i))

LogInOrder ==
    /\ \A n \in DOMAIN strategyLog : Alternates(n)
    /\ \A i \in DOMAIN instances : EndsAs(i)

\* The inductive invariant.
StrategyInv ==
    /\ StrategyTyped
    /\ NewestFirst
    /\ \A k \in DOMAIN rulings : DecidedWell(k)
    /\ \A i \in DOMAIN instances : CountsAgree(i)
    /\ LogInOrder

\* The first match among the overrides is the last of the trail.
LEMMA FoundIsLast ==
    ASSUME StrategyTyped, NewestFirst, NEW key, NEW intent
    PROVE  FoundOverride(key, intent) = LastNaming(Len(trail), key, intent)
  <1>1. PICK all : all = {n \in DOMAIN overrides : Matches(overrides[n], key, intent)}
    OBVIOUS
  <1>2. PICK posted : posted = {k \in 1 .. Len(trail) : Matches(trail[k], key, intent)}
    OBVIOUS
  <1>3. PICK last : last = Len(trail)
    OBVIOUS
  <1>4. last \in Nat /\ DOMAIN overrides = 1 .. last
    BY <1>3 DEF StrategyTyped, NewestFirst
  <1>5. \A n \in 1 .. last : last + 1 - n \in 1 .. last /\ overrides[n] = trail[last + 1 - n]
    BY <1>3, <1>4 DEF NewestFirst
  <1>6. \A n \in all : n \in 1 .. last /\ last + 1 - n \in posted
    BY <1>1, <1>2, <1>3, <1>4, <1>5
  <1>7. \A k \in posted : k \in 1 .. last /\ last + 1 - k \in all
    <2> SUFFICES ASSUME NEW k \in posted PROVE k \in 1 .. last /\ last + 1 - k \in all
      OBVIOUS
    <2>1. k \in 1 .. last /\ Matches(trail[k], key, intent)
      BY <1>2, <1>3
    <2>2. PICK n : n = last + 1 - k
      OBVIOUS
    <2>3. n \in 1 .. last /\ last + 1 - n = k
      BY <1>4, <2>1, <2>2
    <2>4. overrides[n] = trail[k]
      BY <1>5, <2>3
    <2> QED BY <1>1, <1>4, <2>1, <2>2, <2>3, <2>4
  <1>8. CASE all = {}
    BY <1>1, <1>2, <1>7, <1>8 DEF FoundOverride, LastNaming
  <1>9. CASE all # {}
    <2>1. PICK n : n = CHOOSE x \in all : \A m \in all : x <= m
      OBVIOUS
    <2>2. \E x \in all : \A m \in all : x <= m
      <3>1. all \in SUBSET Nat
        BY <1>4, <1>6
      <3> QED BY <1>9, <3>1, LeastOfSet
    <2>3. n \in all /\ \A m \in all : n <= m
      BY <2>1, <2>2
    <2>4. PICK k : k = CHOOSE x \in posted : \A m \in posted : m <= x
      OBVIOUS
    <2>5. PICK q : q = last + 1 - n
      OBVIOUS
    <2>6. q \in posted /\ q \in Int /\ n \in Int
      BY <1>4, <1>6, <2>3, <2>5
    <2>7. ASSUME NEW m \in posted PROVE m <= q
      <3>1. m \in 1 .. last /\ n <= last + 1 - m
        BY <1>7, <2>3
      <3> QED BY <1>4, <2>5, <2>6, <3>1
    <2>8. k \in posted /\ \A m \in posted : m <= k
      BY <2>4, <2>6, <2>7
    <2>9. k = q
      <3>1. k <= q /\ q <= k /\ k \in Int
        BY <1>7, <2>6, <2>7, <2>8
      <3> QED BY <2>6, <3>1
    <2>10. overrides[n] = trail[k]
      BY <1>5, <1>6, <2>3, <2>5, <2>9
    <2>11. FoundOverride(key, intent) = <<overrides[n]>>
      BY <1>1, <1>9, <2>1 DEF FoundOverride
    <2>12. LastNaming(Len(trail), key, intent) = <<trail[k]>>
      BY <1>2, <2>4, <2>6 DEF LastNaming
    <2> QED BY <2>10, <2>11, <2>12
  <1> QED BY <1>8, <1>9

\* What a match leaves open the configuration fills.
LEMMA CapsAreNumbers ==
    ASSUME StrategyTyped, NEW key, NEW intent
    PROVE  /\ CapOf(FoundOverride(key, intent), "quantity", ConfigQuantity) \in Nat
           /\ CapOf(FoundOverride(key, intent), "notional", ConfigNotional) \in Nat
  <1>1. PICK all : all = {n \in DOMAIN overrides : Matches(overrides[n], key, intent)}
    OBVIOUS
  <1>2. PICK found : found = FoundOverride(key, intent)
    OBVIOUS
  <1>3. found = <<>> \/ found[1] \in OverrideRows
    <2>1. CASE all = {}
      BY <1>1, <1>2, <2>1 DEF FoundOverride
    <2>2. CASE all # {}
      <3>1. PICK n : n = CHOOSE x \in all : \A m \in all : x <= m
        OBVIOUS
      <3>2. \E x \in all : \A m \in all : x <= m
        <4>1. all \in SUBSET Nat
          BY <1>1 DEF StrategyTyped
        <4> QED BY <2>2, <4>1, LeastOfSet
      <3>3. n \in DOMAIN overrides
        BY <1>1, <3>1, <3>2
      <3>4. found = <<overrides[n]>>
        BY <1>1, <1>2, <2>2, <3>1 DEF FoundOverride
      <3>5. overrides[n] \in OverrideRows
        BY <3>3 DEF StrategyTyped
      <3> QED BY <3>4, <3>5
    <2> QED BY <2>1, <2>2
  <1>4. /\ found # <<>> => found[1].quantity \in Nat /\ found[1].notional \in Nat
        /\ ConfigQuantity \in Nat /\ ConfigNotional \in Nat
    BY <1>3, StrategyConstants DEF OverrideRows, StrategyConstants
  <1> QED BY <1>2, <1>4 DEF CapOf

\* The authority approves what fits the limits of the newest match.
LEMMA ApprovedIfFits ==
    ASSUME StrategyTyped, NewestFirst, NEW key, NEW intent \in StrategyIntents
    PROVE  FailedRules(key, intent) = {} <=> Fits(intent, LastNaming(Len(trail), key, intent))
  <1>1. PICK found : found = FoundOverride(key, intent)
    OBVIOUS
  <1>2. PICK quantity : quantity = CapOf(found, "quantity", ConfigQuantity)
    OBVIOUS
  <1>3. PICK notional : notional = CapOf(found, "notional", ConfigNotional)
    OBVIOUS
  <1>4. quantity \in Nat /\ notional \in Nat
    BY <1>1, <1>2, <1>3, CapsAreNumbers
  <1>5. PICK size : size = intent.quantity * intent.price
    OBVIOUS
  <1>6. intent.quantity \in Nat /\ intent.price \in Nat /\ size \in Nat
    <2>1. intent.quantity \in Nat /\ intent.price \in Nat
      BY StrategyConstants DEF StrategyIntents, StrategyConstants
    <2> QED BY <1>5, <2>1
  <1>7. FailedRules(key, intent) = {} <=>
            /\ intent.quantity # 0 /\ intent.symbol # NoSymbol
            /\ ~(intent.quantity > quantity)
            /\ ~(intent.price # 0 /\ size > notional)
            /\ intent.broken = {}
    BY <1>1, <1>2, <1>3, <1>5 DEF FailedRules
  <1>8. Fits(intent, found) <=>
            /\ intent.quantity > 0 /\ intent.symbol # NoSymbol /\ intent.broken = {}
            /\ intent.quantity <= quantity
            /\ intent.price # 0 => size <= notional
    BY <1>2, <1>3, <1>5 DEF Fits
  <1>9. found = LastNaming(Len(trail), key, intent)
    BY <1>1, FoundIsLast
  <1> QED BY <1>4, <1>6, <1>7, <1>8, <1>9

\* A decision stands while its instance keeps key and intent and the trail only grows.
LEMMA DecisionStands ==
    ASSUME StrategyInv, NEW k \in DOMAIN rulings, rulings'[k] = rulings[k],
           instances'[rulings[k].instance].key = instances[rulings[k].instance].key,
           instances'[rulings[k].instance].intent = instances[rulings[k].instance].intent,
           \A m \in 1 .. Len(trail) : trail'[m] = trail[m]
    PROVE  DecidedWell(k)'
  <1>0. PICK r : r = rulings[k]
    OBVIOUS
  <1>1. r.posted \in Nat /\ r.posted <= Len(trail) /\ Len(trail) \in Nat
    <2>1. rulings[k] \in RulingRows /\ Len(trail) \in Nat /\ rulings[k].posted <= Len(trail)
      BY DEF StrategyInv, StrategyTyped
    <2> QED BY <1>0, <2>1 DEF RulingRows
  <1>2. \A m \in 1 .. r.posted : trail'[m] = trail[m]
    BY <1>1
  <1>3. PICK key : key = instances[r.instance].key
    OBVIOUS
  <1>4. PICK intent : intent = instances[r.instance].intent
    OBVIOUS
  <1>5. LastNaming(r.posted, key, intent)' = LastNaming(r.posted, key, intent)
    <2>1. PICK all : all = {m \in 1 .. r.posted : Matches(trail[m], key, intent)}
      OBVIOUS
    <2>2. all = {m \in 1 .. r.posted : Matches(trail'[m], key, intent)}
      BY <1>2, <2>1
    <2>3. CASE all = {}
      BY <2>1, <2>2, <2>3 DEF LastNaming
    <2>4. CASE all # {}
      <3>1. PICK top : top = CHOOSE m \in all : \A l \in all : l <= m
        OBVIOUS
      <3>2. \E m \in all : \A l \in all : l <= m
        <4>1. \A m \in all : m \in Nat /\ m <= r.posted
          BY <1>1, <2>1
        <4> QED BY <1>1, <2>4, <4>1, GreatestOfSet
      <3>3. top \in all
        BY <3>1, <3>2
      <3>4. trail'[top] = trail[top]
        BY <1>2, <2>1, <3>3
      <3>5. LastNaming(r.posted, key, intent) = <<trail[top]>>
        BY <2>1, <2>4, <3>1 DEF LastNaming
      <3>6. LastNaming(r.posted, key, intent)' = <<trail'[top]>>
        BY <2>2, <2>4, <3>1 DEF LastNaming
      <3> QED BY <3>4, <3>5, <3>6
    <2> QED BY <2>3, <2>4
  <1>6. instances'[r.instance].key = key /\ instances'[r.instance].intent = intent
    BY <1>0, <1>3, <1>4
  <1>7. r.approved <=> Fits(intent, LastNaming(r.posted, key, intent))
    BY <1>0, <1>3, <1>4 DEF DecidedWell, StrategyInv
  <1>8. r.approved <=> Fits(intent, LastNaming(r.posted, key, intent)')
    BY <1>5, <1>7
  <1> QED BY <1>0, <1>6, <1>8 DEF DecidedWell, Fits

\* The three last words of an instance's log leave it in three statuses.
LEMMA LeftApart ==
    ASSUME NEW a \in {"create", "start", "stop"}
    PROVE  /\ LeftIn(a) \in {"created", "running", "stopped"}
           /\ LeftIn(a) = "running" <=> a = "start"
  BY DEF LeftIn

\* An event added to the log continues what its instance did.
LEMMA EventAdded ==
    ASSUME StrategyInv, NEW i \in Nat, NEW a \in {"create", "start", "stop"}, NEW e,
           e = [instance |-> i, action |-> a], strategyLog' = Append(strategyLog, e),
           i \in DOMAIN instances', instances'[i].status = LeftIn(a),
           \A c \in DOMAIN instances' :
               c # i => c \in DOMAIN instances /\ instances'[c].status = instances[c].status,
           \/ i \notin DOMAIN instances /\ a = "create"
           \/ /\ i \in DOMAIN instances
              /\ a = IF instances[i].status = "running" THEN "stop" ELSE "start"
    PROVE  LogInOrder'
  <1>1. PICK last : last = Len(strategyLog) + 1
    OBVIOUS
  <1>2. /\ strategyLog \in Seq(StrategyEvents) /\ e \in StrategyEvents
        /\ e.instance = i /\ e.action = a
    BY DEF StrategyInv, StrategyTyped, StrategyEvents
  <1>3. /\ Len(strategyLog) \in Nat /\ DOMAIN strategyLog = 1 .. Len(strategyLog)
        /\ Len(strategyLog') = last /\ DOMAIN strategyLog' = 1 .. last
        /\ strategyLog'[last] = e
        /\ \A n \in DOMAIN strategyLog : strategyLog'[n] = strategyLog[n]
        /\ \A n \in DOMAIN strategyLog' : n \in DOMAIN strategyLog \/ n = last
        /\ last \in DOMAIN strategyLog' /\ last \notin DOMAIN strategyLog
        /\ \A n \in DOMAIN strategyLog : n \in DOMAIN strategyLog'
    BY <1>1, <1>2
  <1>4. \A n \in DOMAIN strategyLog :
            strategyLog[n].instance \in DOMAIN instances
            /\ strategyLog[n].action \in {"create", "start", "stop"}
    <2>1. \A n \in DOMAIN strategyLog : strategyLog[n] \in StrategyEvents
      BY <1>2
    <2> QED BY <2>1 DEF StrategyInv, StrategyTyped, StrategyEvents
  <1>5. ASSUME NEW n \in DOMAIN strategyLog PROVE Alternates(n)'
    <2>1. n \in Nat /\ \A m \in 1 .. n - 1 : m \in DOMAIN strategyLog
      BY <1>3
    <2>2. EarlierOn(n)' = EarlierOn(n) /\ \A m \in EarlierOn(n) : m \in DOMAIN strategyLog
      BY <1>3, <2>1 DEF EarlierOn
    <2>3. Alternates(n)
      BY DEF StrategyInv, LogInOrder
    <2>4. strategyLog'[n] = strategyLog[n] /\ \A m \in EarlierOn(n) : strategyLog'[m] = strategyLog[m]
      BY <1>3, <2>2
    <2> QED BY <2>2, <2>3, <2>4 DEF Alternates
  <1>6. EarlierOn(last)' = {m \in DOMAIN strategyLog : strategyLog[m].instance = i}
    <2>1. 1 .. last - 1 = DOMAIN strategyLog
      BY <1>1, <1>3
    <2> QED BY <1>2, <1>3, <2>1 DEF EarlierOn
  <1>7. Alternates(last)'
    <2>1. CASE i \notin DOMAIN instances
      <3>1. EarlierOn(last)' = {}
        BY <1>4, <1>6, <2>1
      <3> QED BY <1>2, <1>3, <2>1, <3>1 DEF Alternates
    <2>2. CASE i \in DOMAIN instances
      <3>1. PICK n \in DOMAIN strategyLog :
                LastEvent(i, n) /\ instances[i].status = LeftIn(strategyLog[n].action)
        BY <2>2 DEF StrategyInv, LogInOrder, EndsAs
      <3>2. n \in EarlierOn(last)'
        BY <1>6, <3>1 DEF LastEvent
      <3>3. ASSUME NEW m \in EarlierOn(last)' PROVE m <= n
        <4>1. m \in 1 .. Len(strategyLog) /\ strategyLog[m].instance = i
          BY <1>3, <1>6
        <4>2. ~(m \in n + 1 .. Len(strategyLog))
          BY <3>1, <4>1 DEF LastEvent
        <4> QED BY <1>3, <3>1, <4>1, <4>2
      <3>4. a = IF strategyLog[n].action = "start" THEN "stop" ELSE "start"
        BY <1>4, <2>2, <3>1, LeftApart
      <3>5. strategyLog'[n] = strategyLog[n] /\ strategyLog'[last].action = a
        BY <1>2, <1>3
      <3>6. EarlierOn(last)' # {}
        BY <3>2
      <3>7. \E m \in EarlierOn(last)' :
                /\ \A l \in EarlierOn(last)' : l <= m
                /\ strategyLog'[last].action = IF strategyLog'[m].action = "start" THEN "stop" ELSE "start"
        BY <3>2, <3>3, <3>4, <3>5
      <3> QED BY <3>6, <3>7 DEF Alternates
    <2> QED BY <2>1, <2>2
  <1>8. ASSUME NEW c \in DOMAIN instances' PROVE EndsAs(c)'
    <2>1. CASE c = i
      <3>1. \A m \in last + 1 .. Len(strategyLog') : FALSE
        BY <1>1, <1>3
      <3>2. LastEvent(i, last)'
        BY <1>2, <1>3, <3>1 DEF LastEvent
      <3> QED BY <1>2, <1>3, <2>1, <3>2 DEF EndsAs
    <2>2. CASE c # i
      <3>1. c \in DOMAIN instances /\ instances'[c].status = instances[c].status
        BY <2>2
      <3>2. PICK n \in DOMAIN strategyLog :
                LastEvent(c, n) /\ instances[c].status = LeftIn(strategyLog[n].action)
        BY <3>1 DEF StrategyInv, LogInOrder, EndsAs
      <3>3. ASSUME NEW m \in n + 1 .. Len(strategyLog') PROVE strategyLog'[m].instance # c
        <4>1. m = last \/ m \in n + 1 .. Len(strategyLog)
          BY <1>1, <1>3
        <4>2. m \in n + 1 .. Len(strategyLog) => m \in DOMAIN strategyLog
          BY <1>3, <3>2
        <4> QED BY <1>2, <1>3, <2>2, <3>2, <4>1, <4>2 DEF LastEvent
      <3>4. LastEvent(c, n)'
        BY <1>3, <3>2, <3>3 DEF LastEvent
      <3>5. strategyLog'[n] = strategyLog[n] /\ n \in DOMAIN strategyLog'
        BY <1>3
      <3> QED BY <3>1, <3>2, <3>4, <3>5 DEF EndsAs
    <2> QED BY <2>1, <2>2
  <1> QED BY <1>3, <1>5, <1>7, <1>8 DEF LogInOrder

\* Positions of a log are finitely many.
LEMMA PositionsFinite ==
    ASSUME StrategyTyped, NEW i
    PROVE  IsFiniteSet(Approvals(i)) /\ IsFiniteSet(StartsOf(i))
  <1>1. /\ Len(rulings) \in Nat /\ DOMAIN rulings = 1 .. Len(rulings)
        /\ Len(strategyLog) \in Nat /\ DOMAIN strategyLog = 1 .. Len(strategyLog)
    BY DEF StrategyTyped
  <1>2. IsFiniteSet(1 .. Len(rulings)) /\ IsFiniteSet(1 .. Len(strategyLog))
    BY <1>1, FS_Interval
  <1>3. Approvals(i) \subseteq 1 .. Len(rulings) /\ StartsOf(i) \subseteq 1 .. Len(strategyLog)
    BY <1>1 DEF Approvals, StartsOf
  <1> QED BY <1>2, <1>3, FS_Subset

\* The log of instances that do not change.
LEMMA LogKept ==
    ASSUME LogInOrder, strategyLog' = strategyLog, instances' = instances
    PROVE  LogInOrder'
  <1>1. ASSUME NEW n \in DOMAIN strategyLog' PROVE Alternates(n)'
    <2>1. EarlierOn(n)' = EarlierOn(n)
      BY DEF EarlierOn
    <2>2. Alternates(n)
      BY DEF LogInOrder
    <2> QED BY <2>1, <2>2 DEF Alternates
  <1>2. ASSUME NEW i \in DOMAIN instances' PROVE EndsAs(i)'
    <2>1. PICK n \in DOMAIN strategyLog :
              LastEvent(i, n) /\ instances[i].status = LeftIn(strategyLog[n].action)
      BY DEF LogInOrder, EndsAs
    <2>2. LastEvent(i, n)'
      BY <2>1 DEF LastEvent
    <2> QED BY <2>1, <2>2 DEF EndsAs
  <1> QED BY <1>1, <1>2 DEF LogInOrder

\* A new instance has no event yet.
LEMMA CreateKeeps ==
    ASSUME StrategyInv, NEW key \in Keys, NEW intent \in StrategyIntents,
           CreateInstance(key, intent)
    PROVE  StrategyInv'
  <1>1. PICK i : i = Len(instances) + 1
    OBVIOUS
  <1>2. PICK row : row = [key |-> key, status |-> "created", intent |-> intent]
    OBVIOUS
  <1>3. PICK e : e = [instance |-> i, action |-> "create"]
    OBVIOUS
  <1>4. /\ instances' = Append(instances, row) /\ strategyLog' = Append(strategyLog, e)
        /\ overrides' = overrides /\ trail' = trail /\ rulings' = rulings
    BY <1>1, <1>2, <1>3 DEF CreateInstance
  <1>5. instances \in Seq(InstanceRows) /\ row \in InstanceRows /\ row.status = "created"
    BY <1>2 DEF StrategyInv, StrategyTyped, InstanceRows
  <1>6. /\ Len(instances) \in Nat /\ DOMAIN instances = 1 .. Len(instances) /\ i \in Nat
        /\ DOMAIN instances' = 1 .. i /\ i \in DOMAIN instances' /\ i \notin DOMAIN instances
        /\ instances'[i] = row
        /\ \A c \in DOMAIN instances : instances'[c] = instances[c] /\ c \in DOMAIN instances'
        /\ \A c \in DOMAIN instances' : c # i => c \in DOMAIN instances
    BY <1>1, <1>4, <1>5
  <1>7. StrategyTyped'
    <2>1. instances' \in Seq(InstanceRows)
      BY <1>4, <1>5
    <2>2. strategyLog \in Seq(StrategyEvents) /\ e \in StrategyEvents /\ e.instance = i
      BY <1>3, <1>6 DEF StrategyInv, StrategyTyped, StrategyEvents
    <2>3. /\ strategyLog' \in Seq(StrategyEvents)
          /\ \A n \in DOMAIN strategyLog' :
                strategyLog'[n] = e \/ (n \in DOMAIN strategyLog /\ strategyLog'[n] = strategyLog[n])
      BY <1>4, <2>2
    <2>4. \A n \in DOMAIN strategyLog' : strategyLog'[n].instance \in DOMAIN instances'
      BY <1>6, <2>2, <2>3 DEF StrategyInv, StrategyTyped
    <2>5. \A k \in DOMAIN rulings : rulings[k].instance \in DOMAIN instances'
      BY <1>6 DEF StrategyInv, StrategyTyped
    <2> QED BY <1>4, <2>1, <2>3, <2>4, <2>5 DEF StrategyInv, StrategyTyped
  <1>8. ASSUME NEW k \in DOMAIN rulings' PROVE DecidedWell(k)'
    <2>1. k \in DOMAIN rulings /\ rulings[k].instance \in DOMAIN instances
      BY <1>4 DEF StrategyInv, StrategyTyped
    <2> QED BY <1>4, <1>6, <2>1, DecisionStands
  <1>9. ASSUME NEW c \in DOMAIN instances' PROVE CountsAgree(c)'
    <2>1. Approvals(c)' = Approvals(c)
      BY <1>4 DEF Approvals
    <2>2. StartsOf(c)' = StartsOf(c)
      <3>1. strategyLog \in Seq(StrategyEvents) /\ e.action = "create"
        BY <1>3 DEF StrategyInv, StrategyTyped
      <3>2. PICK last : last = Len(strategyLog) + 1
        OBVIOUS
      <3>3. /\ DOMAIN strategyLog' = DOMAIN strategyLog \cup {last} /\ strategyLog'[last] = e
            /\ \A n \in DOMAIN strategyLog : strategyLog'[n] = strategyLog[n]
        BY <1>4, <3>1, <3>2
      <3> QED BY <3>1, <3>3 DEF StartsOf
    <2>3. CASE c \in DOMAIN instances
      BY <2>1, <2>2, <2>3 DEF StrategyInv, CountsAgree
    <2>4. CASE c \notin DOMAIN instances
      <3>1. Approvals(c) = {} /\ StartsOf(c) = {}
        BY <2>4 DEF StrategyInv, StrategyTyped, Approvals, StartsOf
      <3> QED BY <2>1, <2>2, <3>1 DEF CountsAgree
    <2> QED BY <2>3, <2>4
  <1>10. LogInOrder'
    <2>1. instances'[i].status = LeftIn("create")
      BY <1>5, <1>6 DEF LeftIn
    <2> QED BY <1>3, <1>4, <1>6, <2>1, EventAdded
  <1> QED BY <1>4, <1>7, <1>8, <1>9, <1>10 DEF StrategyInv, NewestFirst

\* What a change of status leaves of the instances.
LEMMA StatusSet ==
    ASSUME StrategyInv, NEW i \in DOMAIN instances,
           NEW status \in {"created", "running", "stopped"},
           instances' = [instances EXCEPT ![i].status = status]
    PROVE  /\ instances' \in Seq(InstanceRows) /\ DOMAIN instances' = DOMAIN instances /\ i \in Nat
           /\ instances'[i].status = status
           /\ \A c \in DOMAIN instances :
                /\ instances'[c].key = instances[c].key /\ instances'[c].intent = instances[c].intent
                /\ c # i => instances'[c] = instances[c]
  <1>1. instances \in Seq(InstanceRows) /\ instances[i] \in InstanceRows
    BY DEF StrategyInv, StrategyTyped
  <1>2. PICK row : row = [instances[i] EXCEPT !.status = status]
    OBVIOUS
  <1>3. /\ row \in InstanceRows /\ row.status = status /\ row.key = instances[i].key
        /\ row.intent = instances[i].intent
    BY <1>1, <1>2 DEF InstanceRows
  <1>4. instances' = [instances EXCEPT ![i] = row]
    BY <1>1, <1>2
  <1> QED BY <1>1, <1>3, <1>4

\* A stop leaves its event and the status it names.
LEMMA StopKeeps ==
    ASSUME StrategyInv, NEW i \in DOMAIN instances, StopInstance(i)
    PROVE  StrategyInv'
  <1>1. PICK e : e = [instance |-> i, action |-> "stop"]
    OBVIOUS
  <1>2. /\ instances' = [instances EXCEPT ![i].status = "stopped"]
        /\ instances[i].status = "running" /\ strategyLog' = Append(strategyLog, e)
        /\ overrides' = overrides /\ trail' = trail /\ rulings' = rulings
    BY <1>1 DEF StopInstance
  <1>3. /\ instances' \in Seq(InstanceRows) /\ DOMAIN instances' = DOMAIN instances /\ i \in Nat
        /\ instances'[i].status = "stopped"
        /\ \A c \in DOMAIN instances :
             /\ instances'[c].key = instances[c].key /\ instances'[c].intent = instances[c].intent
             /\ c # i => instances'[c] = instances[c]
    BY <1>2, StatusSet
  <1>4. PICK last : last = Len(strategyLog) + 1
    OBVIOUS
  <1>5. /\ strategyLog' \in Seq(StrategyEvents) /\ e.action = "stop" /\ e.instance = i
        /\ DOMAIN strategyLog' = DOMAIN strategyLog \cup {last} /\ strategyLog'[last] = e
        /\ \A n \in DOMAIN strategyLog : strategyLog'[n] = strategyLog[n]
    <2>1. strategyLog \in Seq(StrategyEvents) /\ e \in StrategyEvents
      BY <1>1, <1>3 DEF StrategyInv, StrategyTyped, StrategyEvents
    <2> QED BY <1>1, <1>2, <1>4, <2>1
  <1>6. StrategyTyped'
    BY <1>2, <1>3, <1>5 DEF StrategyInv, StrategyTyped
  <1>7. ASSUME NEW k \in DOMAIN rulings' PROVE DecidedWell(k)'
    <2>1. k \in DOMAIN rulings /\ rulings[k].instance \in DOMAIN instances
      BY <1>2 DEF StrategyInv, StrategyTyped
    <2> QED BY <1>2, <1>3, <2>1, DecisionStands
  <1>8. ASSUME NEW c \in DOMAIN instances' PROVE CountsAgree(c)'
    <2>1. Approvals(c)' = Approvals(c)
      BY <1>2 DEF Approvals
    <2>2. StartsOf(c)' = StartsOf(c)
      BY <1>5 DEF StartsOf
    <2> QED BY <1>3, <2>1, <2>2 DEF StrategyInv, CountsAgree
  <1>9. LogInOrder'
    <2>1. "stop" = IF instances[i].status = "running" THEN "stop" ELSE "start"
      BY <1>2
    <2>2. instances'[i].status = LeftIn("stop")
      BY <1>3 DEF LeftIn
    <2>3. \A c \in DOMAIN instances' :
              c # i => c \in DOMAIN instances /\ instances'[c].status = instances[c].status
      BY <1>3
    <2> QED BY <1>1, <1>2, <1>3, <2>1, <2>2, <2>3, EventAdded
  <1> QED BY <1>2, <1>6, <1>7, <1>8, <1>9 DEF StrategyInv, NewestFirst

\* A decision about an instance, before what follows from it.
LEMMA RulingAdded ==
    ASSUME StrategyInv, NEW i \in DOMAIN instances, NEW failed,
           failed = FailedRules(instances[i].key, instances[i].intent),
           rulings' = Append(rulings, Ruling(i, failed)), trail' = trail,
           DOMAIN instances' = DOMAIN instances,
           \A c \in DOMAIN instances :
              instances'[c].key = instances[c].key /\ instances'[c].intent = instances[c].intent
    PROVE  /\ rulings' \in Seq(RulingRows)
           /\ \A k \in DOMAIN rulings' :
                /\ rulings'[k].instance \in DOMAIN instances /\ rulings'[k].posted <= Len(trail)
                /\ DecidedWell(k)'
           /\ \A c : c # i \/ failed # {} => Approvals(c)' = Approvals(c)
           /\ failed = {} => Approvals(i)' = Approvals(i) \cup {Len(rulings) + 1}
           /\ Len(rulings) + 1 \notin Approvals(i)
  <1>1. PICK r : r = Ruling(i, failed)
    OBVIOUS
  <1>2. PICK last : last = Len(rulings) + 1
    OBVIOUS
  <1>3. PICK key : key = instances[i].key
    OBVIOUS
  <1>4. PICK intent : intent = instances[i].intent
    OBVIOUS
  <1>5. i \in Nat /\ intent \in StrategyIntents /\ Len(trail) \in Nat /\ rulings \in Seq(RulingRows)
    <2>1. instances[i] \in InstanceRows /\ i \in Nat
      BY DEF StrategyInv, StrategyTyped
    <2> QED BY <1>4, <2>1 DEF StrategyInv, StrategyTyped, InstanceRows
  <1>6. failed \in SUBSET (OtherRules \cup {"required_fields", "max_order_size", "max_notional"})
    BY <1>4, <1>5 DEF FailedRules, StrategyIntents
  <1>7. /\ r \in RulingRows /\ r.instance = i /\ r.posted = Len(trail)
        /\ r.approved <=> failed = {}
    BY <1>1, <1>5, <1>6 DEF Ruling, RulingRows
  <1>8. /\ rulings' \in Seq(RulingRows) /\ rulings'[last] = r /\ last \in DOMAIN rulings'
        /\ DOMAIN rulings' = DOMAIN rulings \cup {last} /\ last \notin DOMAIN rulings
        /\ \A k \in DOMAIN rulings : rulings'[k] = rulings[k]
    BY <1>1, <1>2, <1>5, <1>7
  <1>9. ASSUME NEW k \in DOMAIN rulings PROVE DecidedWell(k)'
    <2>1. rulings[k].instance \in DOMAIN instances
      BY DEF StrategyInv, StrategyTyped
    <2> QED BY <1>8, <2>1, DecisionStands
  <1>10. DecidedWell(last)'
    <2>1. r.approved <=> Fits(intent, LastNaming(Len(trail), key, intent))
      BY <1>3, <1>4, <1>5, <1>7, ApprovedIfFits DEF StrategyInv
    <2>2. LastNaming(Len(trail), key, intent)' = LastNaming(Len(trail), key, intent)
      BY DEF LastNaming
    <2>3. instances'[i].key = key /\ instances'[i].intent = intent
      BY <1>3, <1>4
    <2>4. r.approved <=> Fits(intent, LastNaming(r.posted, key, intent)')
      BY <1>7, <2>1, <2>2
    <2> QED BY <1>7, <1>8, <2>3, <2>4 DEF DecidedWell, Fits
  <1>11. \A k \in DOMAIN rulings' :
            rulings'[k].instance \in DOMAIN instances /\ rulings'[k].posted <= Len(trail)
    BY <1>5, <1>7, <1>8 DEF StrategyInv, StrategyTyped
  <1>12. \A c : c # i \/ failed # {} => Approvals(c)' = Approvals(c)
    BY <1>7, <1>8 DEF Approvals
  <1>13. failed = {} => Approvals(i)' = Approvals(i) \cup {last}
    BY <1>7, <1>8 DEF Approvals
  <1>14. last \notin Approvals(i)
    BY <1>8 DEF Approvals
  <1> QED BY <1>2, <1>8, <1>9, <1>10, <1>11, <1>12, <1>13, <1>14

\* A start happens only where each failed rule has an override in force.
LEMMA StartKeeps ==
    ASSUME StrategyInv, NEW i \in DOMAIN instances, StartInstance(i)
    PROVE  StrategyInv'
  <1>1. PICK failed : failed = FailedRules(instances[i].key, instances[i].intent)
    OBVIOUS
  <1>2. PICK e : e = [instance |-> i, action |-> "start"]
    OBVIOUS
  <1>3. /\ instances[i].status # "running" /\ rulings' = Append(rulings, Ruling(i, failed))
        /\ overrides' = overrides /\ trail' = trail
        /\ failed = {} => /\ instances' = [instances EXCEPT ![i].status = "running"]
                          /\ strategyLog' = Append(strategyLog, e)
        /\ failed # {} => UNCHANGED <<instances, strategyLog>>
    BY <1>1, <1>2 DEF StartInstance
  <1>4. CASE failed = {}
    <2>1. /\ instances' \in Seq(InstanceRows) /\ DOMAIN instances' = DOMAIN instances /\ i \in Nat
          /\ instances'[i].status = "running"
          /\ \A c \in DOMAIN instances :
               /\ instances'[c].key = instances[c].key /\ instances'[c].intent = instances[c].intent
               /\ c # i => instances'[c] = instances[c]
      BY <1>3, <1>4, StatusSet
    <2>2. /\ rulings' \in Seq(RulingRows)
          /\ \A k \in DOMAIN rulings' :
               /\ rulings'[k].instance \in DOMAIN instances /\ rulings'[k].posted <= Len(trail)
               /\ DecidedWell(k)'
          /\ \A c : c # i => Approvals(c)' = Approvals(c)
          /\ Approvals(i)' = Approvals(i) \cup {Len(rulings) + 1}
          /\ Len(rulings) + 1 \notin Approvals(i)
      BY <1>1, <1>3, <1>4, <2>1, RulingAdded
    <2>3. PICK last : last = Len(strategyLog) + 1
      OBVIOUS
    <2>4. /\ strategyLog' \in Seq(StrategyEvents) /\ e.action = "start" /\ e.instance = i
          /\ DOMAIN strategyLog' = DOMAIN strategyLog \cup {last} /\ strategyLog'[last] = e
          /\ last \notin DOMAIN strategyLog
          /\ \A n \in DOMAIN strategyLog : strategyLog'[n] = strategyLog[n]
      <3>1. strategyLog \in Seq(StrategyEvents) /\ e \in StrategyEvents
        BY <1>2, <2>1 DEF StrategyInv, StrategyTyped, StrategyEvents
      <3>2. strategyLog' = Append(strategyLog, e) /\ e.action = "start" /\ e.instance = i
        BY <1>2, <1>3, <1>4
      <3> QED BY <2>3, <3>1, <3>2
    <2>5. StrategyTyped'
      <3>1. \A n \in DOMAIN strategyLog' : strategyLog'[n].instance \in DOMAIN instances'
        BY <2>1, <2>4 DEF StrategyInv, StrategyTyped
      <3>2. \A k \in DOMAIN rulings' :
              rulings'[k].instance \in DOMAIN instances' /\ rulings'[k].posted <= Len(trail')
        BY <1>3, <2>1, <2>2
      <3>3. overrides' \in Seq(OverrideRows) /\ trail' \in Seq(OverrideRows)
        BY <1>3 DEF StrategyInv, StrategyTyped
      <3> QED BY <2>1, <2>2, <2>4, <3>1, <3>2, <3>3 DEF StrategyTyped
    <2>6. /\ \A c : c # i => StartsOf(c)' = StartsOf(c)
          /\ StartsOf(i)' = StartsOf(i) \cup {last} /\ last \notin StartsOf(i)
      BY <2>4 DEF StartsOf
    <2>7. ASSUME NEW c \in DOMAIN instances' PROVE CountsAgree(c)'
      <3>1. CASE c # i
        BY <2>1, <2>2, <2>6, <3>1 DEF StrategyInv, CountsAgree
      <3>2. CASE c = i
        <4>1. IsFiniteSet(Approvals(i)) /\ IsFiniteSet(StartsOf(i))
          BY PositionsFinite DEF StrategyInv
        <4>2. Cardinality(Approvals(i)') = Cardinality(Approvals(i)) + 1
          BY <2>2, <4>1, FS_AddElement
        <4>3. Cardinality(StartsOf(i)') = Cardinality(StartsOf(i)) + 1
          BY <2>6, <4>1, FS_AddElement
        <4>4. Cardinality(Approvals(i)) = Cardinality(StartsOf(i))
          BY DEF StrategyInv, CountsAgree
        <4> QED BY <3>2, <4>2, <4>3, <4>4 DEF CountsAgree
      <3> QED BY <3>1, <3>2
    <2>8. LogInOrder'
      <3>1. "start" = IF instances[i].status = "running" THEN "stop" ELSE "start"
        BY <1>3
      <3>2. instances'[i].status = LeftIn("start")
        BY <2>1 DEF LeftIn
      <3>3. \A c \in DOMAIN instances' :
                c # i => c \in DOMAIN instances /\ instances'[c].status = instances[c].status
        BY <2>1
      <3> QED BY <1>2, <1>3, <1>4, <2>1, <3>1, <3>2, <3>3, EventAdded
    <2> QED BY <1>3, <2>2, <2>5, <2>7, <2>8 DEF StrategyInv, NewestFirst
  <1>5. CASE failed # {}
    <2>1. instances' = instances /\ strategyLog' = strategyLog
      BY <1>3, <1>5
    <2>2. /\ rulings' \in Seq(RulingRows)
          /\ \A k \in DOMAIN rulings' :
               /\ rulings'[k].instance \in DOMAIN instances /\ rulings'[k].posted <= Len(trail)
               /\ DecidedWell(k)'
          /\ \A c : Approvals(c)' = Approvals(c)
      BY <1>1, <1>3, <1>5, <2>1, RulingAdded
    <2>3. StrategyTyped'
      BY <1>3, <2>1, <2>2 DEF StrategyInv, StrategyTyped
    <2>4. \A c \in DOMAIN instances' : CountsAgree(c)'
      BY <2>1, <2>2 DEF StrategyInv, CountsAgree, StartsOf
    <2>5. LogInOrder'
      BY <2>1, LogKept DEF StrategyInv
    <2> QED BY <1>3, <2>2, <2>3, <2>4, <2>5 DEF StrategyInv, NewestFirst
  <1> QED BY <1>4, <1>5

\* A new override goes before the older ones.
LEMMA OverrideKeeps ==
    ASSUME StrategyInv, NEW o \in OverrideRows, AddOverride(o)
    PROVE  StrategyInv'
  <1>1. /\ overrides' = <<o>> \o overrides /\ trail' = Append(trail, o)
        /\ instances' = instances /\ rulings' = rulings /\ strategyLog' = strategyLog
    BY DEF AddOverride
  <1>2. overrides \in Seq(OverrideRows) /\ trail \in Seq(OverrideRows) /\ Len(overrides) = Len(trail)
    BY DEF StrategyInv, StrategyTyped, NewestFirst
  <1>3. /\ overrides' \in Seq(OverrideRows) /\ trail' \in Seq(OverrideRows)
        /\ Len(trail) \in Nat /\ Len(trail') = Len(trail) + 1 /\ Len(overrides') = Len(trail) + 1
        /\ \A m \in 1 .. Len(trail) : trail'[m] = trail[m]
    BY <1>1, <1>2
  <1>4. StrategyTyped'
    <2>1. \A k \in DOMAIN rulings : rulings[k].posted <= Len(trail')
      <3>1. \A k \in DOMAIN rulings : rulings[k] \in RulingRows
        BY DEF StrategyInv, StrategyTyped
      <3> QED BY <1>3, <3>1 DEF StrategyInv, StrategyTyped, RulingRows
    <2> QED BY <1>1, <1>3, <2>1 DEF StrategyInv, StrategyTyped
  <1>5. NewestFirst'
    <2>1. ASSUME NEW n \in 1 .. Len(trail) + 1 PROVE overrides'[n] = trail'[Len(trail) + 2 - n]
      <3>1. CASE n = 1
        BY <1>1, <1>2, <1>3, <3>1
      <3>2. CASE n # 1
        <4>1. PICK m : m = n - 1
          OBVIOUS
        <4>2. m \in 1 .. Len(trail) /\ n = m + 1 /\ Len(trail) + 1 - m \in 1 .. Len(trail)
          BY <1>3, <3>2, <4>1
        <4>3. overrides'[n] = overrides[m]
          BY <1>1, <1>2, <1>3, <4>2
        <4>4. overrides[m] = trail[Len(trail) + 1 - m]
          BY <4>2 DEF StrategyInv, NewestFirst
        <4>5. trail'[Len(trail) + 1 - m] = trail[Len(trail) + 1 - m]
          BY <1>3, <4>2
        <4>6. Len(trail) + 2 - n = Len(trail) + 1 - m
          BY <1>3, <4>2
        <4> QED BY <4>3, <4>4, <4>5, <4>6
      <3> QED BY <3>1, <3>2
    <2>2. \A n \in 1 .. Len(trail') : Len(trail') + 1 - n = Len(trail) + 2 - n
      BY <1>3
    <2> QED BY <1>3, <2>1, <2>2 DEF NewestFirst
  <1>6. ASSUME NEW k \in DOMAIN rulings' PROVE DecidedWell(k)'
    BY <1>1, <1>3, DecisionStands
  <1>7. \A i \in DOMAIN instances' : CountsAgree(i)'
    BY <1>1 DEF StrategyInv, CountsAgree, Approvals, StartsOf
  <1>8. LogInOrder'
    BY <1>1, LogKept DEF StrategyInv
  <1> QED BY <1>4, <1>5, <1>6, <1>7, <1>8 DEF StrategyInv

\* An instance starts on an approval of its own, and every decision is by the newest
\* override that names the strategy or its symbol, whatever instances, overrides and starts
\* there are and in whatever order they come.
THEOREM StartsAlwaysGuarded == StrategySpec => []StartsGuarded
  <1>1. StrategyInit => StrategyInv
    BY DEF StrategyInit, StrategyInv, StrategyTyped, NewestFirst, LogInOrder
  <1>2. StrategyInv /\ [StrategyNext]_strategyVars => StrategyInv'
    <2> SUFFICES ASSUME StrategyInv, [StrategyNext]_strategyVars PROVE StrategyInv'
      OBVIOUS
    <2>1. CASE UNCHANGED strategyVars
      <3>1. /\ instances' = instances /\ overrides' = overrides /\ trail' = trail
            /\ rulings' = rulings /\ strategyLog' = strategyLog
        BY <2>1 DEF strategyVars
      <3>2. StrategyTyped' /\ NewestFirst'
        BY <3>1 DEF StrategyInv, StrategyTyped, NewestFirst
      <3>3. \A k \in DOMAIN rulings' : DecidedWell(k)'
        BY <3>1, DecisionStands
      <3>4. \A i \in DOMAIN instances' : CountsAgree(i)'
        BY <3>1 DEF StrategyInv, CountsAgree, Approvals, StartsOf
      <3>5. LogInOrder'
        BY <3>1 DEF StrategyInv, LogInOrder, Alternates, EndsAs, EarlierOn, LastEvent
      <3> QED BY <3>2, <3>3, <3>4, <3>5 DEF StrategyInv
    <2> QED BY <2>1, CreateKeeps, StartKeeps, StopKeeps, OverrideKeeps DEF StrategyNext
  <1>3. StrategyInv => StartsGuarded
    <2> SUFFICES ASSUME StrategyInv PROVE StartsGuarded
      OBVIOUS
    <2>1. DecidedByNewest
      BY DEF StrategyInv, DecidedWell, Fits, LastNaming, DecidedByNewest, LastMatching
    <2>2. StartsApproved
      BY DEF StrategyInv, LogInOrder, CountsAgree, Alternates, EndsAs, LastEvent, StartsApproved
    <2> QED BY <2>1, <2>2 DEF StartsGuarded
  <1> QED BY <1>1, <1>2, <1>3, PTL DEF StrategySpec

-----------------------------------------------------------------------------
(* Alerts. *)

AllIds == AlertIds \cup {"risk", "data"}
AlertRows ==
    [id : AllIds, what : (Messages \X Levels) \cup {<<"risk", "critical">>, <<"data", "warning">>},
     level : Levels \cup {"critical", "warning"}, born : Nat, status : Statuses]
RecordTypes == {"triggered", "acknowledged", "resolved", "escalated"}
Records == [type : RecordTypes, rung : Nat, at : Nat]

AlertsTyped ==
    /\ objects \in Seq(AlertRows) /\ clock \in Nat /\ routing \subseteq DOMAIN objects
    /\ DOMAIN climbed = DOMAIN alertStore /\ DOMAIN lifecycle = DOMAIN alertStore
    /\ \A id \in DOMAIN alertStore :
        /\ alertStore[id] \in DOMAIN objects /\ objects[alertStore[id]].id = id
        /\ climbed[id] \in 0 .. Len(Ladder) /\ lifecycle[id] \in Seq(Records)
    /\ \A n \in DOMAIN objects : objects[n].id \in DOMAIN alertStore
    /\ DOMAIN published \subseteq DOMAIN alertStore

\* The latest emission of a message and severity is the one that is noted.
EmissionsNoted ==
    /\ \A e \in emissions :
        /\ e.n \in Nat /\ e.n <= Len(objects)
        /\ e.what \in DOMAIN lastEmitted /\ e.at \in Nat /\ e.at <= lastEmitted[e.what]
    /\ \A what \in DOMAIN lastEmitted : lastEmitted[what] \in Nat

\* An alert that has records after its climb was acknowledged or resolved.
ClimbStands(id) ==
    \E i \in DOMAIN lifecycle[id] :
        /\ ClimbsFrom(id, i)
        /\ Len(lifecycle[id]) > i + climbed[id]
           => objects[alertStore[id]].status \in {"acknowledged", "resolved"}

\* What was published last of an alert is its status, unless it escalated since.
ToldAs(id) ==
    EmittedOnce(id) /\ alertStore[id] \notin routing
    => \/ published[id] = objects[alertStore[id]].status
       \/ objects[alertStore[id]].status = "escalated"

\* The inductive invariant.
AlertsInv ==
    /\ AlertsTyped
    /\ EmissionsNoted
    /\ SuppressionHolds
    /\ \A id \in DOMAIN alertStore : ClimbStands(id)
    /\ \A id \in DOMAIN published : ToldAs(id)

\* A record added to the lifecycle of an alert.
LEMMA RecordAdded ==
    ASSUME AlertsTyped, NEW id, NEW type \in RecordTypes, NEW rung \in Nat, NEW rs, rs = RecordsOf(id),
           NEW all, all = Recorded(id, type, rung)
    PROVE  /\ rs \in Seq(Records) /\ all \in Seq(Records)
           /\ Len(rs) \in Nat /\ Len(all) = Len(rs) + 1
           /\ DOMAIN rs = 1 .. Len(rs) /\ DOMAIN all = 1 .. Len(rs) + 1
           /\ all[Len(rs) + 1].type = type /\ all[Len(rs) + 1].rung = rung
           /\ type = "escalated" => all[Len(rs) + 1].at = clock
           /\ \A k \in 1 .. Len(rs) : all[k] = rs[k]
  <1>1. PICK r : r = [type |-> type, rung |-> rung, at |-> IF type = "escalated" THEN clock ELSE 0]
    OBVIOUS
  <1>2. rs \in Seq(Records)
    BY DEF RecordsOf, AlertsTyped
  <1>3. r \in Records /\ r.type = type /\ r.rung = rung /\ (type = "escalated" => r.at = clock)
    BY <1>1 DEF Records, AlertsTyped
  <1>4. all = Append(rs, r)
    BY <1>1 DEF Recorded
  <1> QED BY <1>2, <1>3, <1>4

\* The climb of an alert none of whose parts change.
LEMMA ClimbKept ==
    ASSUME NEW id, ClimbStands(id), lifecycle'[id] = lifecycle[id], climbed'[id] = climbed[id],
           objects'[alertStore'[id]] = objects[alertStore[id]]
    PROVE  ClimbStands(id)'
  BY DEF ClimbStands, ClimbsFrom, Of

\* An alert that was just triggered has not climbed.
LEMMA ClimbStarts ==
    ASSUME NEW id, lifecycle'[id] \in Seq(Records), lifecycle'[id] # <<>>,
           lifecycle'[id][Len(lifecycle'[id])].type = "triggered", climbed'[id] = 0
    PROVE  ClimbStands(id)'
  <1>1. PICK i : i = Len(lifecycle'[id])
    OBVIOUS
  <1>2. i \in DOMAIN lifecycle'[id] /\ i \in Nat /\ \A k \in i + 1 .. Len(lifecycle'[id]) : FALSE
    BY <1>1
  <1> QED BY <1>1, <1>2 DEF ClimbStands, ClimbsFrom

\* An emit takes its alert out of the climb and notes itself, a window after the last one.
LEMMA EmitKeeps ==
    ASSUME AlertsInv, NEW id \in AlertIds, NEW m \in Messages, NEW level \in Levels,
           NEW born \in {0, clock}, EmitAlert(id, m, level, born)
    PROVE  AlertsInv'
  <1>1. PICK what : what = <<m, level>>
    OBVIOUS
  <1>2. PICK n : n = Len(objects) + 1
    OBVIOUS
  <1>3. PICK o : o = [id |-> id, what |-> what, level |-> level, born |-> born, status |-> "active"]
    OBVIOUS
  <1>4. PICK e : e = [what |-> what, at |-> clock, n |-> n]
    OBVIOUS
  <1>5. /\ ~ShouldSuppress(what, level)
        /\ objects' = Append(objects, o) /\ alertStore' = Assigned(alertStore, id, n)
        /\ lastEmitted' = Assigned(lastEmitted, what, clock) /\ climbed' = Assigned(climbed, id, 0)
        /\ lifecycle' = Assigned(lifecycle, id, Recorded(id, "triggered", 0))
        /\ routing' = routing \cup {n} /\ emissions' = emissions \cup {e}
        /\ published' = published /\ clock' = clock
    BY <1>1, <1>2, <1>3, <1>4 DEF EmitAlert
  <1>6. objects \in Seq(AlertRows) /\ clock \in Nat /\ o \in AlertRows /\ o.id = id
    BY <1>1, <1>3 DEF AlertsInv, AlertsTyped, AlertRows, AllIds, Statuses
  <1>7. /\ Len(objects) \in Nat /\ DOMAIN objects = 1 .. Len(objects) /\ n \in Nat
        /\ objects' \in Seq(AlertRows) /\ Len(objects') = n /\ DOMAIN objects' = DOMAIN objects \cup {n}
        /\ n \notin DOMAIN objects /\ objects'[n] = o
        /\ \A k \in DOMAIN objects : objects'[k] = objects[k]
    BY <1>2, <1>5, <1>6
  <1>8. /\ DOMAIN alertStore' = DOMAIN alertStore \cup {id} /\ alertStore'[id] = n
        /\ \A x \in DOMAIN alertStore : x # id => alertStore'[x] = alertStore[x]
        /\ DOMAIN climbed' = DOMAIN climbed \cup {id} /\ climbed'[id] = 0
        /\ \A x \in DOMAIN climbed : x # id => climbed'[x] = climbed[x]
        /\ DOMAIN lifecycle' = DOMAIN lifecycle \cup {id}
        /\ lifecycle'[id] = Recorded(id, "triggered", 0)
        /\ \A x \in DOMAIN lifecycle : x # id => lifecycle'[x] = lifecycle[x]
        /\ DOMAIN lastEmitted' = DOMAIN lastEmitted \cup {what} /\ lastEmitted'[what] = clock
        /\ \A x \in DOMAIN lastEmitted : x # what => lastEmitted'[x] = lastEmitted[x]
    <2>1. /\ DOMAIN alertStore' = DOMAIN alertStore \cup {id} /\ alertStore'[id] = n
          /\ \A x \in DOMAIN alertStore : x # id => alertStore'[x] = alertStore[x]
      BY <1>5 DEF Assigned
    <2>2. /\ DOMAIN climbed' = DOMAIN climbed \cup {id} /\ climbed'[id] = 0
          /\ \A x \in DOMAIN climbed : x # id => climbed'[x] = climbed[x]
      BY <1>5 DEF Assigned
    <2>3. PICK all : all = Recorded(id, "triggered", 0)
      OBVIOUS
    <2>4. /\ DOMAIN lifecycle' = DOMAIN lifecycle \cup {id} /\ lifecycle'[id] = all
          /\ \A x \in DOMAIN lifecycle : x # id => lifecycle'[x] = lifecycle[x]
      <3>1. lifecycle' = Assigned(lifecycle, id, all)
        BY <1>5, <2>3
      <3> QED BY <3>1 DEF Assigned
    <2>5. /\ DOMAIN lastEmitted' = DOMAIN lastEmitted \cup {what} /\ lastEmitted'[what] = clock
          /\ \A x \in DOMAIN lastEmitted : x # what => lastEmitted'[x] = lastEmitted[x]
      BY <1>5 DEF Assigned
    <2> QED BY <2>1, <2>2, <2>3, <2>4, <2>5
  <1>9. /\ lifecycle'[id] \in Seq(Records) /\ lifecycle'[id] # <<>>
        /\ lifecycle'[id][Len(lifecycle'[id])].type = "triggered"
    <2>1. PICK all : all = Recorded(id, "triggered", 0)
      OBVIOUS
    <2>2. PICK rs : rs = RecordsOf(id)
      OBVIOUS
    <2>3. "triggered" \in RecordTypes
      BY DEF RecordTypes
    <2>4. /\ all \in Seq(Records) /\ Len(rs) \in Nat /\ Len(all) = Len(rs) + 1
          /\ all[Len(rs) + 1].type = "triggered"
      BY <2>1, <2>2, <2>3, RecordAdded DEF AlertsInv
    <2>5. all # <<>>
      BY <2>4
    <2> QED BY <1>8, <2>1, <2>4, <2>5
  <1>10. AlertsTyped'
    <2>1. ASSUME NEW x \in DOMAIN alertStore'
          PROVE  /\ alertStore'[x] \in DOMAIN objects' /\ objects'[alertStore'[x]].id = x
                 /\ climbed'[x] \in 0 .. Len(Ladder) /\ lifecycle'[x] \in Seq(Records)
      <3>1. CASE x = id
        <4>1. 0 \in 0 .. Len(Ladder)
          BY AlertConstants DEF AlertConstants
        <4> QED BY <1>6, <1>7, <1>8, <1>9, <3>1, <4>1
      <3>2. CASE x # id
        <4>1. /\ x \in DOMAIN alertStore /\ x \in DOMAIN climbed /\ x \in DOMAIN lifecycle
              /\ alertStore[x] \in DOMAIN objects /\ objects[alertStore[x]].id = x
              /\ climbed[x] \in 0 .. Len(Ladder) /\ lifecycle[x] \in Seq(Records)
          BY <1>8, <3>2 DEF AlertsInv, AlertsTyped
        <4>2. alertStore'[x] = alertStore[x] /\ climbed'[x] = climbed[x] /\ lifecycle'[x] = lifecycle[x]
          BY <1>8, <3>2, <4>1
        <4> QED BY <1>7, <4>1, <4>2
      <3> QED BY <3>1, <3>2
    <2>2. \A k \in DOMAIN objects' : objects'[k].id \in DOMAIN alertStore'
      BY <1>6, <1>7, <1>8 DEF AlertsInv, AlertsTyped
    <2>3. DOMAIN climbed' = DOMAIN alertStore' /\ DOMAIN lifecycle' = DOMAIN alertStore'
      BY <1>8 DEF AlertsInv, AlertsTyped
    <2>4. routing' \subseteq DOMAIN objects' /\ DOMAIN published' \subseteq DOMAIN alertStore'
      BY <1>5, <1>7, <1>8 DEF AlertsInv, AlertsTyped
    <2> QED BY <1>5, <1>6, <1>7, <2>1, <2>2, <2>3, <2>4 DEF AlertsTyped
  <1>11. e.what = what /\ e.at = clock /\ e.n = n
    BY <1>4
  <1>12. EmissionsNoted'
    <2>1. ASSUME NEW f \in emissions
          PROVE  /\ f.n \in Nat /\ f.n <= Len(objects') /\ f.what \in DOMAIN lastEmitted'
                 /\ f.at \in Nat /\ f.at <= lastEmitted'[f.what]
      <3>1. /\ f.n \in Nat /\ f.n <= Len(objects) /\ f.what \in DOMAIN lastEmitted
            /\ f.at \in Nat /\ f.at <= lastEmitted[f.what] /\ lastEmitted[f.what] \in Nat
        BY DEF AlertsInv, EmissionsNoted
      <3>2. CASE f.what # what
        BY <1>2, <1>7, <1>8, <3>1, <3>2
      <3>3. CASE f.what = what
        <4>1. f.at <= clock
          <5>1. PICK w : w = Windows[level]
            OBVIOUS
          <5>2. w \in Nat
            BY <5>1, AlertConstants DEF AlertConstants
          <5>3. ~(clock - lastEmitted[what] < w)
            BY <1>5, <3>1, <3>3, <5>1 DEF ShouldSuppress
          <5> QED BY <1>6, <3>1, <3>3, <5>2, <5>3
        <4> QED BY <1>2, <1>7, <1>8, <3>1, <3>3, <4>1
      <3> QED BY <3>2, <3>3
    <2>2. \A x \in DOMAIN lastEmitted' : lastEmitted'[x] \in Nat
      BY <1>6, <1>8 DEF AlertsInv, EmissionsNoted
    <2> QED BY <1>5, <1>6, <1>7, <1>8, <1>11, <2>1, <2>2 DEF EmissionsNoted
  <1>13. SuppressionHolds'
    <2>1. ASSUME NEW f \in emissions, f.what = what PROVE clock - f.at >= Windows[what[2]]
      <3>1. PICK w : w = Windows[level]
        OBVIOUS
      <3>2. w \in Nat /\ what[2] = level
        BY <1>1, <3>1, AlertConstants DEF AlertConstants
      <3>3. /\ f.what \in DOMAIN lastEmitted /\ f.at \in Nat /\ f.at <= lastEmitted[f.what]
            /\ lastEmitted[f.what] \in Nat
        BY DEF AlertsInv, EmissionsNoted
      <3>4. ~(clock - lastEmitted[what] < w)
        BY <1>5, <2>1, <3>1, <3>3 DEF ShouldSuppress
      <3> QED BY <1>6, <2>1, <3>1, <3>2, <3>3, <3>4
    <2>2. \A f \in emissions : f.n \in Nat /\ f.n < n
      BY <1>2, <1>7 DEF AlertsInv, EmissionsNoted
    <2>3. ASSUME NEW f \in emissions', NEW g \in emissions', f.what = g.what, f.n < g.n
          PROVE  g.at - f.at >= Windows[f.what[2]]
      <3>1. CASE f = e
        BY <1>5, <1>7, <1>11, <2>2, <2>3, <3>1
      <3>2. CASE f \in emissions /\ g = e
        BY <1>11, <2>1, <2>3, <3>2
      <3>3. CASE f \in emissions /\ g \in emissions
        BY <2>3, <3>3 DEF AlertsInv, SuppressionHolds
      <3> QED BY <1>5, <3>1, <3>2, <3>3
    <2> QED BY <2>3 DEF SuppressionHolds
  <1>14. ASSUME NEW x \in DOMAIN alertStore' PROVE ClimbStands(x)'
    <2>1. CASE x = id
      BY <1>8, <1>9, <2>1, ClimbStarts
    <2>2. CASE x # id
      <3>1. /\ x \in DOMAIN alertStore /\ lifecycle'[x] = lifecycle[x] /\ climbed'[x] = climbed[x]
            /\ objects'[alertStore'[x]] = objects[alertStore[x]]
        BY <1>7, <1>8, <2>2 DEF AlertsInv, AlertsTyped
      <3> QED BY <3>1, ClimbKept DEF AlertsInv
    <2> QED BY <2>1, <2>2
  <1>15. ASSUME NEW x \in DOMAIN published' PROVE ToldAs(x)'
    <2>1. CASE x = id
      BY <1>5, <1>8, <2>1 DEF ToldAs
    <2>2. CASE x # id
      <3>1. /\ x \in DOMAIN alertStore /\ alertStore'[x] = alertStore[x]
            /\ alertStore[x] \in DOMAIN objects /\ x \in DOMAIN published
        BY <1>5, <1>8, <2>2 DEF AlertsInv, AlertsTyped
      <3>2. EmittedOnce(x)' => EmittedOnce(x)
        BY <1>7 DEF EmittedOnce
      <3>3. ToldAs(x)
        BY <3>1 DEF AlertsInv
      <3>4. objects'[alertStore'[x]] = objects[alertStore[x]]
        BY <1>7, <3>1
      <3>5. alertStore'[x] \notin routing' => alertStore[x] \notin routing
        BY <1>5, <3>1
      <3> QED BY <1>5, <3>2, <3>3, <3>4, <3>5 DEF ToldAs
    <2> QED BY <2>1, <2>2
  <1> QED BY <1>10, <1>12, <1>13, <1>14, <1>15 DEF AlertsInv

\* What an emit publishes is the status its object has by then.
LEMMA PublishKeeps ==
    ASSUME AlertsInv, NEW n \in routing, PublishEmitted(n)
    PROVE  AlertsInv'
  <1>1. PICK id : id = objects[n].id
    OBVIOUS
  <1>2. /\ routing' = routing \ {n} /\ published' = Assigned(published, id, objects[n].status)
        /\ UNCHANGED <<objects, alertStore, lastEmitted, climbed, lifecycle, emissions, clock>>
    BY <1>1 DEF PublishEmitted
  <1>3. id \in DOMAIN alertStore /\ n \in DOMAIN objects
    BY <1>1 DEF AlertsInv, AlertsTyped
  <1>4. /\ DOMAIN published' = DOMAIN published \cup {id} /\ published'[id] = objects[n].status
        /\ \A x \in DOMAIN published : x # id => published'[x] = published[x]
    <2>1. PICK v : v = objects[n].status
      OBVIOUS
    <2>2. published' = Assigned(published, id, v)
      BY <1>2, <2>1
    <2> QED BY <2>1, <2>2 DEF Assigned
  <1>5. AlertsTyped'
    BY <1>2, <1>3, <1>4 DEF AlertsInv, AlertsTyped
  <1>6. EmissionsNoted' /\ SuppressionHolds'
    BY <1>2 DEF AlertsInv, EmissionsNoted, SuppressionHolds
  <1>7. \A x \in DOMAIN alertStore' : ClimbStands(x)'
    BY <1>2, ClimbKept DEF AlertsInv
  <1>8. ASSUME NEW x \in DOMAIN published' PROVE ToldAs(x)'
    <2>1. x \in DOMAIN alertStore /\ alertStore[x] \in DOMAIN objects /\ objects[alertStore[x]].id = x
      BY <1>3, <1>4 DEF AlertsInv, AlertsTyped
    <2>2. CASE x = id
      <3>1. EmittedOnce(id) => alertStore[id] = n
        BY <1>1, <1>3, <2>1, <2>2 DEF EmittedOnce
      <3> QED BY <1>2, <1>4, <2>2, <3>1 DEF ToldAs, EmittedOnce
    <2>3. CASE x # id
      <3>1. x \in DOMAIN published /\ published'[x] = published[x] /\ alertStore[x] # n
        BY <1>1, <1>4, <2>1, <2>3
      <3> QED BY <1>2, <3>1 DEF AlertsInv, ToldAs, EmittedOnce
    <2> QED BY <2>2, <2>3
  <1> QED BY <1>2, <1>5, <1>6, <1>7, <1>8 DEF AlertsInv

\* A change of status changes nothing else of the objects.
LEMMA StatusChanged ==
    ASSUME AlertsTyped, NEW id \in DOMAIN alertStore, NEW status \in Statuses,
           objects' = [objects EXCEPT ![alertStore[id]].status = status]
    PROVE  /\ objects' \in Seq(AlertRows) /\ Len(objects') = Len(objects)
           /\ DOMAIN objects' = DOMAIN objects
           /\ objects'[alertStore[id]].status = status
           /\ objects'[alertStore[id]].born = objects[alertStore[id]].born
           /\ \A k \in DOMAIN objects :
                /\ objects'[k].id = objects[k].id
                /\ k # alertStore[id] => objects'[k] = objects[k]
  <1>1. PICK n : n = alertStore[id]
    OBVIOUS
  <1>2. n \in DOMAIN objects /\ objects \in Seq(AlertRows) /\ objects[n] \in AlertRows
    BY <1>1 DEF AlertsTyped
  <1>3. PICK o : o = [objects[n] EXCEPT !.status = status]
    OBVIOUS
  <1>4. /\ o \in AlertRows /\ o.status = status /\ o.id = objects[n].id /\ o.born = objects[n].born
    BY <1>2, <1>3 DEF AlertRows
  <1>5. objects' = [objects EXCEPT ![n] = o]
    BY <1>1, <1>2, <1>3
  <1> QED BY <1>1, <1>2, <1>4, <1>5

\* An object belongs to one stored alert.
LEMMA StoredApart ==
    ASSUME AlertsTyped, NEW x \in DOMAIN alertStore, NEW y \in DOMAIN alertStore,
           alertStore[x] = alertStore[y]
    PROVE  x = y
  BY DEF AlertsTyped

\* An acknowledgement or a resolution ends the climb and is published at once.
LEMMA SettleKeeps ==
    ASSUME AlertsInv, NEW id \in DOMAIN alertStore,
           NEW status \in {"acknowledged", "resolved"}, Settle(id, status, status)
    PROVE  AlertsInv'
  <1>1. PICK all : all = Recorded(id, status, 0)
    OBVIOUS
  <1>2. PICK rs : rs = RecordsOf(id)
    OBVIOUS
  <1>3. /\ objects' = [objects EXCEPT ![alertStore[id]].status = status]
        /\ lifecycle' = Assigned(lifecycle, id, all) /\ published' = Assigned(published, id, status)
        /\ UNCHANGED <<alertStore, lastEmitted, climbed, routing, emissions, clock>>
    BY <1>1 DEF Settle
  <1>4. status \in Statuses /\ status \in RecordTypes
    BY DEF Statuses, RecordTypes
  <1>5. /\ objects' \in Seq(AlertRows) /\ Len(objects') = Len(objects)
        /\ DOMAIN objects' = DOMAIN objects
        /\ objects'[alertStore[id]].status = status
        /\ objects'[alertStore[id]].born = objects[alertStore[id]].born
        /\ \A k \in DOMAIN objects :
             /\ objects'[k].id = objects[k].id
             /\ k # alertStore[id] => objects'[k] = objects[k]
    BY <1>3, <1>4, StatusChanged DEF AlertsInv
  <1>6. /\ rs \in Seq(Records) /\ all \in Seq(Records)
        /\ Len(rs) \in Nat /\ Len(all) = Len(rs) + 1
        /\ DOMAIN rs = 1 .. Len(rs) /\ DOMAIN all = 1 .. Len(rs) + 1
        /\ all[Len(rs) + 1].type = status
        /\ \A k \in 1 .. Len(rs) : all[k] = rs[k]
    BY <1>1, <1>2, <1>4, RecordAdded DEF AlertsInv
  <1>7. id \in DOMAIN lifecycle /\ rs = lifecycle[id]
    BY <1>2 DEF RecordsOf, AlertsInv, AlertsTyped
  <1>8. /\ DOMAIN lifecycle' = DOMAIN lifecycle /\ lifecycle'[id] = all
        /\ \A x \in DOMAIN lifecycle : x # id => lifecycle'[x] = lifecycle[x]
    BY <1>3, <1>7 DEF Assigned
  <1>9. /\ DOMAIN published' = DOMAIN published \cup {id} /\ published'[id] = status
        /\ \A x \in DOMAIN published : x # id => published'[x] = published[x]
    BY <1>3 DEF Assigned
  <1>10. AlertsTyped'
    <2>1. ASSUME NEW x \in DOMAIN alertStore'
          PROVE  /\ alertStore'[x] \in DOMAIN objects' /\ objects'[alertStore'[x]].id = x
                 /\ climbed'[x] \in 0 .. Len(Ladder) /\ lifecycle'[x] \in Seq(Records)
      <3>1. x \in DOMAIN alertStore /\ x \in DOMAIN lifecycle
        BY <1>3 DEF AlertsInv, AlertsTyped
      <3>2. lifecycle'[x] \in Seq(Records)
        BY <1>6, <1>8, <3>1 DEF AlertsInv, AlertsTyped
      <3> QED BY <1>3, <1>5, <3>1, <3>2 DEF AlertsInv, AlertsTyped
    <2>2. \A k \in DOMAIN objects' : objects'[k].id \in DOMAIN alertStore'
      BY <1>3, <1>5 DEF AlertsInv, AlertsTyped
    <2>3. DOMAIN climbed' = DOMAIN alertStore' /\ DOMAIN lifecycle' = DOMAIN alertStore'
      BY <1>3, <1>8 DEF AlertsInv, AlertsTyped
    <2>4. /\ routing' \subseteq DOMAIN objects' /\ DOMAIN published' \subseteq DOMAIN alertStore'
          /\ clock' \in Nat
      BY <1>3, <1>5, <1>9 DEF AlertsInv, AlertsTyped
    <2> QED BY <1>5, <2>1, <2>2, <2>3, <2>4 DEF AlertsTyped
  <1>11. EmissionsNoted' /\ SuppressionHolds'
    BY <1>3, <1>5 DEF AlertsInv, EmissionsNoted, SuppressionHolds
  <1>12. ASSUME NEW x \in DOMAIN alertStore' PROVE ClimbStands(x)'
    <2>0. x \in DOMAIN alertStore /\ x \in DOMAIN lifecycle /\ ClimbStands(x)
      BY <1>3 DEF AlertsInv, AlertsTyped
    <2>1. CASE x = id
      <3>1. PICK i \in DOMAIN lifecycle[id] : ClimbsFrom(id, i)
        BY <2>0, <2>1 DEF ClimbStands
      <3>2. i \in 1 .. Len(rs) /\ climbed[id] \in Nat /\ Len(Ladder) \in Nat
        BY <1>6, <1>7, <3>1, AlertConstants DEF AlertsInv, AlertsTyped, AlertConstants
      <3>3. /\ rs[i].type = "triggered" /\ i + climbed[id] <= Len(rs)
            /\ \A k \in i + 1 .. Len(rs) :
                /\ rs[k].type # "triggered"
                /\ rs[k].type = "escalated" <=> k - i <= climbed[id]
                /\ rs[k].type = "escalated"
                   => rs[k].rung = k - i /\ rs[k].at - objects[alertStore[id]].born >= Ladder[k - i]
        BY <1>7, <3>1 DEF ClimbsFrom, Of
      <3>4. ASSUME NEW k \in i + 1 .. Len(all)
            PROVE  /\ all[k].type # "triggered"
                   /\ all[k].type = "escalated" <=> k - i <= climbed[id]
                   /\ all[k].type = "escalated"
                      => all[k].rung = k - i
                         /\ all[k].at - objects[alertStore[id]].born >= Ladder[k - i]
        <4>1. CASE k = Len(rs) + 1
          <5>1. ~(k - i <= climbed[id])
            BY <3>2, <3>3, <4>1, <1>6
          <5>2. all[k].type = status /\ status # "escalated" /\ status # "triggered"
            BY <1>6, <4>1
          <5> QED BY <5>1, <5>2
        <4>2. CASE k # Len(rs) + 1
          <5>1. k \in i + 1 .. Len(rs) /\ k \in 1 .. Len(rs)
            BY <1>6, <3>2, <4>2
          <5>2. all[k] = rs[k]
            BY <1>6, <5>1
          <5> QED BY <3>3, <5>1, <5>2
        <4> QED BY <4>1, <4>2
      <3>5. /\ i \in DOMAIN all /\ all[i].type = "triggered" /\ i + climbed[id] <= Len(all)
        BY <1>6, <3>2, <3>3
      <3>6. /\ lifecycle'[id] = all /\ climbed' = climbed /\ alertStore' = alertStore
            /\ objects'[alertStore[id]].born = objects[alertStore[id]].born
        BY <1>3, <1>5, <1>8
      <3>7. ClimbsFrom(id, i)'
        BY <3>4, <3>5, <3>6 DEF ClimbsFrom, Of
      <3> QED BY <1>5, <2>1, <3>5, <3>6, <3>7 DEF ClimbStands
    <2>2. CASE x # id
      <3>1. alertStore[x] # alertStore[id] /\ alertStore[x] \in DOMAIN objects
        BY <2>0, <2>2, StoredApart DEF AlertsInv, AlertsTyped
      <3>2. objects'[alertStore'[x]] = objects[alertStore[x]]
        BY <1>3, <1>5, <3>1
      <3> QED BY <1>3, <1>8, <2>0, <2>2, <3>2, ClimbKept
    <2> QED BY <2>1, <2>2
  <1>13. ASSUME NEW x \in DOMAIN published' PROVE ToldAs(x)'
    <2>1. x \in DOMAIN alertStore
      BY <1>9 DEF AlertsInv, AlertsTyped
    <2>2. CASE x = id
      BY <1>3, <1>5, <1>9, <2>2 DEF ToldAs
    <2>3. CASE x # id
      <3>1. x \in DOMAIN published /\ published'[x] = published[x] /\ ToldAs(x)
        BY <1>9, <2>3 DEF AlertsInv
      <3>2. objects'[alertStore[x]] = objects[alertStore[x]]
        <4>1. alertStore[x] # alertStore[id] /\ alertStore[x] \in DOMAIN objects
          BY <2>1, <2>3, StoredApart DEF AlertsInv, AlertsTyped
        <4> QED BY <1>5, <4>1
      <3>3. EmittedOnce(x)' => EmittedOnce(x)
        BY <1>5 DEF EmittedOnce
      <3> QED BY <1>3, <3>1, <3>2, <3>3 DEF ToldAs
    <2> QED BY <2>2, <2>3
  <1> QED BY <1>10, <1>11, <1>12, <1>13 DEF AlertsInv

\* Every alert that is due climbs one rung, after its records so far.
LEMMA ListKeeps ==
    ASSUME AlertsInv, ListAlerts
    PROVE  AlertsInv'
  <1>1. PICK due : due = {id \in DOMAIN alertStore : Climbs(id)}
    OBVIOUS
  <1>2. /\ climbed' = [id \in DOMAIN climbed |-> IF id \in due THEN climbed[id] + 1 ELSE climbed[id]]
        /\ objects' = [n \in DOMAIN objects |->
                        IF \E id \in due : alertStore[id] = n
                        THEN [objects[n] EXCEPT !.status = "escalated"] ELSE objects[n]]
        /\ lifecycle' = [id \in DOMAIN lifecycle |->
                          IF id \in due THEN Recorded(id, "escalated", climbed[id] + 1)
                          ELSE lifecycle[id]]
        /\ UNCHANGED <<alertStore, lastEmitted, routing, published, emissions, clock>>
    BY <1>1 DEF ListAlerts
  <1>3. /\ objects' \in Seq(AlertRows) /\ Len(objects') = Len(objects)
        /\ DOMAIN objects' = DOMAIN objects
        /\ \A n \in DOMAIN objects :
             /\ objects'[n].id = objects[n].id /\ objects'[n].born = objects[n].born
             /\ (\E id \in due : alertStore[id] = n) => objects'[n].status = "escalated"
             /\ (\A id \in due : alertStore[id] # n) => objects'[n] = objects[n]
    <2>1. objects \in Seq(AlertRows) /\ DOMAIN objects = 1 .. Len(objects) /\ Len(objects) \in Nat
      BY DEF AlertsInv, AlertsTyped
    <2>2. DOMAIN objects' = 1 .. Len(objects)
      BY <1>2, <2>1
    <2>3. ASSUME NEW n \in DOMAIN objects
          PROVE  /\ objects'[n] \in AlertRows
                 /\ objects'[n].id = objects[n].id /\ objects'[n].born = objects[n].born
                 /\ (\E id \in due : alertStore[id] = n) => objects'[n].status = "escalated"
                 /\ (\A id \in due : alertStore[id] # n) => objects'[n] = objects[n]
      <3>1. objects[n] \in AlertRows
        BY <2>1
      <3>2. PICK o : o = [objects[n] EXCEPT !.status = "escalated"]
        OBVIOUS
      <3>3. /\ o \in AlertRows /\ o.id = objects[n].id /\ o.born = objects[n].born
            /\ o.status = "escalated"
        BY <3>1, <3>2 DEF AlertRows, Statuses
      <3>4. objects'[n] = IF \E id \in due : alertStore[id] = n THEN o ELSE objects[n]
        BY <1>2, <2>1, <3>2
      <3> QED BY <3>1, <3>3, <3>4
    <2>4. objects' = [n \in 1 .. Len(objects) |-> objects'[n]]
      BY <1>2, <2>1
    <2>5. objects' \in [1 .. Len(objects) -> AlertRows]
      BY <2>1, <2>2, <2>3, <2>4
    <2> QED BY <2>1, <2>2, <2>3, <2>5
  <1>4. /\ DOMAIN climbed' = DOMAIN climbed
        /\ \A x \in DOMAIN climbed :
             climbed'[x] = IF x \in due THEN climbed[x] + 1 ELSE climbed[x]
    BY <1>2
  <1>5. /\ DOMAIN lifecycle' = DOMAIN lifecycle
        /\ \A x \in DOMAIN lifecycle :
             /\ x \in due => lifecycle'[x] = Recorded(x, "escalated", climbed[x] + 1)
             /\ x \notin due => lifecycle'[x] = lifecycle[x]
    BY <1>2
  <1>6. ASSUME NEW x \in DOMAIN alertStore
        PROVE  /\ x \in DOMAIN lifecycle /\ x \in DOMAIN climbed
               /\ alertStore[x] \in DOMAIN objects /\ objects[alertStore[x]].id = x
               /\ climbed[x] \in 0 .. Len(Ladder) /\ lifecycle[x] \in Seq(Records)
               /\ ClimbStands(x)
    BY DEF AlertsInv, AlertsTyped
  <1>7. ASSUME NEW x \in due
        PROVE  /\ x \in DOMAIN alertStore /\ climbed[x] < Len(Ladder)
               /\ objects[alertStore[x]].status \notin {"acknowledged", "resolved"}
               /\ clock - objects[alertStore[x]].born >= Ladder[climbed[x] + 1]
    BY <1>1 DEF Climbs, Of
  <1>8. ASSUME NEW x \in due, NEW all, all = lifecycle'[x], NEW rs, rs = lifecycle[x],
               NEW c, c = climbed[x]
        PROVE  /\ rs \in Seq(Records) /\ all \in Seq(Records)
               /\ Len(rs) \in Nat /\ Len(all) = Len(rs) + 1
               /\ DOMAIN rs = 1 .. Len(rs) /\ DOMAIN all = 1 .. Len(rs) + 1
               /\ all[Len(rs) + 1].type = "escalated" /\ all[Len(rs) + 1].rung = c + 1
               /\ all[Len(rs) + 1].at = clock
               /\ \A k \in 1 .. Len(rs) : all[k] = rs[k]
    <2>1. x \in DOMAIN lifecycle /\ c \in Nat /\ c + 1 \in Nat /\ Len(Ladder) \in Nat
      BY <1>6, <1>7, <1>8, AlertConstants DEF AlertConstants
    <2>2. rs = RecordsOf(x) /\ all = Recorded(x, "escalated", c + 1)
      BY <1>5, <1>8, <2>1 DEF RecordsOf
    <2>3. "escalated" \in RecordTypes
      BY DEF RecordTypes
    <2> QED BY <2>1, <2>2, <2>3, RecordAdded DEF AlertsInv
  <1>9. AlertsTyped'
    <2>1. ASSUME NEW x \in DOMAIN alertStore'
          PROVE  /\ alertStore'[x] \in DOMAIN objects' /\ objects'[alertStore'[x]].id = x
                 /\ climbed'[x] \in 0 .. Len(Ladder) /\ lifecycle'[x] \in Seq(Records)
      <3>0. x \in DOMAIN alertStore /\ Len(Ladder) \in Nat
        BY <1>2, AlertConstants DEF AlertConstants
      <3>1. alertStore'[x] \in DOMAIN objects' /\ objects'[alertStore'[x]].id = x
        BY <1>2, <1>3, <1>6, <3>0
      <3>2. CASE x \in due
        <4>1. lifecycle'[x] \in Seq(Records)
          BY <1>8, <3>2
        <4>2. climbed'[x] \in 0 .. Len(Ladder)
          BY <1>4, <1>6, <1>7, <3>0, <3>2
        <4> QED BY <3>1, <4>1, <4>2
      <3>3. CASE x \notin due
        BY <1>4, <1>5, <1>6, <3>0, <3>1, <3>3
      <3> QED BY <3>2, <3>3
    <2>2. \A k \in DOMAIN objects' : objects'[k].id \in DOMAIN alertStore'
      BY <1>2, <1>3 DEF AlertsInv, AlertsTyped
    <2>3. DOMAIN climbed' = DOMAIN alertStore' /\ DOMAIN lifecycle' = DOMAIN alertStore'
      BY <1>2, <1>4, <1>5 DEF AlertsInv, AlertsTyped
    <2>4. /\ routing' \subseteq DOMAIN objects' /\ DOMAIN published' \subseteq DOMAIN alertStore'
          /\ clock' \in Nat
      BY <1>2, <1>3 DEF AlertsInv, AlertsTyped
    <2> QED BY <1>3, <2>1, <2>2, <2>3, <2>4 DEF AlertsTyped
  <1>10. EmissionsNoted' /\ SuppressionHolds'
    BY <1>2, <1>3 DEF AlertsInv, EmissionsNoted, SuppressionHolds
  <1>11. ASSUME NEW x \in DOMAIN alertStore' PROVE ClimbStands(x)'
    <2>0. x \in DOMAIN alertStore
      BY <1>2
    <2>1. CASE x \in due
      <3>1. PICK rs, all, c, o : rs = lifecycle[x] /\ all = lifecycle'[x] /\ c = climbed[x]
                                 /\ o = alertStore[x]
        OBVIOUS
      <3>2. /\ Len(rs) \in Nat /\ Len(all) = Len(rs) + 1
            /\ DOMAIN rs = 1 .. Len(rs) /\ DOMAIN all = 1 .. Len(rs) + 1
            /\ all[Len(rs) + 1].type = "escalated" /\ all[Len(rs) + 1].rung = c + 1
            /\ all[Len(rs) + 1].at = clock
            /\ \A k \in 1 .. Len(rs) : all[k] = rs[k]
        BY <1>8, <2>1, <3>1
      <3>a. PICK i \in DOMAIN lifecycle[x] :
                /\ ClimbsFrom(x, i)
                /\ Len(lifecycle[x]) > i + climbed[x]
                   => objects[alertStore[x]].status \in {"acknowledged", "resolved"}
        BY <1>6, <2>0 DEF ClimbStands
      <3>b. /\ i \in DOMAIN rs
            /\ Len(rs) > i + c => objects[o].status \in {"acknowledged", "resolved"}
        BY <3>1, <3>a
      <3>3. /\ rs[i].type = "triggered" /\ i + c <= Len(rs)
            /\ \A k \in i + 1 .. Len(rs) :
                /\ rs[k].type # "triggered"
                /\ rs[k].type = "escalated" <=> k - i <= c
                /\ rs[k].type = "escalated"
                   => rs[k].rung = k - i /\ rs[k].at - objects[o].born >= Ladder[k - i]
        BY <3>1, <3>a DEF ClimbsFrom, Of
      <3>4. i \in 1 .. Len(rs) /\ c \in Nat /\ Len(rs) = i + c
        <4>1. c \in 0 .. Len(Ladder) /\ Len(Ladder) \in Nat
          BY <1>6, <2>0, <3>1, AlertConstants DEF AlertConstants
        <4>2. objects[o].status \notin {"acknowledged", "resolved"}
          BY <1>7, <2>1, <3>1
        <4>3. i \in 1 .. Len(rs)
          BY <3>2, <3>b
        <4> QED BY <3>2, <3>3, <3>b, <4>1, <4>2, <4>3
      <3>5. clock - objects[o].born >= Ladder[c + 1] /\ objects'[o].born = objects[o].born
        BY <1>3, <1>6, <1>7, <2>0, <2>1, <3>1
      <3>6. ASSUME NEW k \in i + 1 .. Len(all)
            PROVE  /\ all[k].type # "triggered"
                   /\ all[k].type = "escalated" <=> k - i <= c + 1
                   /\ all[k].type = "escalated"
                      => all[k].rung = k - i /\ all[k].at - objects'[o].born >= Ladder[k - i]
        <4>1. CASE k = Len(rs) + 1
          <5>1. k - i = c + 1
            BY <3>4, <4>1
          <5> QED BY <3>2, <3>4, <3>5, <4>1, <5>1
        <4>2. CASE k # Len(rs) + 1
          <5>1. k \in i + 1 .. Len(rs) /\ k \in 1 .. Len(rs) /\ k - i <= c
            BY <3>2, <3>4, <4>2
          <5>2. all[k] = rs[k] /\ k - i <= c + 1
            BY <3>2, <3>4, <5>1
          <5> QED BY <3>3, <3>5, <5>1, <5>2
        <4> QED BY <4>1, <4>2
      <3>7. all[i] = rs[i] /\ i \in DOMAIN all /\ i + (c + 1) = Len(all)
        <4>1. PICK n : n = Len(rs)
          OBVIOUS
        <4>2. /\ n \in Nat /\ i \in 1 .. n /\ c \in Nat /\ n = i + c /\ Len(all) = n + 1
              /\ DOMAIN all = 1 .. n + 1 /\ all[i] = rs[i]
          BY <3>2, <3>4, <4>1
        <4>3. i \in 1 .. n + 1 /\ i + (c + 1) = n + 1
          BY <4>2
        <4> QED BY <4>2, <4>3
      <3>8. climbed'[x] = c + 1 /\ alertStore'[x] = o
        BY <1>2, <1>4, <1>6, <2>0, <2>1, <3>1
      <3>9. ClimbsFrom(x, i)'
        BY <3>1, <3>3, <3>4, <3>6, <3>7, <3>8 DEF ClimbsFrom, Of
      <3>10. ~(Len(all) > i + (c + 1))
        BY <3>2, <3>4
      <3> QED BY <3>1, <3>7, <3>8, <3>9, <3>10 DEF ClimbStands
    <2>2. CASE x \notin due
      <3>1. \A id \in due : alertStore[id] # alertStore[x]
        BY <1>7, <2>0, <2>2, StoredApart DEF AlertsInv
      <3>2. objects'[alertStore'[x]] = objects[alertStore[x]]
        BY <1>2, <1>3, <1>6, <2>0, <3>1
      <3> QED BY <1>4, <1>5, <1>6, <2>0, <2>2, <3>2, ClimbKept
    <2> QED BY <2>1, <2>2
  <1>12. ASSUME NEW x \in DOMAIN published' PROVE ToldAs(x)'
    <2>1. x \in DOMAIN published /\ x \in DOMAIN alertStore /\ ToldAs(x)
      BY <1>2 DEF AlertsInv, AlertsTyped
    <2>2. CASE x \in due
      BY <1>2, <1>3, <1>6, <2>1, <2>2 DEF ToldAs
    <2>3. CASE x \notin due
      <3>1. \A id \in due : alertStore[id] # alertStore[x]
        BY <1>7, <2>1, <2>3, StoredApart DEF AlertsInv
      <3>2. objects'[alertStore[x]] = objects[alertStore[x]]
        BY <1>3, <1>6, <2>1, <3>1
      <3>3. EmittedOnce(x)' => EmittedOnce(x)
        BY <1>3 DEF EmittedOnce
      <3> QED BY <1>2, <2>1, <3>2, <3>3 DEF ToldAs
    <2> QED BY <2>2, <2>3
  <1> QED BY <1>9, <1>10, <1>11, <1>12 DEF AlertsInv

\* The two alerts that every process starts with.
LEMMA AlertsInvInit ==
    ASSUME AlertsInit
    PROVE  AlertsInv
  <1>1. PICK a, b :
            /\ a = [id |-> "risk", what |-> <<"risk", "critical">>, level |-> "critical",
                    born |-> 0, status |-> "active"]
            /\ b = [id |-> "data", what |-> <<"data", "warning">>, level |-> "warning",
                    born |-> 0, status |-> "active"]
    OBVIOUS
  <1>2. objects = <<a, b>>
    BY <1>1 DEF AlertsInit, Seeded
  <1>3. a \in AlertRows /\ b \in AlertRows /\ a.id = "risk" /\ b.id = "data"
    BY <1>1 DEF AlertRows, AllIds, Statuses
  <1>4. /\ objects \in Seq(AlertRows) /\ DOMAIN objects = {1, 2} /\ Len(objects) = 2
        /\ objects[1].id = "risk" /\ objects[2].id = "data"
    BY <1>2, <1>3
  <1>5. PICK r : r = [type |-> "triggered", rung |-> 0, at |-> 0]
    OBVIOUS
  <1>6. r \in Records /\ r.type = "triggered"
    BY <1>5 DEF Records, RecordTypes
  <1>7. <<r>> \in Seq(Records) /\ Len(<<r>>) = 1 /\ DOMAIN <<r>> = {1} /\ <<r>>[1] = r
    BY <1>6
  <1>8. \A id \in {"risk", "data"} :
            /\ id \in DOMAIN alertStore /\ alertStore[id] \in {1, 2}
            /\ objects[alertStore[id]].id = id
            /\ climbed[id] = 0 /\ lifecycle[id] = <<r>>
    BY <1>4, <1>5 DEF AlertsInit
  <1>9. DOMAIN alertStore = {"risk", "data"} /\ DOMAIN climbed = {"risk", "data"}
        /\ DOMAIN lifecycle = {"risk", "data"} /\ DOMAIN lastEmitted = {} /\ DOMAIN published = {}
        /\ emissions = {} /\ routing = {} /\ clock = 0
    BY DEF AlertsInit
  <1>10. 0 \in 0 .. Len(Ladder)
    BY AlertConstants DEF AlertConstants
  <1>11. AlertsTyped
    BY <1>4, <1>7, <1>8, <1>9, <1>10 DEF AlertsTyped
  <1>12. EmissionsNoted /\ SuppressionHolds
    BY <1>9 DEF EmissionsNoted, SuppressionHolds
  <1>13. ASSUME NEW id \in DOMAIN alertStore PROVE ClimbStands(id)
    <2>1. ClimbsFrom(id, 1)
      BY <1>6, <1>7, <1>8, <1>9 DEF ClimbsFrom
    <2>2. ~(Len(lifecycle[id]) > 1 + climbed[id]) /\ 1 \in DOMAIN lifecycle[id]
      <3>1. PICK rs : rs = <<r>>
        OBVIOUS
      <3>2. Len(rs) = 1 /\ DOMAIN rs = {1} /\ lifecycle[id] = rs /\ climbed[id] = 0
        BY <1>7, <1>8, <1>9, <3>1
      <3>3. ~(Len(rs) > 1 + climbed[id]) /\ 1 \in DOMAIN rs
        BY <3>2
      <3> QED BY <3>2, <3>3
    <2> QED BY <2>1, <2>2 DEF ClimbStands
  <1> QED BY <1>9, <1>11, <1>12, <1>13 DEF AlertsInv

\* Every request, and the time that passes, keep the alerts in order.
LEMMA AlertsInvStep ==
    ASSUME AlertsInv, [AlertsNext]_alertVars
    PROVE  AlertsInv'
  <1>1. ASSUME NEW id \in AlertIds, NEW m \in Messages, NEW level \in Levels,
               NEW born \in {0, clock}, EmitAlert(id, m, level, born)
        PROVE  AlertsInv'
    BY <1>1, EmitKeeps
  <1>2. ASSUME NEW n \in routing, PublishEmitted(n) PROVE AlertsInv'
    BY <1>2, PublishKeeps
  <1>3. ASSUME NEW id \in DOMAIN alertStore, Acknowledge(id) \/ Resolve(id) PROVE AlertsInv'
    BY <1>3, SettleKeeps DEF Acknowledge, Resolve
  <1>4. CASE ListAlerts
    BY <1>4, ListKeeps
  <1>5. CASE AlertTime
    <2>1. UNCHANGED <<objects, alertStore, lastEmitted, climbed, lifecycle, routing, published,
                      emissions>> /\ clock' = clock + 1
      BY <1>5 DEF AlertTime
    <2>2. AlertsTyped'
      BY <2>1 DEF AlertsInv, AlertsTyped
    <2>3. EmissionsNoted' /\ SuppressionHolds'
      BY <2>1 DEF AlertsInv, EmissionsNoted, SuppressionHolds
    <2>4. ASSUME NEW x \in DOMAIN alertStore' PROVE ClimbStands(x)'
      BY <2>1, ClimbKept DEF AlertsInv
    <2>5. ASSUME NEW x \in DOMAIN published' PROVE ToldAs(x)'
      BY <2>1 DEF AlertsInv, ToldAs, EmittedOnce
    <2> QED BY <2>2, <2>3, <2>4, <2>5 DEF AlertsInv
  <1>6. CASE UNCHANGED alertVars
    <2>1. UNCHANGED <<objects, alertStore, lastEmitted, climbed, lifecycle, routing, published,
                      emissions, clock>>
      BY <1>6 DEF alertVars
    <2>2. AlertsTyped' /\ EmissionsNoted' /\ SuppressionHolds'
      BY <2>1 DEF AlertsInv, AlertsTyped, EmissionsNoted, SuppressionHolds
    <2>4. ASSUME NEW x \in DOMAIN alertStore' PROVE ClimbStands(x)'
      BY <2>1, ClimbKept DEF AlertsInv
    <2>5. ASSUME NEW x \in DOMAIN published' PROVE ToldAs(x)'
      BY <2>1 DEF AlertsInv, ToldAs, EmittedOnce
    <2> QED BY <2>2, <2>4, <2>5 DEF AlertsInv
  <1> QED BY <1>1, <1>2, <1>3, <1>4, <1>5, <1>6 DEF AlertsNext

\* Whatever requests interleave with the awaits of emits: alerts of one message and
\* severity are a window apart, every alert climbed its ladder rung by rung, and what
\* was published last of an alert is its status or it escalated since.
THEOREM AlertsStayOrderly == AlertsSpec => []AlertsOrderly
  <1>1. AlertsInit => AlertsInv
    BY AlertsInvInit
  <1>2. AlertsInv /\ [AlertsNext]_alertVars => AlertsInv'
    BY AlertsInvStep
  <1>3. AlertsInv => AlertsOrderly
    <2>1. ASSUME AlertsInv PROVE AlertsTypeOK
      <3>1. ASSUME NEW id \in DOMAIN alertStore
            PROVE Of(id).id = id /\ Of(id).status \in Statuses /\ climbed[id] \in 0 .. Len(Ladder)
        <4>1. /\ alertStore[id] \in DOMAIN objects /\ objects[alertStore[id]].id = id
              /\ climbed[id] \in 0 .. Len(Ladder) /\ objects \in Seq(AlertRows)
          BY <2>1 DEF AlertsInv, AlertsTyped
        <4>2. objects[alertStore[id]] \in AlertRows
          BY <4>1
        <4>3. objects[alertStore[id]].status \in Statuses
          BY <4>2 DEF AlertRows
        <4> QED BY <4>1, <4>3 DEF Of
      <3> QED BY <2>1, <3>1 DEF AlertsInv, AlertsTyped, AlertsTypeOK
    <2>2. ASSUME AlertsInv PROVE LadderInOrder
      BY <2>2 DEF AlertsInv, LadderInOrder, ClimbStands
    <2>3. ASSUME AlertsInv PROVE PublishedIsCurrent
      BY <2>3 DEF AlertsInv, PublishedIsCurrent, ToldAs, Of
    <2> QED BY <2>1, <2>2, <2>3 DEF AlertsInv, AlertsOrderly
  <1> QED BY <1>1, <1>2, <1>3, PTL DEF AlertsSpec

-----------------------------------------------------------------------------
(* The schema at the start of the control plane. *)

\* The tables that revisions create, testing_runs not among them, have a base group each
\* and are given what the classes name, but for two groups that no revision adds.
NewTables(i) == Revisions[i].creates
Widened(i) == Revisions[i].adds
Unmigrated == {"task", "determinism"}

\* The revisions, one by one.
LEMMA TheRevisions ==
    /\ DOMAIN Revisions = 1 .. 6
    /\ NewTables(1) = {"catalogs", "training_runs", "parameter_sweep_runs",
                       "backtest_runs", "run_artifacts"}
    /\ NewTables(2) = {"parameter_sets"} /\ NewTables(3) = {} /\ NewTables(4) = {}
    /\ NewTables(5) = {"registries"} /\ NewTables(6) = {}
    /\ DOMAIN Widened(1) = {}
    /\ DOMAIN Widened(2) = {"parameter_sweep_runs"}
    /\ Widened(2)["parameter_sweep_runs"] = "provenance"
    /\ DOMAIN Widened(3) = {"run_artifacts"} /\ Widened(3)["run_artifacts"] = "retention"
    /\ DOMAIN Widened(4) = {"training_runs"} /\ Widened(4)["training_runs"] = "context"
    /\ DOMAIN Widened(5) = {"run_artifacts"} /\ Widened(5)["run_artifacts"] = "governance"
    /\ DOMAIN Widened(6) = LineageTables \cup {"run_artifacts"}
    /\ \A t \in LineageTables : Widened(6)[t] = "lineage"
    /\ Widened(6)["run_artifacts"] = "integrity"
  <1>1. /\ DOMAIN Revisions = 1 .. 6 /\ Revisions[1] = Initial /\ Revisions[2] = Provenance
        /\ Revisions[3] = Retention /\ Revisions[4] = Context /\ Revisions[5] = Governance
        /\ Revisions[6] = Durable
    BY DEF Revisions
  <1>2. NewTables(1) = {"catalogs", "training_runs", "parameter_sweep_runs",
                       "backtest_runs", "run_artifacts"} /\ DOMAIN Widened(1) = {}
    BY <1>1 DEF NewTables, Widened, Initial, NoTables
  <1>3. /\ NewTables(2) = {"parameter_sets"} /\ DOMAIN Widened(2) = {"parameter_sweep_runs"}
        /\ Widened(2)["parameter_sweep_runs"] = "provenance"
    BY <1>1 DEF NewTables, Widened, Provenance
  <1>4. /\ NewTables(3) = {} /\ DOMAIN Widened(3) = {"run_artifacts"}
        /\ Widened(3)["run_artifacts"] = "retention"
    BY <1>1 DEF NewTables, Widened, Retention
  <1>5. /\ NewTables(4) = {} /\ DOMAIN Widened(4) = {"training_runs"}
        /\ Widened(4)["training_runs"] = "context"
    BY <1>1 DEF NewTables, Widened, Context
  <1>6. /\ NewTables(5) = {"registries"} /\ DOMAIN Widened(5) = {"run_artifacts"}
        /\ Widened(5)["run_artifacts"] = "governance"
    BY <1>1 DEF NewTables, Widened, Governance
  <1>7. /\ NewTables(6) = {} /\ DOMAIN Widened(6) = LineageTables \cup {"run_artifacts"}
        /\ \A t \in LineageTables : Widened(6)[t] = "lineage"
        /\ Widened(6)["run_artifacts"] = "integrity"
    BY <1>1 DEF NewTables, Widened, Durable, LineageTables
  <1> QED BY <1>1, <1>2, <1>3, <1>4, <1>5, <1>6, <1>7

\* What a table has after the revisions up to k.
LEMMA MigratedHas ==
    ASSUME NEW cols, NEW v \in Nat, NEW k \in 0 .. 6, NEW made, made = Migrated(cols, v, k)
    PROVE  /\ DOMAIN cols \subseteq DOMAIN made
           /\ \A t \in DOMAIN made :
                /\ t \in DOMAIN cols \/ t \in Tables \ {"testing_runs"}
                /\ t \in DOMAIN cols \/ \E i \in v + 1 .. k : t \in NewTables(i)
                /\ t \in DOMAIN cols => cols[t] \subseteq made[t]
                /\ t \notin DOMAIN cols => "base" \in made[t]
                /\ \A i \in v + 1 .. k : t \in DOMAIN Widened(i) => Widened(i)[t] \in made[t]
  <1>1. PICK some : some = UNION {Revisions[i].creates : i \in v + 1 .. k}
    OBVIOUS
  <1>2. \A t \in some : \E i \in v + 1 .. k : t \in NewTables(i)
    BY <1>1 DEF NewTables
  <1>3. DOMAIN made = DOMAIN cols \cup some
    BY <1>1 DEF Migrated
  <1>4. ASSUME NEW t \in DOMAIN made
        PROVE  made[t] = (IF t \in DOMAIN cols THEN cols[t] ELSE {"base"}) \cup
                         {Widened(i)[t] : i \in {j \in v + 1 .. k : t \in DOMAIN Widened(j)}}
    BY <1>1, <1>3 DEF Migrated, Widened
  <1>5. \A t \in some : t \in Tables \ {"testing_runs"}
    <2>1. ASSUME NEW i \in v + 1 .. k PROVE NewTables(i) \subseteq Tables \ {"testing_runs"}
      <3>1. i \in {1, 2, 3, 4, 5, 6}
        OBVIOUS
      <3> QED BY <3>1, TheRevisions DEF Tables, ModelColumns
    <2> QED BY <1>2, <2>1
  <1>6. ASSUME NEW t \in DOMAIN made, NEW i \in v + 1 .. k, t \in DOMAIN Widened(i)
        PROVE  Widened(i)[t] \in made[t]
    BY <1>4, <1>6
  <1>7. ASSUME NEW t \in DOMAIN made
        PROVE  /\ t \in DOMAIN cols => cols[t] \subseteq made[t]
               /\ t \notin DOMAIN cols => "base" \in made[t]
    BY <1>4
  <1> QED BY <1>2, <1>3, <1>5, <1>6, <1>7

\* At the head nothing is left to migrate.
LEMMA HeadStays ==
    ASSUME NEW cols, cols = [t \in DOMAIN cols |-> cols[t]]
    PROVE  Migrated(cols, 6, 6) = cols
  <1>1. 6 + 1 .. 6 = {}
    OBVIOUS
  <1>2. UNION {Revisions[i].creates : i \in 6 + 1 .. 6} = {}
    BY <1>1
  <1>3. \A t : {Revisions[i].adds[t] : i \in {j \in 6 + 1 .. 6 : t \in DOMAIN Revisions[j].adds}} = {}
    BY <1>1
  <1> QED BY <1>2, <1>3 DEF Migrated

\* No revision makes testing_runs, and the last one needs it.
LEMMA FreshStays == ~Upgradable(NoTables, 0)
  <1>1. PICK made : made = Migrated(NoTables, 0, 5)
    OBVIOUS
  <1>2. DOMAIN NoTables = {}
    BY DEF NoTables
  <1>3. "testing_runs" \notin DOMAIN made
    BY <1>1, <1>2, MigratedHas
  <1>4. "testing_runs" \in DOMAIN Widened(6)
    BY TheRevisions DEF LineageTables
  <1>5. ASSUME Upgradable(NoTables, 0) PROVE FALSE
    <2>1. Runs(Revisions[6], Migrated(NoTables, 0, 6 - 1))
      BY <1>5 DEF Upgradable, HeadRevision
    <2>2. Runs(Revisions[6], made)
      BY <1>1, <2>1
    <2> QED BY <1>3, <1>4, <2>2 DEF Runs, Widened
  <1> QED BY <1>5

\* What is lacking of a table that has its base group and what all the revisions add to it.
LEMMA AllRevisionsSuffice ==
    ASSUME NEW t \in Tables, NEW has, "base" \in has,
           \A i \in 1 .. 6 : t \in DOMAIN Widened(i) => Widened(i)[t] \in has
    PROVE  ModelColumns[t] \ has \subseteq Unmigrated
  <1>1. t \in {"catalogs", "parameter_sets", "registries"} => ModelColumns[t] = {"base"}
    BY DEF ModelColumns
  <1>2. CASE t = "training_runs"
    <2>1. "context" \in has /\ "lineage" \in has
      BY <1>2, TheRevisions DEF LineageTables
    <2> QED BY <1>2, <2>1 DEF ModelColumns, Unmigrated
  <1>3. CASE t = "parameter_sweep_runs"
    <2>1. "provenance" \in has /\ "lineage" \in has
      BY <1>3, TheRevisions DEF LineageTables
    <2> QED BY <1>3, <2>1 DEF ModelColumns, Unmigrated
  <1>4. CASE t = "backtest_runs" \/ t = "testing_runs"
    <2>1. "lineage" \in has
      BY <1>4, TheRevisions DEF LineageTables
    <2> QED BY <1>4, <2>1 DEF ModelColumns, Unmigrated
  <1>5. CASE t = "run_artifacts"
    <2>1. "retention" \in has /\ "governance" \in has /\ "integrity" \in has
      BY <1>5, TheRevisions
    <2> QED BY <1>5, <2>1 DEF ModelColumns, Unmigrated
  <1>6. t \in {"catalogs", "parameter_sets", "registries", "training_runs", "parameter_sweep_runs",
               "backtest_runs", "testing_runs", "run_artifacts"}
    BY DEF Tables, ModelColumns
  <1> QED BY <1>1, <1>2, <1>3, <1>4, <1>5, <1>6

BootStages == {"down", "repair", "stamp", "upgrade", "create", "creating", "serving"}

SchemaTyped ==
    /\ columns = [t \in DOMAIN columns |-> columns[t]] /\ DOMAIN columns \subseteq Tables
    /\ version \in 0 .. 6 /\ boot \in [Apis -> BootStages] /\ missing \in [Apis -> SUBSET Tables]
    /\ madeBy \in {"nobody", "create_all", "migrations"}

\* Whose start has come to create_all has the head revision, and knows what is missing.
StartsStand ==
    \A p \in Apis :
        /\ boot[p] \in {"create", "creating", "serving"} => version = 6
        /\ boot[p] = "creating" => Tables \ DOMAIN columns \subseteq missing[p]
        /\ boot[p] = "serving" => DOMAIN columns = Tables

\* A new database stays empty: its migrations fail.
NobodyStands ==
    madeBy = "nobody" =>
        columns = NoTables /\ version = 0 /\ \A p \in Apis : boot[p] \in {"down", "upgrade"}

\* A database without a version is repaired before it is stamped.
LegacyStands ==
    madeBy = "create_all" =>
        /\ version \in {0, 6} /\ "training_runs" \in DOMAIN columns
        /\ \A t \in DOMAIN columns : "base" \in columns[t]
        /\ \A p \in Apis : boot[p] = "upgrade" => version = 6
        /\ version = 6 \/ (\E p \in Apis : boot[p] = "stamp")
           => \A t \in DOMAIN columns : Lacks(t) = {}

\* A database with a version is migrated from there to the head.
ManagedStands ==
    madeBy = "migrations" =>
        /\ version # 0 /\ \A p \in Apis : boot[p] \notin {"repair", "stamp"}
        /\ version < 6 => columns \in ManagedDatabases(version)
        /\ version = 6 => \A t \in DOMAIN columns : Lacks(t) \subseteq Unmigrated

\* The inductive invariant.
SchemaInv ==
    /\ SchemaTyped
    /\ StartsStand
    /\ NobodyStands
    /\ LegacyStands
    /\ ManagedStands

\* A database that revisions made has in each table what those that came add to it.
LEMMA ManagedHas ==
    ASSUME NEW v \in 0 .. 5, NEW cols \in ManagedDatabases(v)
    PROVE  /\ cols = [t \in DOMAIN cols |-> cols[t]] /\ DOMAIN cols \subseteq Tables
           /\ \A t \in DOMAIN cols :
                /\ "base" \in cols[t]
                /\ \A i \in 1 .. v : t \in DOMAIN Widened(i) => Widened(i)[t] \in cols[t]
  <1>1. PICK made : made = Migrated(NoTables, 0, v)
    OBVIOUS
  <1>2. made = [t \in DOMAIN made |-> made[t]]
    BY <1>1 DEF Migrated
  <1>3. DOMAIN NoTables = {}
    BY DEF NoTables
  <1>4. \A t \in DOMAIN made :
            /\ t \in Tables \ {"testing_runs"} /\ "base" \in made[t]
            /\ \A i \in 1 .. v : t \in DOMAIN Widened(i) => Widened(i)[t] \in made[t]
    <2>1. /\ \A t \in DOMAIN made :
            /\ t \in Tables \ {"testing_runs"} /\ "base" \in made[t]
            /\ \A i \in 0 + 1 .. v : t \in DOMAIN Widened(i) => Widened(i)[t] \in made[t]
      BY <1>1, <1>3, MigratedHas
    <2> QED BY <2>1
  <1>5. CASE cols = made
    BY <1>2, <1>4, <1>5
  <1>6. CASE cols = [t \in DOMAIN made \cup {"testing_runs"} |->
                      IF t = "testing_runs" THEN {"base"} ELSE made[t]]
    <2>1. "testing_runs" \in Tables
      BY DEF Tables, ModelColumns
    <2>2. \A i \in 1 .. 5 : "testing_runs" \notin DOMAIN Widened(i)
      <3>1. \A i \in 1 .. 5 : i \in {1, 2, 3, 4, 5}
        OBVIOUS
      <3> QED BY <3>1, TheRevisions
    <2> QED BY <1>4, <1>6, <2>1, <2>2
  <1> QED BY <1>1, <1>5, <1>6 DEF ManagedDatabases

\* What a step of one process that leaves the database alone keeps.
LEMMA StageKeeps ==
    ASSUME SchemaInv, UNCHANGED <<columns, version, madeBy>>, NEW p \in Apis,
           NEW there \in BootStages, boot' = [boot EXCEPT ![p] = there],
           missing' \in [Apis -> SUBSET Tables],
           \A q \in Apis \ {p} : missing'[q] = missing[q],
           there \in {"create", "creating", "serving"} => version = 6,
           there = "creating" => Tables \ DOMAIN columns \subseteq missing'[p],
           there = "serving" => DOMAIN columns = Tables,
           madeBy = "nobody" => there \in {"down", "upgrade"},
           madeBy = "create_all" /\ there = "upgrade" => version = 6,
           madeBy = "create_all" /\ there = "stamp" => \A t \in DOMAIN columns : Lacks(t) = {},
           madeBy = "migrations" => there \notin {"repair", "stamp"}
    PROVE  SchemaInv'
  <1>1. /\ boot \in [Apis -> BootStages] /\ boot' \in [Apis -> BootStages] /\ boot'[p] = there
        /\ \A q \in Apis : q # p => boot'[q] = boot[q]
    BY DEF SchemaInv, SchemaTyped
  <1>2. SchemaTyped'
    BY <1>1 DEF SchemaInv, SchemaTyped
  <1>3. StartsStand'
    BY <1>1 DEF SchemaInv, StartsStand
  <1>4. NobodyStands'
    BY <1>1 DEF SchemaInv, NobodyStands
  <1>5. ManagedStands'
    BY <1>1 DEF SchemaInv, ManagedStands, Lacks
  <1>6. LegacyStands'
    <2>1. SUFFICES ASSUME madeBy = "create_all"
          PROVE  /\ version \in {0, 6} /\ "training_runs" \in DOMAIN columns
                 /\ \A t \in DOMAIN columns : "base" \in columns[t]
                 /\ \A q \in Apis : boot'[q] = "upgrade" => version = 6
                 /\ version = 6 \/ (\E q \in Apis : boot'[q] = "stamp")
                    => \A t \in DOMAIN columns : Lacks(t) = {}
      BY DEF LegacyStands, Lacks
    <2> QED BY <1>1, <2>1 DEF SchemaInv, LegacyStands
  <1> QED BY <1>2, <1>3, <1>4, <1>5, <1>6 DEF SchemaInv

\* The step of a process from one stage to another.
LEMMA StageMoves ==
    ASSUME NEW p \in Apis, NEW here, NEW there, At(p, here, there)
    PROVE  boot[p] = here /\ boot' = [boot EXCEPT ![p] = there]
  BY DEF At

\* Looking at the database, and every stage that leaves it alone.
LEMMA InspectKeeps ==
    ASSUME SchemaInv, NEW p \in Apis, Inspect(p)
    PROVE  SchemaInv'
  <1>1. PICK there : there = IF version = 0 /\ HasLegacySchema(columns) THEN "repair" ELSE "upgrade"
    OBVIOUS
  <1>2. /\ boot' = [boot EXCEPT ![p] = there] /\ there \in BootStages
        /\ UNCHANGED <<columns, version, missing, madeBy>>
    BY <1>1 DEF Inspect, At, BootStages
  <1>3. missing' \in [Apis -> SUBSET Tables]
    BY <1>2 DEF SchemaInv, SchemaTyped
  <1>4. madeBy = "nobody" => there = "upgrade"
    <2>1. DOMAIN NoTables = {}
      BY DEF NoTables
    <2> QED BY <1>1, <2>1 DEF SchemaInv, NobodyStands, HasLegacySchema
  <1>5. madeBy = "create_all" /\ there = "upgrade" => version = 6
    <2>1. "training_runs" \in LegacyTables
      BY DEF LegacyTables, RepairColumns
    <2> QED BY <1>1, <2>1 DEF SchemaInv, LegacyStands, HasLegacySchema
  <1>6. madeBy = "migrations" => there # "repair"
    BY <1>1 DEF SchemaInv, ManagedStands
  <1> QED BY <1>1, <1>2, <1>3, <1>4, <1>5, <1>6, StageKeeps

\* A start that stops, and what a process looks up.
LEMMA DownKeeps ==
    ASSUME SchemaInv, NEW p \in Apis, boot' = [boot EXCEPT ![p] = "down"],
           UNCHANGED <<columns, version, madeBy>>,
           missing' = missing \/ missing' = [missing EXCEPT ![p] = {}]
    PROVE  SchemaInv'
  <1>1. missing' \in [Apis -> SUBSET Tables] /\ \A q \in Apis \ {p} : missing'[q] = missing[q]
    BY DEF SchemaInv, SchemaTyped
  <1>2. "down" \in BootStages
    BY DEF BootStages
  <1> QED BY <1>1, <1>2, StageKeeps

\* What a process saw missing covers what is missing, for tables are never dropped.
LEMMA LookKeeps ==
    ASSUME SchemaInv, NEW p \in Apis, LookForTables(p)
    PROVE  SchemaInv'
  <1>1. /\ boot[p] = "create" /\ boot' = [boot EXCEPT ![p] = "creating"]
        /\ missing' = [missing EXCEPT ![p] = Tables \ DOMAIN columns]
        /\ UNCHANGED <<columns, version, madeBy>>
    BY DEF LookForTables, At
  <1>2. /\ missing' \in [Apis -> SUBSET Tables] /\ \A q \in Apis \ {p} : missing'[q] = missing[q]
        /\ missing'[p] = Tables \ DOMAIN columns
    BY <1>1 DEF SchemaInv, SchemaTyped
  <1>3. "creating" \in BootStages /\ version = 6 /\ madeBy # "nobody"
    BY <1>1 DEF BootStages, SchemaInv, StartsStand, NobodyStands
  <1> QED BY <1>1, <1>2, <1>3, StageKeeps

\* The revisions that are left bring a database to the head, or nothing happens to it.
LEMMA UpgradeKeeps ==
    ASSUME SchemaInv, NEW p \in Apis, Upgrade(p)
    PROVE  SchemaInv'
  <1>1. /\ boot[p] = "upgrade" /\ boot' = [boot EXCEPT ![p] = "create"]
        /\ Upgradable(columns, version) /\ columns' = Migrated(columns, version, 6) /\ version' = 6
        /\ UNCHANGED <<missing, madeBy>> /\ "create" \in BootStages
    BY DEF Upgrade, At, HeadRevision, BootStages
  <1>2. madeBy # "nobody"
    BY <1>1, FreshStays DEF SchemaInv, NobodyStands
  <1>3. missing' \in [Apis -> SUBSET Tables]
    BY <1>1 DEF SchemaInv, SchemaTyped
  <1>4. CASE version = 6
    <2>1. columns' = columns
      BY <1>1, <1>4, HeadStays DEF SchemaInv, SchemaTyped
    <2> QED BY <1>1, <1>2, <1>3, <1>4, <2>1, StageKeeps
  <1>5. CASE version # 6
    <2>1. madeBy = "migrations" /\ version \in 1 .. 5 /\ columns \in ManagedDatabases(version)
      BY <1>1, <1>2, <1>5 DEF SchemaInv, SchemaTyped, LegacyStands, ManagedStands
    <2>2. PICK v, made : v = version /\ made = Migrated(columns, v, 6)
      OBVIOUS
    <2>3. /\ columns' = made /\ v \in 1 .. 5 /\ v \in Nat /\ columns \in ManagedDatabases(v)
          /\ v \in 0 .. 5
      BY <1>1, <2>1, <2>2
    <2>4. /\ DOMAIN columns \subseteq Tables
          /\ \A t \in DOMAIN columns :
                /\ "base" \in columns[t]
                /\ \A i \in 1 .. v : t \in DOMAIN Widened(i) => Widened(i)[t] \in columns[t]
      BY <2>3, ManagedHas
    <2>5. \A t \in DOMAIN made :
                /\ t \in DOMAIN columns \/ t \in Tables \ {"testing_runs"}
                /\ t \in DOMAIN columns \/ \E i \in v + 1 .. 6 : t \in NewTables(i)
                /\ t \in DOMAIN columns => columns[t] \subseteq made[t]
                /\ t \notin DOMAIN columns => "base" \in made[t]
                /\ \A i \in v + 1 .. 6 : t \in DOMAIN Widened(i) => Widened(i)[t] \in made[t]
      BY <2>2, <2>3, MigratedHas
    <2>6. ASSUME NEW t \in DOMAIN made PROVE t \in Tables /\ ModelColumns[t] \ made[t] \subseteq Unmigrated
      <3>1. t \in Tables /\ "base" \in made[t]
        BY <2>4, <2>5
      <3>2. ASSUME NEW i \in 1 .. 6, t \in DOMAIN Widened(i) PROVE Widened(i)[t] \in made[t]
        <4>1. CASE i \in v + 1 .. 6
          BY <2>5, <3>2, <4>1
        <4>2. CASE i \in 1 .. v /\ t \in DOMAIN columns
          BY <2>4, <2>5, <3>2, <4>2
        <4>3. CASE i \in 1 .. v /\ t \notin DOMAIN columns
          <5>1. PICK j \in v + 1 .. 6 : t \in NewTables(j)
            BY <2>5, <4>3
          <5>2. j \in {2, 3, 4, 5, 6} /\ i \in {1, 2, 3, 4, 5}
            BY <2>3, <4>3
          <5>3. t \in {"parameter_sets", "registries"}
            BY <5>1, <5>2, TheRevisions
          <5> QED BY <3>2, <5>2, <5>3, TheRevisions
        <4> QED BY <2>3, <4>1, <4>2, <4>3
      <3> QED BY <3>1, <3>2, AllRevisionsSuffice
    <2>7. /\ boot \in [Apis -> BootStages] /\ boot' \in [Apis -> BootStages] /\ boot'[p] = "create"
          /\ \A q \in Apis : q # p => boot'[q] = boot[q]
      BY <1>1 DEF SchemaInv, SchemaTyped
    <2>8. SchemaTyped'
      <3>1. columns' = [t \in DOMAIN columns' |-> columns'[t]]
        BY <1>1 DEF Migrated
      <3>2. DOMAIN columns' \subseteq Tables
        BY <2>3, <2>6
      <3> QED BY <1>1, <1>3, <2>7, <3>1, <3>2 DEF SchemaInv, SchemaTyped
    <2>9. StartsStand'
      BY <1>1, <1>5, <2>7 DEF SchemaInv, StartsStand
    <2>10. NobodyStands' /\ LegacyStands'
      BY <1>1, <2>1 DEF NobodyStands, LegacyStands
    <2>11. ManagedStands'
      <3>1. \A q \in Apis : boot'[q] \notin {"repair", "stamp"}
        BY <2>1, <2>7 DEF SchemaInv, ManagedStands
      <3>2. \A t \in DOMAIN columns' : (ModelColumns[t] \ columns'[t]) \subseteq Unmigrated
        BY <2>3, <2>6
      <3> QED BY <1>1, <3>1, <3>2 DEF ManagedStands, Lacks
    <2> QED BY <2>8, <2>9, <2>10, <2>11 DEF SchemaInv
  <1> QED BY <1>4, <1>5

\* The repair gives an old database all it can lack.
LEMMA RepairKeeps ==
    ASSUME SchemaInv, NEW p \in Apis, Repair(p)
    PROVE  SchemaInv'
  <1>1. /\ boot[p] = "repair" /\ boot' = [boot EXCEPT ![p] = "stamp"] /\ "stamp" \in BootStages
        /\ columns' = Repaired(columns) /\ UNCHANGED <<version, missing, madeBy>>
    BY DEF Repair, At, BootStages
  <1>2. madeBy = "create_all"
    BY <1>1 DEF SchemaInv, SchemaTyped, NobodyStands, ManagedStands
  <1>3. /\ DOMAIN columns' = DOMAIN columns
        /\ columns' = [t \in DOMAIN columns' |-> columns'[t]]
        /\ \A t \in DOMAIN columns : columns'[t] =
              columns[t] \cup (IF t \in DOMAIN RepairColumns THEN RepairColumns[t] ELSE {})
    BY <1>1 DEF Repaired
  <1>4. /\ boot' \in [Apis -> BootStages] /\ boot'[p] = "stamp"
        /\ \A q \in Apis : q # p => boot'[q] = boot[q]
    BY <1>1 DEF SchemaInv, SchemaTyped
  <1>5. SchemaTyped'
    BY <1>1, <1>3, <1>4 DEF SchemaInv, SchemaTyped
  <1>6. StartsStand'
    BY <1>1, <1>3, <1>4 DEF SchemaInv, StartsStand
  <1>7. NobodyStands' /\ ManagedStands'
    BY <1>1, <1>2 DEF NobodyStands, ManagedStands
  <1>8. LegacyStands'
    <2>1. /\ version \in {0, 6} /\ "training_runs" \in DOMAIN columns
          /\ \A t \in DOMAIN columns : "base" \in columns[t]
          /\ \A q \in Apis : boot[q] = "upgrade" => version = 6
      BY <1>2 DEF SchemaInv, LegacyStands
    <2>2. ASSUME NEW t \in DOMAIN columns' PROVE ModelColumns[t] \ columns'[t] = {}
      <3>1. "base" \in columns[t] /\ t \in Tables
        BY <1>3, <2>1 DEF SchemaInv, SchemaTyped
      <3>2. CASE t \in {"catalogs", "parameter_sets", "registries"}
        <4>1. ModelColumns[t] = {"base"}
          BY <3>2 DEF ModelColumns
        <4> QED BY <1>3, <3>1, <4>1
      <3>3. CASE t \notin {"catalogs", "parameter_sets", "registries"}
        <4>1. t \in {"training_runs", "parameter_sweep_runs", "backtest_runs", "testing_runs",
                      "run_artifacts"}
          BY <3>1, <3>3 DEF Tables, ModelColumns
        <4>2. t \in DOMAIN RepairColumns /\ ModelColumns[t] \subseteq {"base"} \cup RepairColumns[t]
          BY <4>1 DEF ModelColumns, RepairColumns
        <4> QED BY <1>3, <3>1, <4>2
      <3> QED BY <3>2, <3>3
    <2>3. \A t \in DOMAIN columns' : "base" \in columns'[t]
      BY <1>3, <2>1
    <2> QED BY <1>1, <1>3, <1>4, <2>1, <2>2, <2>3 DEF LegacyStands, Lacks
  <1> QED BY <1>5, <1>6, <1>7, <1>8 DEF SchemaInv

\* The stamp comes after the repair.
LEMMA StampKeeps ==
    ASSUME SchemaInv, NEW p \in Apis, Stamp(p)
    PROVE  SchemaInv'
  <1>1. /\ boot[p] = "stamp" /\ boot' = [boot EXCEPT ![p] = "create"] /\ "create" \in BootStages
        /\ version' = 6 /\ UNCHANGED <<columns, missing, madeBy>>
    BY DEF Stamp, At, BootStages, HeadRevision
  <1>2. madeBy = "create_all"
    BY <1>1 DEF SchemaInv, SchemaTyped, NobodyStands, ManagedStands
  <1>3. /\ boot' \in [Apis -> BootStages] /\ boot'[p] = "create"
        /\ \A q \in Apis : q # p => boot'[q] = boot[q]
    BY <1>1 DEF SchemaInv, SchemaTyped
  <1>4. SchemaTyped'
    BY <1>1, <1>3 DEF SchemaInv, SchemaTyped
  <1>5. StartsStand'
    BY <1>1, <1>3 DEF SchemaInv, StartsStand
  <1>6. NobodyStands' /\ ManagedStands'
    BY <1>1, <1>2 DEF NobodyStands, ManagedStands
  <1>7. LegacyStands'
    BY <1>1, <1>2 DEF SchemaInv, LegacyStands, Lacks
  <1> QED BY <1>4, <1>5, <1>6, <1>7 DEF SchemaInv

\* create_all makes the tables that are missing, whole.
LEMMA TablesKeep ==
    ASSUME SchemaInv, NEW p \in Apis, CreateTables(p)
    PROVE  SchemaInv'
  <1>1. /\ boot[p] = "creating" /\ boot' = [boot EXCEPT ![p] = "serving"] /\ "serving" \in BootStages
        /\ columns' = [t \in DOMAIN columns \cup missing[p] |->
                         IF t \in missing[p] THEN ModelColumns[t] ELSE columns[t]]
        /\ missing' = [missing EXCEPT ![p] = {}] /\ UNCHANGED <<version, madeBy>>
    BY DEF CreateTables, At, BootStages
  <1>2. version = 6 /\ madeBy # "nobody" /\ Tables \ DOMAIN columns \subseteq missing[p]
    BY <1>1 DEF SchemaInv, StartsStand, NobodyStands
  <1>3. missing[p] \subseteq Tables /\ DOMAIN columns \subseteq Tables
    BY DEF SchemaInv, SchemaTyped
  <1>4. /\ DOMAIN columns' = Tables
        /\ \A t \in Tables : columns'[t] = IF t \in missing[p] THEN ModelColumns[t] ELSE columns[t]
        /\ \A t \in Tables : t \in missing[p] \/ t \in DOMAIN columns
    BY <1>1, <1>2, <1>3
  <1>5. /\ boot' \in [Apis -> BootStages] /\ boot'[p] = "serving"
        /\ \A q \in Apis : q # p => boot'[q] = boot[q]
        /\ missing' \in [Apis -> SUBSET Tables]
    BY <1>1 DEF SchemaInv, SchemaTyped
  <1>6. SchemaTyped'
    BY <1>1, <1>4, <1>5 DEF SchemaInv, SchemaTyped
  <1>7. StartsStand'
    BY <1>1, <1>2, <1>4, <1>5 DEF SchemaInv, StartsStand
  <1>8. NobodyStands'
    BY <1>1, <1>2 DEF NobodyStands
  <1>9. LegacyStands'
    <2>1. SUFFICES ASSUME madeBy = "create_all" PROVE LegacyStands'
      BY <1>1 DEF LegacyStands
    <2>2. /\ "training_runs" \in DOMAIN columns /\ \A t \in DOMAIN columns : "base" \in columns[t]
          /\ \A t \in DOMAIN columns : ModelColumns[t] \ columns[t] = {}
      BY <1>2, <2>1 DEF SchemaInv, LegacyStands, Lacks
    <2>3. \A t \in Tables : "base" \in ModelColumns[t]
      BY DEF Tables, ModelColumns
    <2>4. \A t \in Tables : "base" \in columns'[t] /\ ModelColumns[t] \ columns'[t] = {}
      BY <1>4, <2>2, <2>3
    <2> QED BY <1>1, <1>2, <1>3, <1>4, <2>2, <2>4 DEF LegacyStands, Lacks
  <1>10. ManagedStands'
    <2>1. SUFFICES ASSUME madeBy = "migrations" PROVE ManagedStands'
      BY <1>1 DEF ManagedStands
    <2>2. /\ \A q \in Apis : boot[q] \notin {"repair", "stamp"}
          /\ \A t \in DOMAIN columns : (ModelColumns[t] \ columns[t]) \subseteq Unmigrated
      BY <1>2, <2>1 DEF SchemaInv, ManagedStands, Lacks
    <2>3. \A t \in Tables : (ModelColumns[t] \ columns'[t]) \subseteq Unmigrated
      BY <1>4, <2>2
    <2>4. \A q \in Apis : boot'[q] \notin {"repair", "stamp"}
      BY <1>5, <2>2
    <2>5. version' = 6 /\ \A t \in DOMAIN columns' : Lacks(t)' \subseteq Unmigrated
      BY <1>1, <1>2, <1>4, <2>3 DEF Lacks
    <2> QED BY <2>4, <2>5 DEF ManagedStands
  <1> QED BY <1>6, <1>7, <1>8, <1>9, <1>10 DEF SchemaInv

\* The databases a first process may find.
LEMMA SchemaInvInit ==
    ASSUME SchemaInit
    PROVE  SchemaInv
  <1>1. /\ boot \in [Apis -> BootStages] /\ missing \in [Apis -> SUBSET Tables]
        /\ \A p \in Apis : boot[p] = "down"
    BY DEF SchemaInit, BootStages
  <1>2. StartsStand
    BY <1>1 DEF StartsStand
  <1>3. CASE madeBy = "nobody" /\ version = 0 /\ columns = NoTables
    <2>1. columns = [t \in DOMAIN columns |-> columns[t]] /\ DOMAIN columns = {}
      BY <1>3 DEF NoTables
    <2> QED BY <1>1, <1>2, <1>3, <2>1
        DEF SchemaInv, SchemaTyped, NobodyStands, LegacyStands, ManagedStands
  <1>4. CASE madeBy = "create_all" /\ version = 0 /\ columns \in LegacyDatabases
    <2>1. PICK ts \in {Tables, Tables \ {"testing_runs", "parameter_sets", "registries"}},
               lacking \in SUBSET LateGroups : columns = [t \in ts |-> ModelColumns[t] \ lacking]
      BY <1>4 DEF LegacyDatabases
    <2>2. ts \subseteq Tables /\ "training_runs" \in ts /\ "base" \notin lacking
      BY <2>1, SchemaConstants DEF SchemaConstants, Tables, ModelColumns
    <2>3. \A t \in Tables : "base" \in ModelColumns[t]
      BY DEF Tables, ModelColumns
    <2>4. /\ columns = [t \in DOMAIN columns |-> columns[t]] /\ DOMAIN columns = ts
          /\ \A t \in ts : "base" \in columns[t]
      BY <2>1, <2>2, <2>3
    <2> QED BY <1>1, <1>2, <1>4, <2>2, <2>4
        DEF SchemaInv, SchemaTyped, NobodyStands, LegacyStands, ManagedStands
  <1>5. CASE /\ madeBy = "migrations" /\ version \in 1 .. HeadRevision - 1
             /\ columns \in ManagedDatabases(version)
    <2>1. version \in 1 .. 5 /\ version \in 0 .. 5 /\ version \in 0 .. 6
      BY <1>5 DEF HeadRevision
    <2>2. columns = [t \in DOMAIN columns |-> columns[t]] /\ DOMAIN columns \subseteq Tables
      BY <1>5, <2>1, ManagedHas
    <2> QED BY <1>1, <1>2, <1>5, <2>1, <2>2
        DEF SchemaInv, SchemaTyped, NobodyStands, LegacyStands, ManagedStands
  <1> QED BY <1>3, <1>4, <1>5 DEF SchemaInit

\* Whatever step of whichever start.
LEMMA SchemaInvStep ==
    ASSUME SchemaInv, [SchemaNext]_schemaVars
    PROVE  SchemaInv'
  <1>1. ASSUME NEW p \in Apis, UpgradeFails(p) \/ CreateFails(p) \/ Fall(p) PROVE SchemaInv'
    <2>1. /\ boot' = [boot EXCEPT ![p] = "down"] /\ UNCHANGED <<columns, version, madeBy>>
          /\ missing' = missing \/ missing' = [missing EXCEPT ![p] = {}]
      BY <1>1 DEF UpgradeFails, CreateFails, Fall, At
    <2> QED BY <2>1, DownKeeps
  <1>2. ASSUME NEW p \in Apis, Boot(p) PROVE SchemaInv'
    BY <1>1, <1>2, InspectKeeps, UpgradeKeeps, RepairKeeps, StampKeeps, LookKeeps, TablesKeep
       DEF Boot
  <1>3. CASE UNCHANGED schemaVars
    <2>1. UNCHANGED <<columns, version, boot, missing, madeBy>>
      BY <1>3 DEF schemaVars
    <2> QED BY <2>1 DEF SchemaInv, SchemaTyped, StartsStand, NobodyStands, LegacyStands,
                        ManagedStands, Lacks
  <1> QED BY <1>1, <1>2, <1>3 DEF SchemaNext

\* However many processes start, crash and collide, and whatever database they found:
\* one that serves has every table and the columns its classes name, but for the two
\* groups no migration adds, and a version below the head names the database's schema.
THEOREM SchemaAlwaysServed == SchemaSpec => []SchemaServed
  <1>1. SchemaInit => SchemaInv
    BY SchemaInvInit
  <1>2. SchemaInv /\ [SchemaNext]_schemaVars => SchemaInv'
    BY SchemaInvStep
  <1>3. SchemaInv => SchemaServed
    <2>1. ASSUME SchemaInv PROVE VersionIsTrue
      BY <2>1 DEF SchemaInv, ManagedStands, VersionIsTrue, HeadRevision
    <2>2. ASSUME SchemaInv, NEW p \in Apis, boot[p] = "serving"
          PROVE  /\ DOMAIN columns = Tables
                 /\ \A t \in Tables : Lacks(t) # {} =>
                      madeBy = "migrations" /\ Lacks(t) \subseteq {"task", "determinism"}
      <3>1. DOMAIN columns = Tables /\ version = 6 /\ madeBy \in {"create_all", "migrations"}
        BY <2>2 DEF SchemaInv, SchemaTyped, StartsStand, NobodyStands
      <3> QED BY <2>2, <3>1 DEF SchemaInv, LegacyStands, ManagedStands, Unmigrated
    <2> QED BY <2>1, <2>2 DEF SchemaServed, ServesItsModels
  <1> QED BY <1>1, <1>2, <1>3, PTL DEF SchemaSpec

-----------------------------------------------------------------------------
(* The topology graph. *)

\* What goes from one number to the next holds up to a bound.
LEMMA NumbersTo ==
    ASSUME NEW n \in Nat, NEW T, 0 \in T, \A k \in 1 .. n : k - 1 \in T => k \in T
    PROVE  \A k \in 0 .. n : k \in T
  <1>1. PICK U : U = {k \in 0 .. n : k \notin T}
    OBVIOUS
  <1>2. SUFFICES ASSUME U # {} PROVE FALSE
    BY <1>1
  <1>3. U \in SUBSET Nat
    BY <1>1
  <1>4. PICK k \in U : \A m \in U : k <= m
    BY <1>2, <1>3, LeastOfSet
  <1>5. k \in 0 .. n /\ k \notin T /\ k # 0
    BY <1>1, <1>4
  <1>6. k \in 1 .. n /\ k - 1 \in 0 .. n /\ ~(k <= k - 1)
    BY <1>5
  <1>7. k - 1 \in T
    BY <1>1, <1>4, <1>6
  <1> QED BY <1>5, <1>6, <1>7

\* A loop: where it begins, and each turn from the one before.
Turning(g, n, a, F) == g[0] = a /\ \A k \in 1 .. n : g[k] = F[g[k - 1]]

\* A loop of n turns can be run.
LEMMA LoopExists ==
    ASSUME NEW n \in Nat, NEW S, NEW a \in S, NEW F \in [S -> S]
    PROVE  \E g \in [0 .. n -> S] : Turning(g, n, a, F)
  <1> DEFINE T == {m \in 0 .. n : \E g \in [0 .. m -> S] : Turning(g, m, a, F)}
  <1>1. 0 \in T
    <2>1. PICK g : g = [k \in 0 .. 0 |-> a]
      OBVIOUS
    <2>2. g \in [0 .. 0 -> S] /\ Turning(g, 0, a, F)
      BY <2>1 DEF Turning
    <2> QED BY <2>2
  <1>2. ASSUME NEW m \in 1 .. n, m - 1 \in T PROVE m \in T
    <2>1. PICK g \in [0 .. (m - 1) -> S] : Turning(g, m - 1, a, F)
      BY <1>2
    <2>2. PICK h : h = [k \in 0 .. m |-> IF k = m THEN F[g[m - 1]] ELSE g[k]]
      OBVIOUS
    <2>3. h \in [0 .. m -> S]
      <3>1. g[m - 1] \in S
        OBVIOUS
      <3>2. ASSUME NEW k \in 0 .. m, k # m PROVE g[k] \in S
        BY <3>2
      <3> QED BY <2>2, <3>1, <3>2
    <2>4. h[0] = a
      BY <2>1, <2>2 DEF Turning
    <2>5. ASSUME NEW k \in 1 .. m PROVE h[k] = F[h[k - 1]]
      <3>1. k - 1 \in 0 .. m /\ k - 1 # m /\ k \in 0 .. m
        OBVIOUS
      <3>2. h[k - 1] = g[k - 1]
        BY <2>2, <3>1
      <3>3. CASE k = m
        BY <2>2, <3>1, <3>2, <3>3
      <3>4. CASE k # m
        <4>1. k \in 1 .. (m - 1)
          BY <3>4
        <4>2. g[k] = F[g[k - 1]]
          BY <2>1, <4>1 DEF Turning
        <4> QED BY <2>2, <3>1, <3>2, <3>4, <4>2
      <3> QED BY <3>3, <3>4
    <2>6. Turning(h, m, a, F)
      BY <2>4, <2>5 DEF Turning
    <2> QED BY <2>3, <2>6
  <1>3. n \in T
    <2> HIDE DEF T
    <2> QED BY <1>1, <1>2, NumbersTo
  <1> QED BY <1>3

\* A set of numbers as a sequence.
LEMMA Sequenced ==
    ASSUME NEW S, IsFiniteSet(S)
    PROVE  /\ SetToSeq(S) \in [1 .. Cardinality(S) -> S]
           /\ \A x \in S : \E i \in 1 .. Cardinality(S) : SetToSeq(S)[i] = x
  <1>1. PICK f \in Bijection(1 .. Cardinality(S), S) : TRUE
    BY FS_CardinalityType, Zenon DEF ExistsBijection
  <1>2. f \in [1 .. Cardinality(S) -> S] /\ IsInjective(f)
    BY <1>1 DEF Bijection, Injection, IsInjective
  <1>3. PICK g : g = SetToSeq(S)
    OBVIOUS
  <1>4. g \in [1 .. Cardinality(S) -> S] /\ IsInjective(g)
    BY <1>2, <1>3, Zenon DEF SetToSeq
  <1>5. g \in Injection(1 .. Cardinality(S), S)
    BY <1>4 DEF Injection, IsInjective
  <1>6. Cardinality(S) \in Nat /\ Cardinality(1 .. Cardinality(S)) = Cardinality(S)
    <2>1. Cardinality(S) \in Nat
      BY FS_CardinalityType
    <2> QED BY <2>1, FS_Interval
  <1>7. g \in Surjection(1 .. Cardinality(S), S)
    BY <1>5, <1>6, FS_Injection
  <1> QED BY <1>3, <1>4, <1>6, <1>7 DEF Surjection

\* Two sequences one after the other.
LEMMA Joined ==
    ASSUME NEW V, NEW p \in Seq(V), NEW r \in Seq(V)
    PROVE  /\ p \o r \in Seq(V) /\ Len(p \o r) = Len(p) + Len(r)
           /\ \A i \in 1 .. Len(p \o r) : (p \o r)[i] = IF i <= Len(p) THEN p[i] ELSE r[i - Len(p)]
  OBVIOUS

\* The queue after a turn: what was behind its head, and then the new nodes.
Queued(t, c, q, new) ==
    /\ t = Tail(q) \o SetToSeq(new) /\ c = Cardinality(new)
    /\ Len(t) = Len(q) - 1 + c
    /\ \A i \in 1 .. Len(t) : IF i < Len(q) THEN t[i] = q[i + 1] ELSE t[i] \in new
    /\ \A x \in new : \E i \in 1 .. Len(t) : t[i] = x
    /\ \A i \in 2 .. Len(q) : \E j \in 1 .. Len(t) : t[j] = q[i]

\* A turn makes one.
LEMMA Requeued ==
    ASSUME NEW V, NEW q \in Seq(V), q # <<>>, NEW new \in SUBSET V, IsFiniteSet(new)
    PROVE  \E t \in Seq(V), c \in Nat : Queued(t, c, q, new)
  <1>1. PICK c, r : c = Cardinality(new) /\ r = SetToSeq(new)
    OBVIOUS
  <1>2. c \in Nat /\ r \in [1 .. c -> new] /\ \A x \in new : \E i \in 1 .. c : r[i] = x
    BY <1>1, Sequenced, FS_CardinalityType
  <1>3. r \in Seq(V) /\ Len(r) = c
    BY <1>2
  <1>4. PICK p : p = Tail(q)
    OBVIOUS
  <1>5. p \in Seq(V) /\ Len(p) = Len(q) - 1 /\ \A i \in 1 .. (Len(q) - 1) : p[i] = q[i + 1]
    BY <1>4
  <1>6. PICK t \in Seq(V) :
          /\ t = p \o r /\ Len(t) = Len(p) + Len(r)
          /\ \A i \in 1 .. Len(t) : t[i] = IF i <= Len(p) THEN p[i] ELSE r[i - Len(p)]
    <2>1. /\ p \o r \in Seq(V) /\ Len(p \o r) = Len(p) + Len(r)
          /\ \A i \in 1 .. Len(p \o r) : (p \o r)[i] = IF i <= Len(p) THEN p[i] ELSE r[i - Len(p)]
      <3>1. p \in Seq(V) /\ r \in Seq(V)
        BY <1>3, <1>5
      <3> QED BY <3>1, Joined
    <2> QED BY <2>1, Zenon
  <1>7. Len(t) = Len(q) - 1 + c
    BY <1>2, <1>3, <1>5, <1>6
  <1>8. Len(q) \in Nat /\ Len(q) >= 1
    OBVIOUS
  <1>9. ASSUME NEW i \in 1 .. Len(t) PROVE IF i < Len(q) THEN t[i] = q[i + 1] ELSE t[i] \in new
    <2>1. CASE i < Len(q)
      <3>1. i \in 1 .. (Len(q) - 1) /\ i <= Len(p)
        BY <1>5, <1>6, <1>7, <1>8, <2>1
      <3> QED BY <1>5, <1>6, <1>7, <2>1, <3>1
    <2>2. CASE ~(i < Len(q))
      <3>1. i - Len(p) \in 1 .. c /\ ~(i <= Len(p))
        BY <1>2, <1>5, <1>6, <1>7, <1>8, <2>2
      <3>2. r[i - Len(p)] \in new
        BY <1>2, <3>1
      <3> QED BY <1>6, <1>7, <2>2, <3>1, <3>2
    <2> QED BY <2>1, <2>2
  <1>10. ASSUME NEW x \in new PROVE \E i \in 1 .. Len(t) : t[i] = x
    <2>1. PICK i \in 1 .. c : r[i] = x
      BY <1>2
    <2>2. Len(p) + i \in 1 .. Len(t) /\ ~(Len(p) + i <= Len(p)) /\ (Len(p) + i) - Len(p) = i
      BY <1>2, <1>5, <1>6, <1>7, <1>8
    <2> QED BY <1>6, <1>7, <2>1, <2>2
  <1>11. ASSUME NEW i \in 2 .. Len(q) PROVE \E j \in 1 .. Len(t) : t[j] = q[i]
    <2>1. i - 1 \in 1 .. (Len(q) - 1) /\ i - 1 \in 1 .. Len(t) /\ i - 1 <= Len(p) /\ (i - 1) + 1 = i
      BY <1>2, <1>5, <1>6, <1>7, <1>8
    <2> QED BY <1>5, <1>6, <1>7, <2>1
  <1>12. t = Tail(q) \o SetToSeq(new)
    BY <1>1, <1>4, <1>6
  <1>13. Queued(t, c, q, new)
    BY <1>1, <1>7, <1>9, <1>10, <1>11, <1>12 DEF Queued
  <1> QED BY <1>2, <1>13

-----------------------------------------------------------------------------
(* The search. *)

Searches(V) == [queue : Seq(V), dist : UNION {[D -> Nat] : D \in SUBSET V}]

\* What every turn of the search keeps: the queue holds visited nodes in the order of their
\* distances and none is more than one behind its head; what has left the queue has given all
\* its neighbours; and every node but the first was given by one that is a step nearer.
Exploring(s, n, es, depth) ==
    LET q == s.queue
        d == s.dist
    IN  /\ n \in DOMAIN d
        /\ \A i \in DOMAIN q : q[i] \in DOMAIN d
        /\ \A i, j \in DOMAIN q : i < j => d[q[i]] <= d[q[j]]
        /\ q # <<>> => \A x \in DOMAIN d : d[x] <= d[q[1]] + 1
        /\ \A x \in DOMAIN d : d[x] <= depth
        /\ \A x \in DOMAIN d : \A y \in Neighbours(x, es) :
              (d[x] < depth /\ \A i \in DOMAIN q : q[i] # x) => y \in DOMAIN d /\ d[y] <= d[x] + 1
        /\ \A x \in DOMAIN d :
              IF x = n THEN d[x] = 0
              ELSE \E y \in DOMAIN d : x \in Neighbours(y, es) /\ d[x] = d[y] + 1

\* Neighbours of a node are ends of edges, and a finite graph has finitely many.
LEMMA FewNodes ==
    ASSUME NEW es, IsFiniteSet(es), NEW n
    PROVE  /\ IsFiniteSet({n} \cup Ends(es))
           /\ \A x : Neighbours(x, es) \subseteq {n} \cup Ends(es)
           /\ \A x, y : x \in Neighbours(y, es) => y \in {n} \cup Ends(es)
  <1>1. PICK f : f = [e \in es |-> {e[1], e[2]}]
    OBVIOUS
  <1>2. PICK T : T = {{e[1], e[2]} : e \in es}
    OBVIOUS
  <1>3. f \in Surjection(es, T)
    BY <1>1, <1>2 DEF Surjection
  <1>4. IsFiniteSet(T)
    BY <1>3, FS_Surjection
  <1>5. ASSUME NEW e \in es PROVE IsFiniteSet({e[1], e[2]})
    <2>1. IsFiniteSet({e[1]}) /\ IsFiniteSet({e[2]})
      BY FS_Singleton
    <2>2. {e[1], e[2]} = {e[1]} \cup {e[2]}
      OBVIOUS
    <2> QED BY <2>1, <2>2, FS_Union
  <1>6. IsFiniteSet(UNION T)
    BY <1>2, <1>4, <1>5, FS_UNION
  <1>7. IsFiniteSet({n})
    BY FS_Singleton
  <1>8. IsFiniteSet({n} \cup Ends(es))
    BY <1>2, <1>6, <1>7, FS_Union DEF Ends
  <1>9. \A x, y : x \in Neighbours(y, es) => y \in Ends(es) /\ x \in Ends(es)
    <2>1. ASSUME NEW x, NEW y, x \in Neighbours(y, es) PROVE y \in Ends(es)
      <3>1. <<y, x>> \in es \/ <<x, y>> \in es
        BY <2>1 DEF Neighbours
      <3>2. CASE <<y, x>> \in es
        <4>1. y \in {<<y, x>>[1], <<y, x>>[2]}
          OBVIOUS
        <4> QED BY <3>2, <4>1, Zenon DEF Ends
      <3>3. CASE <<x, y>> \in es
        <4>1. y \in {<<x, y>>[1], <<x, y>>[2]}
          OBVIOUS
        <4> QED BY <3>3, <4>1, Zenon DEF Ends
      <3> QED BY <3>1, <3>2, <3>3
    <2>2. \A x, y : x \in Neighbours(y, es) => x \in Ends(es)
      BY DEF Neighbours
    <2> QED BY <2>1, <2>2
  <1> QED BY <1>8, <1>9

\* Of what was visited, one node less is in the queue.
OneTaken(s, t) ==
    Len(t.queue) - Cardinality(DOMAIN t.dist) = Len(s.queue) - 1 - Cardinality(DOMAIN s.dist)

\* A turn of the search takes one node from the queue, and queues those it finds.
LEMMA VisitKeeps ==
    ASSUME NEW es, NEW n, NEW V, IsFiniteSet(V), n \in V, NEW depth \in Nat,
           \A x : Neighbours(x, es) \subseteq V,
           NEW s \in Searches(V), s.queue # <<>>, Exploring(s, n, es, depth)
    PROVE  /\ Visit(s, es, depth) \in Searches(V)
           /\ Exploring(Visit(s, es, depth), n, es, depth)
           /\ Cardinality(DOMAIN s.dist) \in Nat
           /\ Len(s.queue) \in Nat
           /\ OneTaken(s, Visit(s, es, depth))
  <1>1. PICK q, d, D : q = s.queue /\ d = s.dist /\ D = DOMAIN d
    OBVIOUS
  <1>2. q \in Seq(V) /\ D \in SUBSET V /\ d \in [D -> Nat]
    BY <1>1 DEF Searches
  <1>3. /\ n \in D
        /\ \A i \in 1 .. Len(q) : q[i] \in D
        /\ \A i, j \in 1 .. Len(q) : i < j => d[q[i]] <= d[q[j]]
        /\ \A x \in D : d[x] <= d[q[1]] + 1
        /\ \A x \in D : d[x] <= depth
        /\ \A x \in D : \A y \in Neighbours(x, es) :
              (d[x] < depth /\ \A i \in 1 .. Len(q) : q[i] # x) => y \in D /\ d[y] <= d[x] + 1
        /\ \A x \in D : IF x = n THEN d[x] = 0
                        ELSE \E y \in D : x \in Neighbours(y, es) /\ d[x] = d[y] + 1
    <2>1. DOMAIN q = 1 .. Len(q) /\ q # <<>>
      BY <1>1, <1>2
    <2> QED BY <1>1, <2>1, Zenon DEF Exploring
  <1>4. Len(q) \in Nat /\ Len(q) >= 1 /\ 1 \in 1 .. Len(q) /\ Head(q) = q[1]
    BY <1>1, <1>2
  <1>5. PICK here, h : here = q[1] /\ h = d[q[1]]
    OBVIOUS
  <1>6. here \in D /\ h \in Nat /\ h = d[here]
    BY <1>2, <1>3, <1>4, <1>5
  <1>7. PICK new : new = NewFrontier(here, d, es, depth)
    OBVIOUS
  <1>8. /\ new \in SUBSET V /\ new \cap D = {}
        /\ \A y \in new : y \in Neighbours(here, es) /\ h < depth
        /\ h < depth => Neighbours(here, es) \subseteq D \cup new
    <2>1. new = IF h >= depth THEN {} ELSE Neighbours(here, es) \ D
      BY <1>1, <1>6, <1>7 DEF NewFrontier
    <2> QED BY <1>6, <2>1
  <1>9. IsFiniteSet(new) /\ IsFiniteSet(D)
    BY <1>2, <1>8, FS_Subset
  <1>10. PICK t \in Seq(V), c \in Nat : Queued(t, c, q, new)
    <2>1. q # <<>> /\ q \in Seq(V) /\ new \in SUBSET V /\ IsFiniteSet(new)
      BY <1>1, <1>2, <1>8, <1>9
    <2> QED BY <2>1, Requeued
  <1>11. /\ t = Tail(q) \o SetToSeq(new) /\ c = Cardinality(new)
         /\ Len(t) = Len(q) - 1 + c
         /\ \A i \in 1 .. Len(t) : IF i < Len(q) THEN t[i] = q[i + 1] ELSE t[i] \in new
         /\ \A x \in new : \E i \in 1 .. Len(t) : t[i] = x
         /\ \A i \in 2 .. Len(q) : \E j \in 1 .. Len(t) : t[j] = q[i]
    BY <1>10 DEF Queued
  <1>12. PICK e : e = [x \in D \cup new |-> IF x \in new THEN h + 1 ELSE d[x]]
    OBVIOUS
  <1>13. Visit(s, es, depth) = [queue |-> t, dist |-> e]
    BY <1>1, <1>4, <1>5, <1>7, <1>11, <1>12 DEF Visit
  <1>14. e \in [D \cup new -> Nat] /\ D \cup new \in SUBSET V
    BY <1>2, <1>6, <1>8, <1>12
  <1>15. Visit(s, es, depth) \in Searches(V)
    <2>1. e \in UNION {[X -> Nat] : X \in SUBSET V}
      BY <1>14, Zenon
    <2> QED BY <1>13, <2>1 DEF Searches
  <1>16. /\ \A x \in D : e[x] = d[x] /\ x \in D \cup new
         /\ \A x \in new : e[x] = h + 1
    BY <1>8, <1>12
  <1>17. ASSUME NEW i \in 1 .. Len(t)
         PROVE  \/ i < Len(q) /\ i + 1 \in 1 .. Len(q) /\ t[i] = q[i + 1] /\ t[i] \in D
                     /\ e[t[i]] = d[q[i + 1]] /\ h <= d[q[i + 1]]
                \/ ~(i < Len(q)) /\ t[i] \in new /\ e[t[i]] = h + 1
    <2>1. CASE i < Len(q)
      <3>1. i + 1 \in 1 .. Len(q) /\ 1 < i + 1
        BY <1>4, <2>1
      <3>2. t[i] = q[i + 1] /\ q[i + 1] \in D
        BY <1>3, <1>11, <2>1, <3>1
      <3>3. h <= d[q[i + 1]]
        BY <1>3, <1>4, <1>5, <3>1
      <3> QED BY <1>16, <2>1, <3>1, <3>2, <3>3
    <2>2. CASE ~(i < Len(q))
      BY <1>11, <1>16, <2>2
    <2> QED BY <2>1, <2>2
  <1>18. ASSUME NEW x \in D \cup new PROVE e[x] \in Nat /\ e[x] <= h + 1 /\ e[x] <= depth
    <2>1. CASE x \in new
      BY <1>6, <1>8, <1>16, <2>1
    <2>2. CASE x \in D
      BY <1>2, <1>3, <1>5, <1>16, <2>2
    <2> QED BY <2>1, <2>2
  <1>19. ASSUME NEW i \in 1 .. Len(t), NEW j \in 1 .. Len(t), i < j PROVE e[t[i]] <= e[t[j]]
    <2>1. CASE j < Len(q)
      <3>1. i < Len(q) /\ i + 1 \in 1 .. Len(q) /\ j + 1 \in 1 .. Len(q) /\ i + 1 < j + 1
        BY <1>4, <1>19, <2>1
      <3>2. d[q[i + 1]] <= d[q[j + 1]]
        BY <1>3, <3>1
      <3> QED BY <1>17, <2>1, <3>1, <3>2
    <2>2. CASE ~(j < Len(q))
      <3>1. e[t[j]] = h + 1 /\ t[i] \in D \cup new
        BY <1>17, <2>2
      <3> QED BY <1>18, <3>1
    <2> QED BY <2>1, <2>2
  <1>20. ASSUME t # <<>>, NEW x \in D \cup new PROVE e[x] <= e[t[1]] + 1
    <2>1. 1 \in 1 .. Len(t)
      BY <1>20
    <2>2. h <= e[t[1]] /\ t[1] \in D \cup new
      BY <1>6, <1>17, <2>1
    <2> QED BY <1>6, <1>18, <2>2
  <1>21. ASSUME NEW x \in D \cup new, NEW y \in Neighbours(x, es), e[x] < depth,
                \A i \in 1 .. Len(t) : t[i] # x
         PROVE  y \in D \cup new /\ e[y] <= e[x] + 1
    <2>1. x \notin new /\ x \in D /\ e[x] = d[x]
      BY <1>11, <1>16, <1>21
    <2>2. CASE x = here
      <3>1. y \in D \cup new
        BY <1>6, <1>8, <1>21, <2>1, <2>2
      <3> QED BY <1>6, <1>18, <2>1, <2>2, <3>1
    <2>3. CASE x # here
      <3>1. ASSUME NEW i \in 1 .. Len(q) PROVE q[i] # x
        <4>1. CASE i = 1
          BY <1>5, <2>3, <4>1
        <4>2. CASE i # 1
          <5>1. i \in 2 .. Len(q)
            BY <4>2
          <5>2. PICK j \in 1 .. Len(t) : t[j] = q[i]
            BY <1>11, <5>1
          <5> QED BY <1>21, <5>2
        <4> QED BY <4>1, <4>2
      <3>2. y \in D /\ d[y] <= d[x] + 1
        BY <1>3, <1>21, <2>1, <3>1
      <3> QED BY <1>16, <2>1, <3>2
    <2> QED BY <2>2, <2>3
  <1>22. ASSUME NEW x \in D \cup new
         PROVE  IF x = n THEN e[x] = 0
                ELSE \E y \in D \cup new : x \in Neighbours(y, es) /\ e[x] = e[y] + 1
    <2>1. CASE x \in D
      BY <1>3, <1>16, <2>1
    <2>2. CASE x \in new
      <3>1. x # n /\ e[x] = e[here] + 1 /\ here \in D \cup new /\ x \in Neighbours(here, es)
        BY <1>3, <1>6, <1>8, <1>16, <2>2
      <3> QED BY <3>1
    <2> QED BY <2>1, <2>2
  <1>23. Exploring(Visit(s, es, depth), n, es, depth)
    <2>1. PICK w : w = Visit(s, es, depth)
      OBVIOUS
    <2>2. w.queue = t /\ w.dist = e /\ DOMAIN e = D \cup new /\ DOMAIN t = 1 .. Len(t)
      BY <1>11, <1>13, <1>14, <2>1
    <2>3. n \in D \cup new /\ \A i \in 1 .. Len(t) : t[i] \in D \cup new
      BY <1>3, <1>17
    <2>4. \A x \in D \cup new : e[x] <= depth
      BY <1>18
    <2>5. Exploring(w, n, es, depth)
      BY <2>2, <2>3, <1>19, <1>20, <1>21, <1>22, <2>4, Zenon DEF Exploring
    <2> QED BY <2>1, <2>5
  <1>24. Cardinality(D) \in Nat /\ Cardinality(D \cup new) = Cardinality(D) + c
    <2>1. Cardinality(D \cap new) = 0
      <3>1. D \cap new = {}
        BY <1>8
      <3> QED BY <3>1, FS_EmptySet
    <2>2. Cardinality(D \cup new) = Cardinality(D) + Cardinality(new) - Cardinality(D \cap new)
      BY <1>9, FS_Union
    <2>3. Cardinality(D) \in Nat /\ Cardinality(new) = c
      BY <1>9, <1>11, FS_CardinalityType
    <2> QED BY <2>1, <2>2, <2>3
  <1>25. DOMAIN e = D \cup new
    BY <1>14
  <1>26. Len(t) - Cardinality(DOMAIN e) = Len(q) - 1 - Cardinality(D)
    BY <1>4, <1>11, <1>24, <1>25
  <1>27. OneTaken(s, Visit(s, es, depth))
    BY <1>1, <1>13, <1>26 DEF OneTaken
  <1> QED BY <1>1, <1>4, <1>15, <1>23, <1>24, <1>27

\* A search begins with its node.
LEMMA SearchBegins ==
    ASSUME NEW es, NEW n, NEW V, n \in V, NEW depth \in Nat,
           NEW a, a = [queue |-> <<n>>, dist |-> [x \in {n} |-> 0]]
    PROVE  a \in Searches(V) /\ Exploring(a, n, es, depth)
  <1>1. PICK q, d : q = <<n>> /\ d = [x \in {n} |-> 0]
    OBVIOUS
  <1>2. q \in Seq(V) /\ DOMAIN q = {1} /\ q[1] = n
    BY <1>1
  <1>3. d \in [{n} -> Nat] /\ {n} \in SUBSET V /\ DOMAIN d = {n} /\ d[n] = 0
    BY <1>1
  <1>4. d \in UNION {[D -> Nat] : D \in SUBSET V}
    BY <1>3, Zenon
  <1>5. a.queue = q /\ a.dist = d /\ a = [queue |-> q, dist |-> d]
    BY <1>1
  <1>6. a \in Searches(V)
    BY <1>2, <1>4, <1>5 DEF Searches
  <1>7. \A i, j \in DOMAIN q : ~(i < j)
    BY <1>2
  <1>8. d[n] <= d[n] + 1 /\ d[n] <= depth
    BY <1>3
  <1>9. Exploring(a, n, es, depth)
    BY <1>2, <1>3, <1>5, <1>7, <1>8, Zenon DEF Exploring
  <1> QED BY <1>6, <1>9

\* The search begins at its node and makes one turn after the other.
LEMMA SearchTurns ==
    ASSUME NEW es, NEW n, NEW depth \in Nat, NEW V, IsFiniteSet(V), n \in V, V = {n} \cup Ends(es),
           \A x : Neighbours(x, es) \subseteq V
    PROVE  LET after == Search(n, es, depth) IN
           /\ after[0] = [queue |-> <<n>>, dist |-> [x \in {n} |-> 0]]
           /\ \A k \in 1 .. Cardinality(V) : after[k] = Visit(after[k - 1], es, depth)
  <1> DEFINE S == {s \in Searches(V) : Exploring(s, n, es, depth)}
             Turns(g) == g = [k \in 0 .. Cardinality(V) |->
                                IF k = 0 THEN [queue |-> <<n>>, dist |-> [x \in {n} |-> 0]]
                                ELSE Visit(g[k - 1], es, depth)]
  <1>1. PICK a : a = [queue |-> <<n>>, dist |-> [x \in {n} |-> 0]]
    OBVIOUS
  <1>2. a \in S
    BY <1>1, SearchBegins
  <1>3. \A s \in S : Visit(s, es, depth) \in S
    <2>1. ASSUME NEW s \in S PROVE Visit(s, es, depth) \in S
      <3>1. CASE s.queue = <<>>
        BY <3>1 DEF Visit
      <3>2. CASE s.queue # <<>>
        BY <3>2, VisitKeeps
      <3> QED BY <3>1, <3>2
    <2> QED BY <2>1
  <1>4. PICK F : F = [s \in S |-> Visit(s, es, depth)]
    OBVIOUS
  <1>5. F \in [S -> S] /\ \A s \in S : F[s] = Visit(s, es, depth)
    <2> HIDE DEF S
    <2> QED BY <1>3, <1>4
  <1>6. Cardinality(V) \in Nat
    BY FS_CardinalityType
  <1>7. \E g : Turns(g)
    <2>1. PICK g \in [0 .. Cardinality(V) -> S] : Turning(g, Cardinality(V), a, F)
      <3> HIDE DEF S
      <3> QED BY <1>2, <1>5, <1>6, LoopExists
    <2>2. ASSUME NEW k \in 0 .. Cardinality(V)
          PROVE  g[k] = IF k = 0 THEN a ELSE Visit(g[k - 1], es, depth)
      <3>1. CASE k = 0
        BY <2>1, <3>1 DEF Turning
      <3>2. CASE k # 0
        <4>1. k \in 1 .. Cardinality(V) /\ k - 1 \in 0 .. Cardinality(V)
          BY <1>6, <3>2
        <4>2. g[k] = F[g[k - 1]] /\ g[k - 1] \in S
          BY <2>1, <4>1 DEF Turning
        <4> HIDE DEF S
        <4> QED BY <1>5, <3>2, <4>2
      <3> QED BY <3>1, <3>2
    <2> HIDE DEF S
    <2>3. Turns(g)
      BY <1>1, <2>1, <2>2
    <2> QED BY <2>3
  <1>8. PICK h : h = CHOOSE g : Turns(g)
    OBVIOUS
  <1>9. Turns(h)
    <2> HIDE DEF Turns
    <2> QED BY <1>7, <1>8
  <1>10. Search(n, es, depth) = h
    BY <1>8 DEF Search
  <1>11. h[0] = a
    BY <1>1, <1>6, <1>9
  <1>12. ASSUME NEW k \in 1 .. Cardinality(V) PROVE h[k] = Visit(h[k - 1], es, depth)
    <2>1. k \in 0 .. Cardinality(V) /\ k # 0
      BY <1>6
    <2> QED BY <1>9, <2>1
  <1> QED BY <1>1, <1>10, <1>11, <1>12, Zenon

\* The nodes within k steps are those within one step less and their neighbours.
LEMMA ReachedTurns ==
    ASSUME NEW es, NEW n, NEW depth \in Nat
    PROVE  LET near == Reached(n, es, depth) IN
           /\ near[0] = {n}
           /\ \A k \in 1 .. depth : near[k] = near[k - 1] \cup UNION {Neighbours(x, es) : x \in near[k - 1]}
  <1> DEFINE V == {n} \cup Ends(es)
             Nears(g) == g = [k \in 0 .. depth |->
                                IF k = 0 THEN {n}
                                ELSE g[k - 1] \cup UNION {Neighbours(x, es) : x \in g[k - 1]}]
  <1>1. PICK F : F = [s \in SUBSET V |-> s \cup UNION {Neighbours(x, es) : x \in s}]
    OBVIOUS
  <1>2. F \in [SUBSET V -> SUBSET V]
    <2>1. \A x : Neighbours(x, es) \subseteq V
      BY DEF Neighbours
    <2> HIDE DEF V
    <2>2. ASSUME NEW s \in SUBSET V PROVE s \cup UNION {Neighbours(x, es) : x \in s} \in SUBSET V
      BY <2>1
    <2> QED BY <1>1, <2>2
  <1>3. {n} \in SUBSET V
    OBVIOUS
  <1>4. PICK g \in [0 .. depth -> SUBSET V] : Turning(g, depth, {n}, F)
    <2> HIDE DEF V
    <2> QED BY <1>2, <1>3, LoopExists
  <1>5. ASSUME NEW k \in 0 .. depth
        PROVE  g[k] = IF k = 0 THEN {n} ELSE g[k - 1] \cup UNION {Neighbours(x, es) : x \in g[k - 1]}
    <2> HIDE DEF V
    <2>1. CASE k = 0
      BY <1>4, <2>1 DEF Turning
    <2>2. CASE k # 0
      <3>1. k \in 1 .. depth /\ k - 1 \in 0 .. depth
        BY <2>2
      <3>2. g[k] = F[g[k - 1]] /\ g[k - 1] \in SUBSET V
        BY <1>4, <3>1 DEF Turning
      <3> QED BY <1>1, <2>2, <3>2
    <2> QED BY <2>1, <2>2
  <1>6. Nears(g)
    <2> HIDE DEF V
    <2> QED BY <1>4, <1>5
  <1>7. PICK h : h = CHOOSE f : Nears(f)
    OBVIOUS
  <1>8. Nears(h)
    <2> HIDE DEF Nears
    <2> QED BY <1>6, <1>7
  <1>9. Reached(n, es, depth) = h
    BY <1>7 DEF Reached
  <1>10. h[0] = {n}
    BY <1>8
  <1>11. ASSUME NEW k \in 1 .. depth
         PROVE  h[k] = h[k - 1] \cup UNION {Neighbours(x, es) : x \in h[k - 1]}
    <2>1. k \in 0 .. depth /\ k # 0
      OBVIOUS
    <2> QED BY <1>8, <2>1
  <1> QED BY <1>9, <1>10, <1>11, Zenon

\* A search visits no more nodes than there are.
LEMMA SearchSizes ==
    ASSUME NEW V, IsFiniteSet(V), NEW s \in Searches(V)
    PROVE  /\ Len(s.queue) \in Nat /\ Cardinality(DOMAIN s.dist) \in Nat
           /\ Cardinality(DOMAIN s.dist) <= Cardinality(V)
           /\ Len(s.queue) = 0 => s.queue = <<>>
  <1>1. s.queue \in Seq(V) /\ DOMAIN s.dist \in SUBSET V
    BY DEF Searches
  <1>2. IsFiniteSet(DOMAIN s.dist) /\ Cardinality(DOMAIN s.dist) <= Cardinality(V)
    BY <1>1, FS_Subset
  <1> QED BY <1>1, <1>2, FS_CardinalityType

\* After k turns with a queue, what is visited has been queued and k of it taken.
Paired(s, k) == s.queue = <<>> \/ k + Len(s.queue) = Cardinality(DOMAIN s.dist)

\* The last turn leaves nothing queued: every turn takes a node that was queued once.
LEMMA SearchEnds ==
    ASSUME NEW es, NEW n, NEW depth \in Nat, IsFiniteSet(es)
    PROVE  LET V == {n} \cup Ends(es)
               s == Search(n, es, depth)[Cardinality(V)]
           IN  s \in Searches(V) /\ Exploring(s, n, es, depth) /\ s.queue = <<>>
  <1>1. PICK V : V = {n} \cup Ends(es)
    OBVIOUS
  <1>2. IsFiniteSet(V) /\ n \in V /\ \A x : Neighbours(x, es) \subseteq V
    BY <1>1, FewNodes
  <1>3. PICK c, after : c = Cardinality(V) /\ after = Search(n, es, depth)
    OBVIOUS
  <1>4. c \in Nat
    BY <1>2, <1>3, FS_CardinalityType
  <1>5. /\ after[0] = [queue |-> <<n>>, dist |-> [x \in {n} |-> 0]]
        /\ \A k \in 1 .. c : after[k] = Visit(after[k - 1], es, depth)
    <2>1. /\ Search(n, es, depth)[0] = [queue |-> <<n>>, dist |-> [x \in {n} |-> 0]]
          /\ \A k \in 1 .. Cardinality(V) :
                Search(n, es, depth)[k] = Visit(Search(n, es, depth)[k - 1], es, depth)
      BY <1>1, <1>2, SearchTurns
    <2> QED BY <1>3, <2>1
  <1> DEFINE T == {k \in 0 .. c : /\ after[k] \in Searches(V) /\ Exploring(after[k], n, es, depth)
                                  /\ Paired(after[k], k)}
  <1>6. 0 \in T
    <2>1. PICK a : a = after[0]
      OBVIOUS
    <2>2. a \in Searches(V) /\ Exploring(a, n, es, depth)
      BY <1>2, <1>5, <2>1, SearchBegins
    <2>3. a.queue = <<n>> /\ DOMAIN a.dist = {n}
      BY <1>5, <2>1
    <2>4. Len(a.queue) = 1 /\ Cardinality(DOMAIN a.dist) = 1
      BY <2>3, FS_Singleton
    <2>5. Paired(a, 0)
      BY <2>4 DEF Paired
    <2> QED BY <1>4, <2>1, <2>2, <2>5
  <1>7. ASSUME NEW k \in 1 .. c, k - 1 \in T PROVE k \in T
    <2>1. PICK s, t : s = after[k - 1] /\ t = after[k]
      OBVIOUS
    <2>2. t = Visit(s, es, depth) /\ s \in Searches(V) /\ Exploring(s, n, es, depth) /\ Paired(s, k - 1)
      BY <1>5, <1>7, <2>1
    <2>3. CASE s.queue = <<>>
      <3>1. t = s
        BY <2>2, <2>3 DEF Visit
      <3>2. Paired(t, k)
        BY <2>3, <3>1 DEF Paired
      <3>3. t \in Searches(V) /\ Exploring(t, n, es, depth)
        BY <2>2, <3>1
      <3> QED BY <2>1, <3>2, <3>3
    <2>4. CASE s.queue # <<>>
      <3>1. /\ t \in Searches(V) /\ Exploring(t, n, es, depth)
            /\ Cardinality(DOMAIN s.dist) \in Nat /\ Len(s.queue) \in Nat
            /\ OneTaken(s, t)
        <4>1. s \in Searches(V) /\ Exploring(s, n, es, depth)
          BY <2>2
        <4>2. /\ Visit(s, es, depth) \in Searches(V) /\ Exploring(Visit(s, es, depth), n, es, depth)
              /\ Cardinality(DOMAIN s.dist) \in Nat /\ Len(s.queue) \in Nat
              /\ OneTaken(s, Visit(s, es, depth))
          BY <1>2, <2>4, <4>1, VisitKeeps
        <4>3. t = Visit(s, es, depth)
          BY <2>2
        <4> QED BY <4>2, <4>3, Zenon
      <3>2. (k - 1) + Len(s.queue) = Cardinality(DOMAIN s.dist)
        BY <2>2, <2>4 DEF Paired
      <3>3. Len(t.queue) \in Nat /\ Cardinality(DOMAIN t.dist) \in Nat
        BY <1>2, <3>1, SearchSizes
      <3>4. k + Len(t.queue) = Cardinality(DOMAIN t.dist)
        <4>1. Len(t.queue) - Cardinality(DOMAIN t.dist) = Len(s.queue) - 1 - Cardinality(DOMAIN s.dist)
          BY <3>1 DEF OneTaken
        <4>2. PICK a, b, c1, d1 : /\ a = Len(s.queue) /\ b = Cardinality(DOMAIN s.dist)
                                  /\ c1 = Len(t.queue) /\ d1 = Cardinality(DOMAIN t.dist)
          OBVIOUS
        <4>3. a \in Nat /\ b \in Nat /\ c1 \in Nat /\ d1 \in Nat /\ k \in Int
          BY <2>1, <3>1, <3>3, <4>2
        <4>4. c1 - d1 = a - 1 - b /\ (k - 1) + a = b
          BY <3>2, <4>1, <4>2, Zenon
        <4>5. k + c1 = d1
          BY <4>3, <4>4
        <4> QED BY <4>2, <4>5
      <3>5. Paired(t, k)
        BY <3>4 DEF Paired
      <3> QED BY <1>4, <2>1, <3>1, <3>5
    <2> QED BY <2>3, <2>4
  <1>8. c \in T
    <2> HIDE DEF T
    <2> QED BY <1>4, <1>6, <1>7, NumbersTo
  <1>9. after[c].queue = <<>>
    <2>1. PICK s : s = after[c]
      OBVIOUS
    <2>2. s \in Searches(V) /\ Paired(s, c)
      BY <1>8, <2>1
    <2>3. /\ Len(s.queue) \in Nat /\ Cardinality(DOMAIN s.dist) \in Nat
          /\ Cardinality(DOMAIN s.dist) <= c /\ (Len(s.queue) = 0 => s.queue = <<>>)
      BY <1>2, <1>3, <2>2, SearchSizes
    <2> QED BY <1>4, <2>1, <2>2, <2>3 DEF Paired
  <1> QED BY <1>1, <1>3, <1>8, <1>9

\* Where nothing is queued any more the visited nodes are those within the depth, each with the
\* number of steps that it takes.
LEMMA SearchIsExact ==
    ASSUME NEW es, NEW n, NEW depth \in Nat, NEW V, NEW s \in Searches(V),
           Exploring(s, n, es, depth), s.queue = <<>>
    PROVE  LET near == Reached(n, es, depth) IN
           /\ DOMAIN s.dist = near[depth]
           /\ \A x \in DOMAIN s.dist, k \in 0 .. depth : s.dist[x] <= k <=> x \in near[k]
  <1>1. PICK d, D, near : d = s.dist /\ D = DOMAIN d /\ near = Reached(n, es, depth)
    OBVIOUS
  <1>2. d \in [D -> Nat]
    BY <1>1 DEF Searches
  <1>3. /\ n \in D /\ \A x \in D : d[x] <= depth
        /\ \A x \in D : \A y \in Neighbours(x, es) : d[x] < depth => y \in D /\ d[y] <= d[x] + 1
        /\ \A x \in D : IF x = n THEN d[x] = 0
                        ELSE \E y \in D : x \in Neighbours(y, es) /\ d[x] = d[y] + 1
    <2>1. DOMAIN s.queue = {}
      OBVIOUS
    <2> QED BY <1>1, <2>1, Zenon DEF Exploring
  <1>4. /\ near[0] = {n}
        /\ \A k \in 1 .. depth : near[k] = near[k - 1] \cup UNION {Neighbours(x, es) : x \in near[k - 1]}
    BY <1>1, ReachedTurns
  <1> DEFINE T == {k \in 0 .. depth : near[k] = {x \in D : d[x] <= k}}
  <1>5. 0 \in T
    <2>1. ASSUME NEW x \in D, d[x] <= 0 PROVE x = n
      <3>1. SUFFICES ASSUME x # n PROVE FALSE
        OBVIOUS
      <3>2. PICK y \in D : d[x] = d[y] + 1
        BY <1>3, <3>1
      <3> QED BY <1>2, <2>1, <3>2
    <2>2. n \in D /\ d[n] = 0
      BY <1>3
    <2> QED BY <1>4, <2>1, <2>2
  <1>6. ASSUME NEW k \in 1 .. depth, k - 1 \in T PROVE k \in T
    <2>1. near[k] = near[k - 1] \cup UNION {Neighbours(x, es) : x \in near[k - 1]}
      BY <1>4
    <2>2. near[k - 1] = {x \in D : d[x] <= k - 1}
      BY <1>6
    <2>3. ASSUME NEW x \in near[k] PROVE x \in D /\ d[x] <= k
      <3>1. CASE x \in near[k - 1]
        BY <1>2, <2>2, <3>1
      <3>2. CASE x \notin near[k - 1]
        <4>1. PICK y \in near[k - 1] : x \in Neighbours(y, es)
          BY <2>1, <2>3, <3>2
        <4>2. y \in D /\ d[y] <= k - 1 /\ d[y] \in Nat
          BY <1>2, <2>2, <4>1
        <4>3. x \in D /\ d[x] <= d[y] + 1
          BY <1>3, <4>1, <4>2
        <4> QED BY <1>2, <4>2, <4>3
      <3> QED BY <3>1, <3>2
    <2>4. ASSUME NEW x \in D, d[x] <= k PROVE x \in near[k]
      <3>1. CASE d[x] <= k - 1
        BY <2>1, <2>2, <3>1
      <3>2. CASE ~(d[x] <= k - 1)
        <4>1. x # n
          BY <1>3, <3>2
        <4>2. PICK y \in D : x \in Neighbours(y, es) /\ d[x] = d[y] + 1
          BY <1>3, <4>1
        <4>3. y \in near[k - 1]
          BY <1>2, <2>2, <2>4, <4>2
        <4> QED BY <2>1, <4>2, <4>3
      <3> QED BY <3>1, <3>2
    <2> QED BY <2>3, <2>4
  <1>7. \A k \in 0 .. depth : k \in T
    <2> HIDE DEF T
    <2> QED BY <1>5, <1>6, NumbersTo
  <1>8. D = near[depth]
    <2>1. near[depth] = {x \in D : d[x] <= depth}
      BY <1>7
    <2> QED BY <1>3, <2>1
  <1> QED BY <1>1, <1>7, <1>8

-----------------------------------------------------------------------------
(* Seeding the graph. *)

\* A run names a model config that is there, or none.
RunRows(ms) == Seq([strategy : GraphStrategies, model : ms \cup {NoModel}])

\* An edge begins at a node, and ends at one or at a model config.
Anchored(e, there, ms) == e[1] \in there /\ (e[2] \in there \/ \E m \in ms : e[2] = Model(m))

\* What a request is about to commit: its edges need no node but those stored and its own.
Prepared(mine) ==
    mine.at = "commit" =>
        IsFiniteSet(mine.links) /\ \A e \in mine.links : Anchored(e, nodes \cup mine.nodes, models)

\* The inductive invariant of the graph.
GraphInv ==
    /\ backtests \in RunRows(models) /\ IsFiniteSet(links)
    /\ seeding = [c \in Callers |-> seeding[c]]
    /\ \A c \in Callers :
          /\ seeding[c] = [at |-> seeding[c].at, models |-> seeding[c].models,
                           backtests |-> seeding[c].backtests, nodes |-> seeding[c].nodes,
                           links |-> seeding[c].links]
          /\ seeding[c].backtests \in RunRows(models)
          /\ Prepared(seeding[c])
    /\ LinksAnchored

\* The members of a sequence, and one more.
LEMMA Listing == ASSUME NEW S, NEW s \in Seq(S), NEW n \in 1 .. Len(s) PROVE s[n] \in S
  OBVIOUS

\* A member more.
LEMMA OneMore == ASSUME NEW S, NEW s \in Seq(S), NEW x \in S PROVE Append(s, x) \in Seq(S)
  OBVIOUS

\* The edges of a list of runs are finitely many, and each is between nodes of the list but for
\* model configs.
LEMMA RunsAnchored ==
    ASSUME NEW read, NEW ms, NEW bs \in RunRows(ms)
    PROVE  IsFiniteSet(LinksOf(bs)) /\ \A e \in LinksOf(bs) : Anchored(e, NodesOf(read, bs), ms)
  <1>1. Len(bs) \in Nat /\ DOMAIN bs = 1 .. Len(bs)
    BY DEF RunRows
  <1>2. IsFiniteSet(DOMAIN bs)
    BY <1>1, FS_Interval
  <1>3. ASSUME NEW n \in DOMAIN bs PROVE bs[n].model \in ms \cup {NoModel}
    <2>1. n \in 1 .. Len(bs)
      BY <1>1
    <2>2. bs \in Seq([strategy : GraphStrategies, model : ms \cup {NoModel}])
      BY DEF RunRows
    <2>3. bs[n] \in [strategy : GraphStrategies, model : ms \cup {NoModel}]
      BY <2>1, <2>2, Listing
    <2> QED BY <2>3
  <1>4. PICK f, g, N :
          /\ N = {n \in DOMAIN bs : bs[n].model # NoModel}
          /\ f = [n \in DOMAIN bs |-> <<RunNode(n), Strategy(bs[n].strategy)>>]
          /\ g = [n \in N |-> <<Strategy(bs[n].strategy), Model(bs[n].model)>>]
    OBVIOUS
  <1>5. IsFiniteSet(Executes(bs))
    <2>1. f \in Surjection(DOMAIN bs, Executes(bs))
      BY <1>4 DEF Surjection, Executes
    <2> QED BY <1>2, <2>1, FS_Surjection
  <1>6. IsFiniteSet(Uses(bs))
    <2>1. g \in Surjection(N, Uses(bs))
      BY <1>4 DEF Surjection, Uses
    <2>2. IsFiniteSet(N)
      BY <1>2, <1>4, FS_Subset
    <2> QED BY <2>1, <2>2, FS_Surjection
  <1>7. ASSUME NEW e \in Executes(bs) PROVE Anchored(e, NodesOf(read, bs), ms)
    <2>1. PICK n \in DOMAIN bs : e = <<RunNode(n), Strategy(bs[n].strategy)>>
      BY DEF Executes
    <2>2. RunNode(n) \in NodesOf(read, bs) /\ Strategy(bs[n].strategy) \in NodesOf(read, bs)
      BY DEF NodesOf
    <2>3. e[1] = RunNode(n) /\ e[2] = Strategy(bs[n].strategy)
      BY <2>1
    <2> QED BY <2>2, <2>3 DEF Anchored
  <1>8. ASSUME NEW e \in Uses(bs) PROVE Anchored(e, NodesOf(read, bs), ms)
    <2>1. PICK n \in DOMAIN bs : bs[n].model # NoModel /\ e = <<Strategy(bs[n].strategy), Model(bs[n].model)>>
      BY DEF Uses
    <2>2. Strategy(bs[n].strategy) \in NodesOf(read, bs) /\ bs[n].model \in ms
      BY <1>3, <2>1 DEF NodesOf
    <2>3. e[1] = Strategy(bs[n].strategy) /\ e[2] = Model(bs[n].model)
      BY <2>1
    <2> QED BY <2>2, <2>3 DEF Anchored
  <1>9. IsFiniteSet(LinksOf(bs))
    BY <1>5, <1>6, FS_Union DEF LinksOf
  <1> QED BY <1>7, <1>8, <1>9 DEF LinksOf

\* More model configs leave a run where it is.
LEMMA RunRowsGrow == ASSUME NEW ms, NEW more, ms \subseteq more PROVE RunRows(ms) \subseteq RunRows(more)
  <1>1. PICK S, T : /\ S = [strategy : GraphStrategies, model : ms \cup {NoModel}]
                    /\ T = [strategy : GraphStrategies, model : more \cup {NoModel}]
    OBVIOUS
  <1>2. S \subseteq T
    BY <1>1
  <1>3. \A s \in Seq(S) : s \in Seq(T)
    BY <1>2
  <1> QED BY <1>1, <1>3, Zenon DEF RunRows

-----------------------------------------------------------------------------
\* At the start there is nothing.
LEMMA GraphInvInit == GraphInit => GraphInv
  <1> SUFFICES ASSUME GraphInit PROVE GraphInv
    OBVIOUS
  <1>1. backtests \in RunRows(models) /\ IsFiniteSet(links)
    BY FS_EmptySet DEF GraphInit, RunRows
  <1>2. seeding = [c \in Callers |-> seeding[c]]
    BY DEF GraphInit
  <1>3. ASSUME NEW c \in Callers
        PROVE  /\ seeding[c] = [at |-> seeding[c].at, models |-> seeding[c].models,
                                backtests |-> seeding[c].backtests, nodes |-> seeding[c].nodes,
                                links |-> seeding[c].links]
               /\ seeding[c].backtests \in RunRows(models)
               /\ Prepared(seeding[c])
    <2>1. seeding[c] = Idle
      BY DEF GraphInit
    <2> QED BY <2>1 DEF Idle, RunRows, Prepared
  <1>4. LinksAnchored
    BY DEF GraphInit, LinksAnchored
  <1> QED BY <1>1, <1>2, <1>3, <1>4 DEF GraphInv

\* A step of one request, which leaves the others and keeps or adds nodes and edges.
LEMMA SeedStepKeeps ==
    ASSUME GraphInv, NEW c \in Callers, NEW here, NEW r, SeedStep(c, here, r),
           r = [at |-> r.at, models |-> r.models, backtests |-> r.backtests, nodes |-> r.nodes,
                links |-> r.links],
           r.backtests \in RunRows(models),
           r.at = "commit" =>
              IsFiniteSet(r.links) /\ \A e \in r.links : Anchored(e, nodes' \cup r.nodes, models),
           nodes \subseteq nodes', IsFiniteSet(links'), LinksAnchored'
    PROVE  GraphInv'
  <1>1. models' = models /\ backtests' = backtests /\ seeding' = [seeding EXCEPT ![c] = r]
    BY DEF SeedStep
  <1>2. \A x \in Callers : seeding'[x] = IF x = c THEN r ELSE seeding[x]
    BY <1>1 DEF GraphInv
  <1>3. seeding' = [x \in Callers |-> seeding'[x]]
    BY <1>1 DEF GraphInv
  <1>4. ASSUME NEW x \in Callers
        PROVE  /\ seeding'[x] = [at |-> seeding'[x].at, models |-> seeding'[x].models,
                                 backtests |-> seeding'[x].backtests, nodes |-> seeding'[x].nodes,
                                 links |-> seeding'[x].links]
               /\ seeding'[x].backtests \in RunRows(models')
               /\ Prepared(seeding[x])'
    <2>1. CASE x = c
      BY <1>1, <1>2, <2>1 DEF Prepared
    <2>2. CASE x # c
      <3>1. seeding'[x] = seeding[x] /\ Prepared(seeding[x])
        BY <1>2, <2>2 DEF GraphInv
      <3>2. ASSUME seeding[x].at = "commit"
            PROVE  /\ IsFiniteSet(seeding[x].links)
                   /\ \A e \in seeding[x].links : Anchored(e, nodes' \cup seeding[x].nodes, models)
        <4>1. \A e \in seeding[x].links : Anchored(e, nodes \cup seeding[x].nodes, models)
          BY <3>1, <3>2 DEF Prepared
        <4> QED BY <3>1, <3>2, <4>1 DEF Prepared, Anchored
      <3>3. Prepared(seeding[x])'
        BY <1>1, <3>1, <3>2 DEF Prepared
      <3> QED BY <1>1, <3>1, <3>3 DEF GraphInv
    <2> QED BY <2>1, <2>2
  <1> QED BY <1>1, <1>3, <1>4 DEF GraphInv

\* The same graph is anchored as before.
LEMMA StillAnchored ==
    ASSUME GraphInv, nodes' = nodes, links' = links, models' = models, enforced' = enforced
    PROVE  nodes \subseteq nodes' /\ IsFiniteSet(links') /\ LinksAnchored'
  BY DEF GraphInv, LinksAnchored, Model

\* Every step keeps the invariant.
LEMMA GraphInvStep == GraphInv /\ [GraphNext]_graphVars => GraphInv'
  <1> SUFFICES ASSUME GraphInv, [GraphNext]_graphVars PROVE GraphInv'
    OBVIOUS
  <1>1. ASSUME NEW m \in GraphModels, AddModel(m) PROVE GraphInv'
    <2>1. /\ models' = models \cup {m} /\ backtests' = backtests /\ nodes' = nodes
          /\ links' = links /\ enforced' = enforced /\ seeding' = seeding
      BY <1>1 DEF AddModel
    <2>2. RunRows(models) \subseteq RunRows(models')
      BY <2>1, RunRowsGrow
    <2>3. ASSUME NEW c \in Callers PROVE Prepared(seeding[c])'
      <3>1. Prepared(seeding[c])
        BY DEF GraphInv
      <3>2. \A e \in seeding[c].links :
               Anchored(e, nodes \cup seeding[c].nodes, models) => Anchored(e, nodes \cup seeding[c].nodes, models')
        BY <2>1 DEF Anchored
      <3> QED BY <2>1, <3>1, <3>2 DEF Prepared
    <2>4. LinksAnchored'
      BY <2>1 DEF GraphInv, LinksAnchored, Model
    <2> QED BY <2>1, <2>2, <2>3, <2>4 DEF GraphInv
  <1>2. ASSUME NEW s \in GraphStrategies, NEW m \in models \cup {NoModel}, AddBacktest(s, m) PROVE GraphInv'
    <2>1. /\ models' = models /\ backtests' = Append(backtests, [strategy |-> s, model |-> m])
          /\ nodes' = nodes /\ links' = links /\ enforced' = enforced /\ seeding' = seeding
      BY <1>2 DEF AddBacktest
    <2>2. backtests' \in RunRows(models)
      <3>1. [strategy |-> s, model |-> m] \in [strategy : GraphStrategies, model : models \cup {NoModel}]
        OBVIOUS
      <3>2. backtests \in Seq([strategy : GraphStrategies, model : models \cup {NoModel}])
        BY DEF GraphInv, RunRows
      <3> QED BY <2>1, <3>1, <3>2, OneMore DEF RunRows
    <2> QED BY <2>1, <2>2 DEF GraphInv, Prepared, LinksAnchored
  <1>3. ASSUME NEW c \in Callers, CountNodes(c) PROVE GraphInv'
    <2>1. PICK r : r = (IF nodes # {} THEN Idle ELSE [Idle EXCEPT !.at = "models"])
      OBVIOUS
    <2>2. SeedStep(c, "idle", r) /\ nodes' = nodes /\ links' = links
      BY <1>3, <2>1 DEF CountNodes
    <2>3. /\ r = [at |-> r.at, models |-> r.models, backtests |-> r.backtests, nodes |-> r.nodes,
                  links |-> r.links]
          /\ r.backtests = <<>> /\ r.at # "commit"
      BY <2>1 DEF Idle
    <2>4. r.backtests \in RunRows(models)
      BY <2>3 DEF RunRows
    <2> QED BY <2>2, <2>3, <2>4, SeedStepKeeps, StillAnchored DEF SeedStep
  <1>4. ASSUME NEW c \in Callers, ReadModels(c) PROVE GraphInv'
    <2>0. PICK mine : mine = seeding[c]
      OBVIOUS
    <2>1. PICK r : r = [mine EXCEPT !.at = "runs", !.models = models]
      OBVIOUS
    <2>4. /\ mine = [at |-> mine.at, models |-> mine.models, backtests |-> mine.backtests,
                     nodes |-> mine.nodes, links |-> mine.links]
          /\ mine.backtests \in RunRows(models)
      BY <2>0 DEF GraphInv
    <2>5. r = [at |-> "runs", models |-> models, backtests |-> mine.backtests,
              nodes |-> mine.nodes, links |-> mine.links]
      BY <2>1, <2>4
    <2>2. SeedStep(c, "models", r) /\ nodes' = nodes /\ links' = links
      BY <1>4, <2>0, <2>1 DEF ReadModels
    <2>3. /\ r = [at |-> r.at, models |-> r.models, backtests |-> r.backtests, nodes |-> r.nodes,
                  links |-> r.links]
          /\ r.backtests \in RunRows(models) /\ r.at = "runs"
      BY <2>4, <2>5 DEF GraphInv
    <2> QED BY <2>2, <2>3, SeedStepKeeps, StillAnchored DEF SeedStep
  <1>5. ASSUME NEW c \in Callers, ReadBacktests(c) PROVE GraphInv'
    <2>0. PICK mine : mine = seeding[c]
      OBVIOUS
    <2>1. PICK r : r = [mine EXCEPT !.at = "merge", !.backtests = backtests]
      OBVIOUS
    <2>4. /\ mine = [at |-> mine.at, models |-> mine.models, backtests |-> mine.backtests,
                     nodes |-> mine.nodes, links |-> mine.links]
          /\ mine.backtests \in RunRows(models)
      BY <2>0 DEF GraphInv
    <2>5. r = [at |-> "merge", models |-> mine.models, backtests |-> backtests,
              nodes |-> mine.nodes, links |-> mine.links]
      BY <2>1, <2>4
    <2>2. SeedStep(c, "runs", r) /\ nodes' = nodes /\ links' = links
      BY <1>5, <2>0, <2>1 DEF ReadBacktests
    <2>3. /\ r = [at |-> r.at, models |-> r.models, backtests |-> r.backtests, nodes |-> r.nodes,
                  links |-> r.links]
          /\ r.backtests \in RunRows(models) /\ r.at = "merge"
      BY <2>4, <2>5 DEF GraphInv
    <2> QED BY <2>2, <2>3, SeedStepKeeps, StillAnchored DEF SeedStep
  <1>6. ASSUME NEW c \in Callers, Merge(c) PROVE GraphInv'
    <2>1. PICK mine : mine = seeding[c]
      OBVIOUS
    <2>2. PICK r : r = [mine EXCEPT !.at = "commit",
                          !.nodes = NodesOf(mine.models, mine.backtests) \ nodes,
                          !.links = LinksOf(mine.backtests) \ links]
      OBVIOUS
    <2>3. SeedStep(c, "merge", r) /\ nodes' = nodes /\ links' = links
      BY <1>6, <2>1, <2>2 DEF Merge
    <2>4. /\ r = [at |-> r.at, models |-> r.models, backtests |-> r.backtests, nodes |-> r.nodes,
                  links |-> r.links]
          /\ r.backtests = mine.backtests /\ mine.backtests \in RunRows(models)
          /\ r.nodes = NodesOf(mine.models, mine.backtests) \ nodes
          /\ r.links = LinksOf(mine.backtests) \ links
      <3>1. /\ mine = [at |-> mine.at, models |-> mine.models, backtests |-> mine.backtests,
                       nodes |-> mine.nodes, links |-> mine.links]
            /\ mine.backtests \in RunRows(models)
        BY <2>1 DEF GraphInv
      <3>2. r = [at |-> "commit", models |-> mine.models, backtests |-> mine.backtests,
                nodes |-> NodesOf(mine.models, mine.backtests) \ nodes,
                links |-> LinksOf(mine.backtests) \ links]
        BY <2>2, <3>1
      <3> QED BY <3>1, <3>2
    <2>5. /\ IsFiniteSet(LinksOf(mine.backtests))
          /\ \A e \in LinksOf(mine.backtests) : Anchored(e, NodesOf(mine.models, mine.backtests), models)
      BY <2>4, RunsAnchored
    <2>6. IsFiniteSet(r.links)
      BY <2>4, <2>5, FS_Subset
    <2>7. NodesOf(mine.models, mine.backtests) \subseteq nodes' \cup r.nodes
      BY <2>3, <2>4
    <2>8. \A e \in r.links : Anchored(e, nodes' \cup r.nodes, models)
      BY <2>4, <2>5, <2>7 DEF Anchored
    <2> QED BY <2>3, <2>4, <2>6, <2>8, SeedStepKeeps, StillAnchored DEF SeedStep, GraphInv
  <1>7. ASSUME NEW c \in Callers, CommitSeed(c) PROVE GraphInv'
    <2>1. PICK mine : mine = seeding[c]
      OBVIOUS
    <2>2. /\ SeedStep(c, "commit", Idle) /\ Commits(c) /\ mine.at = "commit"
          /\ nodes' = nodes \cup mine.nodes /\ links' = links \cup mine.links
          /\ models' = models /\ enforced' = enforced
      BY <1>7, <2>1 DEF CommitSeed, SeedStep
    <2>3. IsFiniteSet(mine.links) /\ \A e \in mine.links : Anchored(e, nodes', models)
      BY <2>1, <2>2 DEF GraphInv, Prepared
    <2>4. IsFiniteSet(links')
      BY <2>2, <2>3, FS_Union DEF GraphInv
    <2>5. enforced => \A e \in mine.links : e[1] \in nodes' /\ e[2] \in nodes'
      BY <2>1, <2>2 DEF Commits
    <2>6. LinksAnchored'
      <3>1. ASSUME NEW e \in links'
            PROVE  e[1] \in nodes' /\ (e[2] \in nodes' \/ (~enforced /\ \E m \in models : e[2] = Model(m)))
        <4>1. CASE e \in links
          BY <2>2, <4>1 DEF GraphInv, LinksAnchored
        <4>2. CASE e \in mine.links
          BY <2>3, <2>5, <4>2 DEF Anchored
        <4> QED BY <2>2, <4>1, <4>2
      <3> QED BY <2>2, <3>1 DEF LinksAnchored, Model
    <2>7. /\ Idle = [at |-> Idle.at, models |-> Idle.models, backtests |-> Idle.backtests,
                     nodes |-> Idle.nodes, links |-> Idle.links]
          /\ Idle.backtests = <<>> /\ Idle.at # "commit"
      BY DEF Idle
    <2>8. Idle.backtests \in RunRows(models)
      BY <2>7 DEF RunRows
    <2> QED BY <2>2, <2>4, <2>6, <2>7, <2>8, SeedStepKeeps
  <1>8. ASSUME NEW c \in Callers, CommitFails(c) PROVE GraphInv'
    <2>1. SeedStep(c, "commit", Idle) /\ nodes' = nodes /\ links' = links
      BY <1>8 DEF CommitFails
    <2>2. /\ Idle = [at |-> Idle.at, models |-> Idle.models, backtests |-> Idle.backtests,
                     nodes |-> Idle.nodes, links |-> Idle.links]
          /\ Idle.backtests = <<>> /\ Idle.at # "commit"
      BY DEF Idle
    <2>3. Idle.backtests \in RunRows(models)
      BY <2>2 DEF RunRows
    <2> QED BY <2>1, <2>2, <2>3, SeedStepKeeps, StillAnchored DEF SeedStep, GraphInv
  <1>9. CASE UNCHANGED graphVars
    BY <1>9 DEF graphVars, GraphInv, Prepared, LinksAnchored
  <1> QED BY <1>1, <1>2, <1>3, <1>4, <1>5, <1>6, <1>7, <1>8, <1>9 DEF GraphNext, Seed

\* The search of a neighbourhood is exact in every graph of finitely many edges.
LEMMA SearchesExact == IsFiniteSet(links) => NeighborhoodExact
  <1> SUFFICES ASSUME IsFiniteSet(links), NEW n \in nodes, NEW depth \in 1 .. MaxDepth
               PROVE  LET dist == Answered(n, depth).dist
                          near == Reached(n, links, depth)
                      IN  /\ Answered(n, depth).queue = <<>>
                          /\ DOMAIN dist = near[depth]
                          /\ \A x \in DOMAIN dist, k \in 0 .. depth : dist[x] <= k <=> x \in near[k]
    BY DEF NeighborhoodExact
  <1>1. depth \in Nat
    BY GraphAssumption
  <1>2. PICK V, s : V = {n} \cup Ends(links) /\ s = Search(n, links, depth)[Cardinality(V)]
    OBVIOUS
  <1>3. s \in Searches(V) /\ Exploring(s, n, links, depth) /\ s.queue = <<>>
    BY <1>1, <1>2, SearchEnds, Zenon
  <1>4. Answered(n, depth) = s
    BY <1>2 DEF Answered
  <1>5. /\ DOMAIN s.dist = Reached(n, links, depth)[depth]
        /\ \A x \in DOMAIN s.dist, k \in 0 .. depth : s.dist[x] <= k <=> x \in Reached(n, links, depth)[k]
    BY <1>1, <1>3, SearchIsExact, Zenon
  <1> QED BY <1>3, <1>4, <1>5, Zenon

\* Whatever requests seed the graph at the same time, no edge loses its strategy or run, and
\* every neighbourhood is what breadth-first search promises (repositories.py, graph.py).
THEOREM GraphStaysExact == GraphSpec => []GraphExact
  <1>1. GraphInit => GraphInv
    BY GraphInvInit
  <1>2. GraphInv /\ [GraphNext]_graphVars => GraphInv'
    BY GraphInvStep
  <1>3. GraphInv => GraphExact
    BY SearchesExact DEF GraphInv, GraphExact
  <1> QED BY <1>1, <1>2, <1>3, PTL DEF GraphSpec

-----------------------------------------------------------------------------
(* Lists in the order of a key. *)

\* Two positions in the order of their keys.
Before(key, i, j) == key[i] < key[j] \/ (key[i] = key[j] /\ i < j)

\* Every position has as many ahead of it as its place says, and no two have the same place.
LEMMA PlacesAreOnce ==
    ASSUME NEW S \in SUBSET Int, IsFiniteSet(S), NEW key, \A i \in S : key[i] \in Int
    PROVE  /\ Cardinality(S) \in Nat
           /\ \A i \in S : Cardinality(Ahead(S, key, i)) \in 0 .. (Cardinality(S) - 1)
           /\ \A i, j \in S : Before(key, i, j) => Cardinality(Ahead(S, key, i)) < Cardinality(Ahead(S, key, j))
           /\ \A k \in 1 .. Cardinality(S) : \E i \in S : Cardinality(Ahead(S, key, i)) = k - 1
  <1>1. PICK c, ahead, rank :
          /\ c = Cardinality(S) /\ ahead = [i \in S |-> Ahead(S, key, i)]
          /\ rank = [i \in S |-> Cardinality(Ahead(S, key, i))]
    OBVIOUS
  <1>2. c \in Nat
    BY <1>1, FS_CardinalityType
  <1>3. \A i, j \in S : j \in ahead[i] <=> Before(key, j, i)
    BY <1>1 DEF Ahead, Before
  <1>4. \A i, j, k \in S : Before(key, i, j) /\ Before(key, j, k) => Before(key, i, k)
    BY DEF Before
  <1>5. \A i, j \in S : ~Before(key, i, i) /\ (i = j \/ Before(key, i, j) \/ Before(key, j, i))
    BY DEF Before
  <1>6. \A i \in S : ahead[i] \in SUBSET S /\ IsFiniteSet(ahead[i]) /\ rank[i] = Cardinality(ahead[i])
    <2>1. ASSUME NEW i \in S PROVE ahead[i] \in SUBSET S /\ rank[i] = Cardinality(ahead[i])
      BY <1>1 DEF Ahead
    <2> QED BY <2>1, FS_Subset
  <1>7. \A i \in S : rank[i] \in Nat
    BY <1>6, FS_CardinalityType
  <1>8. ASSUME NEW i \in S, NEW j \in S, Before(key, i, j) PROVE rank[i] < rank[j]
    <2>1. ahead[i] \subseteq ahead[j] /\ i \in ahead[j] /\ i \notin ahead[i]
      BY <1>3, <1>4, <1>5, <1>6, <1>8
    <2>2. ahead[i] \in SUBSET ahead[j] /\ ahead[i] # ahead[j]
      BY <2>1
    <2>3. rank[i] <= rank[j] /\ rank[i] # rank[j]
      BY <1>6, <2>2, FS_Subset
    <2> QED BY <1>7, <2>3
  <1>9. ASSUME NEW i \in S PROVE rank[i] <= c - 1
    <2>1. ahead[i] \in SUBSET S /\ ahead[i] # S
      BY <1>3, <1>5, <1>6
    <2>2. rank[i] <= c /\ rank[i] # c
      BY <1>1, <1>6, <2>1, FS_Subset
    <2> QED BY <1>2, <1>7, <2>2
  <1>10. rank \in Injection(S, 0 .. (c - 1))
    <2>1. rank \in [S -> 0 .. (c - 1)]
      BY <1>1, <1>2, <1>7, <1>9
    <2>2. \A i, j \in S : rank[i] = rank[j] => i = j
      BY <1>5, <1>7, <1>8
    <2> QED BY <2>1, <2>2 DEF Injection, IsInjective
  <1>11. rank \in Surjection(S, 0 .. (c - 1))
    <2>1. IsFiniteSet(0 .. (c - 1)) /\ Cardinality(0 .. (c - 1)) = c
      BY <1>2, FS_Interval
    <2> QED BY <1>1, <1>10, <2>1, FS_Injection
  <1>12. ASSUME NEW k \in 1 .. c PROVE \E i \in S : rank[i] = k - 1
    <2>1. k - 1 \in 0 .. (c - 1)
      BY <1>2
    <2> QED BY <1>11, <2>1 DEF Surjection
  <1>13. \A i \in S : rank[i] = Cardinality(Ahead(S, key, i))
    BY <1>1
  <1> QED BY <1>1, <1>2, <1>7, <1>8, <1>9, <1>12, <1>13

\* A list in the order of a key.
InOrder(list, S, key) ==
    /\ list \in Seq(S) /\ Len(list) = Cardinality(S) /\ Cardinality(S) \in Nat
    /\ \A k \in 1 .. Cardinality(S) : list[k] \in S
    /\ \A i \in S : \E k \in 1 .. Cardinality(S) : list[k] = i
    /\ \A k, l \in 1 .. Cardinality(S) : k < l => Before(key, list[k], list[l]) /\ list[k] # list[l]

\* The sort lists every member of its set once, in the order of the key.
LEMMA ListedInOrder ==
    ASSUME NEW S \in SUBSET Int, IsFiniteSet(S), NEW key, \A i \in S : key[i] \in Int
    PROVE  InOrder(Listed(S, key), S, key)
  <1>1. PICK c, rank, list :
          /\ c = Cardinality(S) /\ list = Listed(S, key)
          /\ rank = [i \in S |-> Cardinality(Ahead(S, key, i))]
    OBVIOUS
  <1>2. /\ c \in Nat
        /\ \A i \in S : rank[i] \in 0 .. (c - 1)
        /\ \A i, j \in S : Before(key, i, j) => rank[i] < rank[j]
        /\ \A k \in 1 .. c : \E i \in S : rank[i] = k - 1
    BY <1>1, PlacesAreOnce
  <1>3. \A i, j \in S : i = j \/ Before(key, i, j) \/ Before(key, j, i)
    BY DEF Before
  <1>4. list = [k \in 1 .. c |-> CHOOSE i \in S : Cardinality(Ahead(S, key, i)) = k - 1]
    BY <1>1 DEF Listed
  <1>5. ASSUME NEW k \in 1 .. c PROVE list[k] \in S /\ rank[list[k]] = k - 1
    <2>1. \E i \in S : Cardinality(Ahead(S, key, i)) = k - 1
      BY <1>1, <1>2
    <2>2. list[k] = CHOOSE i \in S : Cardinality(Ahead(S, key, i)) = k - 1
      BY <1>4
    <2>3. list[k] \in S /\ Cardinality(Ahead(S, key, list[k])) = k - 1
      BY <2>1, <2>2
    <2> QED BY <1>1, <2>3
  <1>6. list \in [1 .. c -> S]
    BY <1>4, <1>5
  <1>7. list \in Seq(S) /\ Len(list) = c
    BY <1>2, <1>6
  <1>8. ASSUME NEW i \in S PROVE \E k \in 1 .. c : list[k] = i
    <2>1. PICK k : k = rank[i] + 1
      OBVIOUS
    <2>2. k \in 1 .. c /\ rank[i] \in Nat /\ k - 1 = rank[i]
      BY <1>2, <2>1
    <2>3. list[k] \in S /\ rank[list[k]] = rank[i]
      BY <1>5, <2>2
    <2>4. list[k] = i
      <3>1. ~Before(key, i, list[k]) /\ ~Before(key, list[k], i)
        <4>1. ~(rank[i] < rank[list[k]]) /\ ~(rank[list[k]] < rank[i])
          BY <2>2, <2>3
        <4> QED BY <1>2, <2>3, <4>1, Zenon
      <3> QED BY <1>3, <2>3, <3>1
    <2> QED BY <2>2, <2>4
  <1>9. ASSUME NEW k \in 1 .. c, NEW l \in 1 .. c, k < l
        PROVE  Before(key, list[k], list[l]) /\ list[k] # list[l]
    <2>1. /\ list[k] \in S /\ list[l] \in S
          /\ rank[list[k]] = k - 1 /\ rank[list[l]] = l - 1 /\ ~(l - 1 < k - 1) /\ k - 1 # l - 1
      BY <1>2, <1>5, <1>9
    <2>2. ~Before(key, list[l], list[k])
      BY <1>2, <2>1
    <2> QED BY <1>3, <2>1, <2>2
  <1> QED BY <1>1, <1>2, <1>5, <1>7, <1>8, <1>9 DEF InOrder

-----------------------------------------------------------------------------
(* By entity. *)

EntityRows == Seq([entity : STRING, ts : Int, whole : BOOLEAN])

\* A list of entities, each of the rows' once.
EachOnce(e, rs) ==
    /\ Len(e) \in Nat /\ e = [k \in 1 .. Len(e) |-> e[k]]
    /\ \A k \in 1 .. Len(e) : \E i \in DOMAIN rs : rs[i].entity = e[k]
    /\ \A i \in DOMAIN rs : \E k \in 1 .. Len(e) : rs[i].entity = e[k]
    /\ \A k, l \in 1 .. Len(e) : e[k] = e[l] => k = l

\* list(groups) has every entity once.
LEMMA GroupsOnce == ASSUME NEW rs \in EntityRows PROVE EachOnce(Groups(rs), rs)
  <1>1. PICK n, S, key : n = Len(rs) /\ S = FirstRows(rs) /\ key = Position(rs)
    OBVIOUS
  <1>2. n \in Nat /\ DOMAIN rs = 1 .. n
    BY <1>1 DEF EntityRows
  <1>3. /\ S \in SUBSET Int /\ S \in SUBSET (1 .. n)
        /\ S = {i \in 1 .. n : \A j \in 1 .. (i - 1) : rs[j].entity # rs[i].entity}
    BY <1>1, <1>2 DEF FirstRows
  <1>4. IsFiniteSet(S) /\ \A i \in S : key[i] \in Int
    <2>1. IsFiniteSet(1 .. n)
      BY <1>2, FS_Interval
    <2> QED BY <1>1, <1>2, <1>3, <2>1, FS_Subset DEF Position
  <1>5. PICK first, c : first = Listed(S, key) /\ c = Cardinality(S)
    OBVIOUS
  <1>6. InOrder(first, S, key)
    BY <1>3, <1>4, <1>5, ListedInOrder
  <1>7. /\ first \in Seq(S) /\ Len(first) = c /\ c \in Nat /\ DOMAIN first = 1 .. c
        /\ \A k \in 1 .. c : first[k] \in S
        /\ \A i \in S : \E k \in 1 .. c : first[k] = i
        /\ \A k, l \in 1 .. c : k < l => first[k] # first[l]
    <2>1. /\ first \in Seq(S) /\ Len(first) = c /\ c \in Nat
          /\ \A k \in 1 .. c : first[k] \in S
          /\ \A i \in S : \E k \in 1 .. c : first[k] = i
          /\ \A k, l \in 1 .. c : k < l => first[k] # first[l]
      BY <1>5, <1>6 DEF InOrder
    <2> QED BY <2>1
  <1>8. PICK e : e = Groups(rs)
    OBVIOUS
  <1>9. e = [k \in 1 .. c |-> rs[first[k]].entity]
    BY <1>1, <1>5, <1>7, <1>8 DEF Groups
  <1>10. Len(e) = c
    BY <1>7, <1>9
  <1>11. \A k \in 1 .. c : first[k] \in 1 .. n /\ e[k] = rs[first[k]].entity
    BY <1>3, <1>7, <1>9
  <1>12. ASSUME NEW i \in 1 .. n PROVE \E k \in 1 .. c : rs[i].entity = e[k]
    <2>1. PICK T : T = {j \in 1 .. n : rs[j].entity = rs[i].entity}
      OBVIOUS
    <2>2. T \in SUBSET Nat /\ i \in T
      BY <2>1
    <2>3. PICK j \in T : \A m \in T : j <= m
      BY <2>2, LeastOfSet
    <2>4. j \in 1 .. n /\ rs[j].entity = rs[i].entity
      BY <2>1
    <2>5. ASSUME NEW m \in 1 .. (j - 1), rs[m].entity = rs[j].entity PROVE FALSE
      <3>1. m \in T /\ ~(j <= m)
        BY <1>2, <2>1, <2>4, <2>5
      <3> QED BY <2>3, <3>1
    <2>6. j \in S
      BY <1>3, <2>4, <2>5
    <2> QED BY <1>7, <1>11, <2>4, <2>6
  <1>13. ASSUME NEW k \in 1 .. c, NEW l \in 1 .. c, e[k] = e[l] PROVE k = l
    <2>1. PICK i, j : i = first[k] /\ j = first[l]
      OBVIOUS
    <2>2. i \in S /\ j \in S /\ rs[i].entity = rs[j].entity
      BY <1>7, <1>11, <1>13, <2>1
    <2>3. ~(i < j) /\ ~(j < i) /\ i \in Nat /\ j \in Nat
      BY <1>3, <2>2
    <2>4. ~(k < l) /\ ~(l < k)
      BY <1>7, <2>1, <2>3
    <2> QED BY <2>4
  <1>14. Len(e) \in Nat /\ e = [k \in 1 .. Len(e) |-> e[k]]
    BY <1>7, <1>9, <1>10
  <1>15. \A k \in 1 .. c : \E i \in DOMAIN rs : rs[i].entity = e[k]
    BY <1>2, <1>11
  <1>16. EachOnce(e, rs)
    <2>1. DOMAIN rs = 1 .. n /\ Len(e) = c
      BY <1>2, <1>10
    <2>2. /\ \A k \in 1 .. Len(e) : \E i \in DOMAIN rs : rs[i].entity = e[k]
          /\ \A k, l \in 1 .. Len(e) : e[k] = e[l] => k = l
      BY <1>13, <1>15, <2>1
    <2>3. \A i \in DOMAIN rs : \E k \in 1 .. Len(e) : rs[i].entity = e[k]
      BY <1>12, <2>1, Zenon
    <2> QED BY <1>14, <2>2, <2>3, Zenon DEF EachOnce
  <1> QED BY <1>8, <1>16, Zenon

\* So has the shuffled list, and it does not depend on the process.
LEMMA ShuffledOnce ==
    ASSUME NEW rs \in EntityRows, NEW w,
           LET n == Len(Groups(rs)) IN
              /\ shuffle[n] \in [1 .. n -> 1 .. n] /\ IsInjective(shuffle[n])
              /\ \A k \in 1 .. n : \E i \in 1 .. n : shuffle[n][i] = k
    PROVE  EachOnce(Shuffled(rs, w), rs)
  <1>1. PICK g, n, p : g = Groups(rs) /\ n = Len(g) /\ p = shuffle[n]
    OBVIOUS
  <1>2. EachOnce(g, rs)
    BY <1>1, GroupsOnce
  <1>3. /\ p \in [1 .. n -> 1 .. n] /\ \A k \in 1 .. n : \E i \in 1 .. n : p[i] = k
        /\ \A i, j \in 1 .. n : p[i] = p[j] => i = j
    BY <1>1 DEF IsInjective
  <1>4. n \in Nat /\ DOMAIN g = 1 .. n
    BY <1>1, <1>2 DEF EachOnce
  <1>5. PICK e : e = Shuffled(rs, w)
    OBVIOUS
  <1>6. e = [k \in 1 .. n |-> g[p[k]]] /\ Len(e) = n
    BY <1>1, <1>4, <1>5 DEF Shuffled
  <1>7. \A k \in 1 .. n : p[k] \in 1 .. n /\ e[k] = g[p[k]]
    BY <1>3, <1>6
  <1>8. /\ \A k \in 1 .. n : \E i \in DOMAIN rs : rs[i].entity = e[k]
        /\ \A k, l \in 1 .. n : e[k] = e[l] => k = l
    <2>1. /\ \A k \in 1 .. n : \E i \in DOMAIN rs : rs[i].entity = g[k]
          /\ \A k, l \in 1 .. n : g[k] = g[l] => k = l
      BY <1>1, <1>2 DEF EachOnce
    <2>2. ASSUME NEW k \in 1 .. n, NEW l \in 1 .. n, e[k] = e[l] PROVE k = l
      <3>1. p[k] \in 1 .. n /\ p[l] \in 1 .. n /\ g[p[k]] = g[p[l]]
        BY <1>7, <2>2
      <3>2. p[k] = p[l]
        BY <2>1, <3>1
      <3> QED BY <1>3, <3>2
    <2> QED BY <1>7, <2>1, <2>2
  <1>9. ASSUME NEW i \in DOMAIN rs PROVE \E k \in 1 .. n : rs[i].entity = e[k]
    <2>1. PICK l \in 1 .. n : rs[i].entity = g[l]
      BY <1>1, <1>2 DEF EachOnce
    <2>2. PICK k \in 1 .. n : p[k] = l
      BY <1>3
    <2> QED BY <1>7, <2>1, <2>2
  <1> QED BY <1>4, <1>5, <1>6, <1>8, <1>9 DEF EachOnce

\* A share is not more than its percentage, and not negative.
LEMMA ShareFits ==
    ASSUME NEW n \in Nat, NEW percent \in Nat
    PROVE  Share(n, percent) \in 0 .. ((n * percent) \div 100)
  <1>1. PICK x : x = n * percent
    OBVIOUS
  <1>2. x \in Nat /\ x \div 100 \in Nat
    BY <1>1
  <1>3. CASE <<n, percent>> \in RoundedDown
    <2>1. x >= 100
      BY <1>1, <1>3, ShareAssumption
    <2>2. x \div 100 >= 1
      BY <1>2, <2>1
    <2>3. Share(n, percent) = x \div 100 - 1
      BY <1>1, <1>3 DEF Share
    <2> QED BY <1>1, <1>2, <2>2, <2>3
  <1>4. CASE <<n, percent>> \notin RoundedDown
    <2>1. Share(n, percent) = x \div 100
      BY <1>1, <1>2, <1>4 DEF Share
    <2> QED BY <1>1, <1>2, <2>1
  <1> QED BY <1>3, <1>4

\* The shares of a profile leave the rest.
LEMMA SharesFit ==
    ASSUME NEW n \in Nat, NEW intent
    PROVE  LET a == Share(n, Ratios(intent).train)
               b == Share(n, Ratios(intent).val)
           IN  a \in Nat /\ b \in Nat /\ a + b <= n
  <1>1. NormalFamily(intent.family) \in {"baseline", "alpha", "ml"}
    BY DEF NormalFamily, Profiles
  <1>2. Ratios(intent) \in {[train |-> 70, val |-> 15], [train |-> 65, val |-> 20], [train |-> 80, val |-> 10]}
    <2>1. \A name \in {"baseline", "alpha", "ml"} : Profiles[name] \in
             {[train |-> 70, val |-> 15], [train |-> 65, val |-> 20], [train |-> 80, val |-> 10]}
      BY DEF Profiles
    <2>2. DOMAIN Profiles = {"baseline", "alpha", "ml"}
      BY DEF Profiles
    <2> QED BY <1>1, <2>1, <2>2 DEF Ratios
  <1>3. PICK t, v : t = Ratios(intent).train /\ v = Ratios(intent).val
    OBVIOUS
  <1>4. (t = 70 /\ v = 15) \/ (t = 65 /\ v = 20) \/ (t = 80 /\ v = 10)
    <2>1. PICK r : r = Ratios(intent)
      OBVIOUS
    <2>2. r \in {[train |-> 70, val |-> 15], [train |-> 65, val |-> 20], [train |-> 80, val |-> 10]}
      BY <1>2, <2>1
    <2>3. (r.train = 70 /\ r.val = 15) \/ (r.train = 65 /\ r.val = 20) \/ (r.train = 80 /\ r.val = 10)
      <3>1. CASE r = [train |-> 70, val |-> 15]
        BY <3>1
      <3>2. CASE r = [train |-> 65, val |-> 20]
        BY <3>2
      <3>3. CASE r = [train |-> 80, val |-> 10]
        BY <3>3
      <3> QED BY <2>2, <3>1, <3>2, <3>3
    <2> QED BY <1>3, <2>1, <2>3, Zenon
  <1>5. t \in Nat /\ v \in Nat /\ t + v <= 100
    BY <1>4
  <1>6. Share(n, t) \in 0 .. ((n * t) \div 100) /\ Share(n, v) \in 0 .. ((n * v) \div 100)
    BY <1>5, ShareFits
  <1>7. (n * t) \div 100 + (n * v) \div 100 <= n
    <2>1. (t = 70 /\ v = 15) \/ (t = 65 /\ v = 20) \/ (t = 80 /\ v = 10)
      BY <1>4
    <2>2. CASE t = 70 /\ v = 15
      BY <2>2
    <2>3. CASE t = 65 /\ v = 20
      BY <2>3
    <2>4. CASE t = 80 /\ v = 10
      BY <2>4
    <2> QED BY <2>1, <2>2, <2>3, <2>4
  <1>8. (n * t) \div 100 \in Int /\ (n * v) \div 100 \in Int
    BY <1>5
  <1> QED BY <1>3, <1>6, <1>7, <1>8

\* A stretch of a list.
LEMMA Stretch ==
    ASSUME NEW E, NEW e \in Seq(E), NEW m \in 1 .. Len(e) + 1, NEW n \in 0 .. Len(e)
    PROVE  /\ SubSeq(e, m, n) \in Seq(E)
           /\ Len(SubSeq(e, m, n)) = IF m <= n THEN n - m + 1 ELSE 0
           /\ \A k \in 1 .. Len(SubSeq(e, m, n)) : SubSeq(e, m, n)[k] = e[k + m - 1]
  OBVIOUS

\* Its members.
LEMMA StretchMembers ==
    ASSUME NEW E, NEW e \in Seq(E), NEW m \in 1 .. Len(e) + 1, NEW n \in 0 .. Len(e)
    PROVE  ToSet(SubSeq(e, m, n)) = {e[k] : k \in m .. n}
  <1>1. PICK s : s = SubSeq(e, m, n)
    OBVIOUS
  <1>2. /\ s \in Seq(E) /\ Len(s) = IF m <= n THEN n - m + 1 ELSE 0
        /\ \A k \in 1 .. Len(s) : s[k] = e[k + m - 1]
    BY <1>1, Stretch
  <1>3. Len(e) \in Nat /\ DOMAIN s = 1 .. Len(s)
    BY <1>2
  <1>4. ASSUME NEW k \in m .. n PROVE k - m + 1 \in DOMAIN s /\ s[k - m + 1] = e[k]
    <2>1. k - m + 1 \in 1 .. Len(s) /\ (k - m + 1) + m - 1 = k
      BY <1>2, <1>3
    <2> QED BY <1>2, <1>3, <2>1
  <1>5. ASSUME NEW k \in DOMAIN s PROVE k + m - 1 \in m .. n /\ s[k] = e[k + m - 1]
    <2>1. k \in 1 .. Len(s)
      BY <1>3
    <2>2. k + m - 1 \in m .. n
      BY <1>2, <1>3, <2>1
    <2> QED BY <1>2, <2>1, <2>2
  <1>6. PICK T : T = {e[k] : k \in m .. n}
    OBVIOUS
  <1>7. \A x \in T : x \in ToSet(s)
    <2>1. ASSUME NEW k \in m .. n PROVE e[k] \in ToSet(s)
      BY <1>4, Zenon DEF ToSet
    <2> QED BY <1>6, <2>1
  <1>8. \A x \in ToSet(s) : x \in T
    <2>1. ASSUME NEW k \in DOMAIN s PROVE s[k] \in T
      BY <1>5, <1>6, Zenon
    <2> QED BY <2>1 DEF ToSet
  <1> QED BY <1>1, <1>6, <1>7, <1>8

\* The parts of a cut are disjoint and have every entity.
LEMMA CutApart ==
    ASSUME NEW rs, NEW e, EachOnce(e, rs), NEW intent, NEW cut, cut = Cut(e, Ratios(intent))
    PROVE  /\ DOMAIN cut = Parts
           /\ \A i \in DOMAIN rs : \E part \in Parts : rs[i].entity \in ToSet(cut[part])
           /\ \A p, q \in Parts : p # q => ToSet(cut[p]) \cap ToSet(cut[q]) = {}
  <1>1. PICK n, a, b : n = Len(e) /\ a = Share(n, Ratios(intent).train) /\ b = Share(n, Ratios(intent).val)
    OBVIOUS
  <1>2. n \in Nat /\ a \in Nat /\ b \in Nat /\ a + b <= n
    <2>1. n \in Nat
      BY <1>1 DEF EachOnce
    <2> QED BY <1>1, <2>1, SharesFit
  <1>3. cut = [train |-> SubSeq(e, 1, a), val |-> SubSeq(e, a + 1, a + b), test |-> SubSeq(e, a + b + 1, n)]
    BY <1>1 DEF Cut
  <1>4. PICK E : E = {e[k] : k \in 1 .. n}
    OBVIOUS
  <1>5. e \in Seq(E)
    <2>1. e = [k \in 1 .. n |-> e[k]]
      BY <1>1 DEF EachOnce
    <2>2. e \in [1 .. n -> E]
      BY <1>4, <2>1
    <2> QED BY <1>2, <2>2
  <1>6. PICK R : R = [train |-> 1 .. a, val |-> (a + 1) .. (a + b), test |-> (a + b + 1) .. n]
    OBVIOUS
  <1>7. /\ ToSet(cut.train) = {e[k] : k \in R.train} /\ ToSet(cut.val) = {e[k] : k \in R.val}
        /\ ToSet(cut.test) = {e[k] : k \in R.test}
    <2>1. ToSet(SubSeq(e, 1, a)) = {e[k] : k \in 1 .. a}
      BY <1>1, <1>2, <1>5, StretchMembers
    <2>2. ToSet(SubSeq(e, a + 1, a + b)) = {e[k] : k \in (a + 1) .. (a + b)}
      <3>1. a + 1 \in 1 .. Len(e) + 1 /\ a + b \in 0 .. Len(e)
        BY <1>1, <1>2
      <3> QED BY <1>5, <3>1, StretchMembers
    <2>3. ToSet(SubSeq(e, a + b + 1, n)) = {e[k] : k \in (a + b + 1) .. n}
      <3>1. a + b + 1 \in 1 .. Len(e) + 1 /\ n \in 0 .. Len(e)
        BY <1>1, <1>2
      <3> QED BY <1>5, <3>1, StretchMembers
    <2> QED BY <1>3, <1>6, <2>1, <2>2, <2>3
  <1>8. \A p \in Parts : ToSet(cut[p]) = {e[k] : k \in R[p]} /\ R[p] \subseteq 1 .. n
    <2>1. R["train"] \subseteq 1 .. n /\ R["val"] \subseteq 1 .. n /\ R["test"] \subseteq 1 .. n
      BY <1>2, <1>6
    <2>2. ASSUME NEW p \in Parts PROVE ToSet(cut[p]) = {e[k] : k \in R[p]} /\ R[p] \subseteq 1 .. n
      BY <1>7, <2>1, <2>2, Zenon DEF Parts
    <2> QED BY <2>2
  <1>9. \A k \in 1 .. n : \E p \in Parts : k \in R[p]
    BY <1>2, <1>6 DEF Parts
  <1>10. \A p, q \in Parts : p # q => R[p] \cap R[q] = {}
    BY <1>2, <1>6 DEF Parts
  <1>11. /\ \A i \in DOMAIN rs : \E k \in 1 .. n : rs[i].entity = e[k]
         /\ \A k, l \in 1 .. n : e[k] = e[l] => k = l
    BY <1>1 DEF EachOnce
  <1>12. DOMAIN cut = Parts
    BY <1>3 DEF Parts
  <1>13. ASSUME NEW i \in DOMAIN rs PROVE \E part \in Parts : rs[i].entity \in ToSet(cut[part])
    BY <1>8, <1>9, <1>11
  <1>14. ASSUME NEW p \in Parts, NEW q \in Parts, p # q, NEW x, x \in ToSet(cut[p]), x \in ToSet(cut[q])
         PROVE  FALSE
    <2>1. PICK k \in R[p], l \in R[q] : x = e[k] /\ x = e[l]
      BY <1>8, <1>14
    <2>2. k = l
      BY <1>8, <1>11, <2>1
    <2> QED BY <1>10, <1>14, <2>1, <2>2
  <1> QED BY <1>12, <1>13, <1>14, Zenon

\* What a process puts into a part: the rows of its entities, each once.
LEMMA GatherExact ==
    ASSUME NEW rs \in EntityRows, NEW w, NEW entities,
           \A i \in DOMAIN rs : hashOrder[w][rs[i].entity] \in Int
    PROVE  /\ ToSet(Gather(rs, entities, w)) = {i \in DOMAIN rs : rs[i].entity \in ToSet(entities)}
           /\ IsInjective(Gather(rs, entities, w))
  <1>1. PICK S, key, list : /\ S = {i \in DOMAIN rs : rs[i].entity \in ToSet(entities)}
                            /\ key = HashRank(rs, w) /\ list = Gather(rs, entities, w)
    OBVIOUS
  <1>2. Len(rs) \in Nat /\ DOMAIN rs = 1 .. Len(rs)
    BY DEF EntityRows
  <1>3. S \in SUBSET Int /\ IsFiniteSet(S)
    <2>1. PICK T : T = 1 .. Len(rs)
      OBVIOUS
    <2>2. IsFiniteSet(T)
      BY <1>2, <2>1, FS_Interval
    <2>3. S \in SUBSET T
      BY <1>1, <1>2, <2>1
    <2>4. IsFiniteSet(S)
      BY <2>2, <2>3, FS_Subset, Zenon
    <2>5. T \subseteq Int
      BY <1>2, <2>1
    <2> QED BY <2>3, <2>4, <2>5
  <1>4. \A i \in S : key[i] \in Int
    BY <1>1 DEF HashRank
  <1>5. InOrder(list, S, key)
    BY <1>1, <1>3, <1>4, ListedInOrder DEF Gather
  <1>6. /\ DOMAIN list = 1 .. Cardinality(S) /\ Cardinality(S) \in Nat
        /\ \A k \in 1 .. Cardinality(S) : list[k] \in S
        /\ \A i \in S : \E k \in 1 .. Cardinality(S) : list[k] = i
        /\ \A k, l \in 1 .. Cardinality(S) : k < l => list[k] # list[l]
    BY <1>5 DEF InOrder
  <1>7. ToSet(list) = S
    BY <1>6 DEF ToSet
  <1>8. IsInjective(list)
    BY <1>6 DEF IsInjective
  <1> QED BY <1>1, <1>7, <1>8

\* The shuffled entities of a request, cut into its parts.
Dealt(intent, p) ==
    LET e == Groups(RowsOf(intent)) IN Cut([i \in DOMAIN e |-> e[p[Len(e)][i]]], Ratios(intent))

\* What a part has are the rows of its entities, each once.
PartsExact(s, rs, cut) ==
    \A part \in Parts :
        /\ ToSet(s[part]) = {i \in DOMAIN rs : rs[i].entity \in ToSet(cut[part])}
        /\ IsInjective(s[part])

\* The deal has every entity of the request in one part.
LEMMA DealtApart ==
    ASSUME NEW intent \in Intents, shuffle \in Shuffles, NEW cut, cut = Dealt(intent, shuffle)
    PROVE  /\ DOMAIN cut = Parts
           /\ \A i \in DOMAIN RowsOf(intent) : \E part \in Parts : RowsOf(intent)[i].entity \in ToSet(cut[part])
           /\ \A p, q \in Parts : p # q => ToSet(cut[p]) \cap ToSet(cut[q]) = {}
  <1>1. PICK rs : rs = RowsOf(intent)
    OBVIOUS
  <1>2. rs \in EntityRows
    BY <1>1, EntityAssumption DEF EntityRows
  <1>3. PICK n : n = Len(Groups(rs))
    OBVIOUS
  <1>4. /\ shuffle[n] \in [1 .. n -> 1 .. n] /\ IsInjective(shuffle[n])
        /\ \A k \in 1 .. n : \E i \in 1 .. n : shuffle[n][i] = k
    <2>1. LET m == Len(Groups(RowsOf(intent))) IN
          /\ shuffle[m] \in [1 .. m -> 1 .. m] /\ IsInjective(shuffle[m])
          /\ \A k \in 1 .. m : \E i \in 1 .. m : shuffle[m][i] = k
      BY EntityAssumption, Zenon
    <2>2. n = Len(Groups(RowsOf(intent)))
      BY <1>1, <1>3
    <2> QED BY <2>1, <2>2, Zenon
  <1>5. PICK e : e = Shuffled(rs, 0)
    OBVIOUS
  <1>6. EachOnce(e, rs)
    BY <1>2, <1>3, <1>4, <1>5, ShuffledOnce
  <1>7. cut = Cut(e, Ratios(intent))
    BY <1>1, <1>5 DEF Dealt, Shuffled
  <1> QED BY <1>1, <1>6, <1>7, CutApart

\* A process materializes the deal.
LEMMA SplitExact ==
    ASSUME NEW intent \in Intents, NEW w, shuffle \in Shuffles, hashOrder[w] \in HashOrders,
           \A i \in DOMAIN RowsOf(intent) : RowsOf(intent)[i].entity # NoEntity
    PROVE  PartsExact(Split(intent, w), RowsOf(intent), Dealt(intent, shuffle))
  <1>1. PICK rs, cut, s : rs = RowsOf(intent) /\ cut = Dealt(intent, shuffle) /\ s = Split(intent, w)
    OBVIOUS
  <1>2. rs \in EntityRows
    BY <1>1, EntityAssumption DEF EntityRows
  <1>3. \A i \in DOMAIN rs : hashOrder[w][rs[i].entity] \in Int
    BY <1>1, EntityAssumption
  <1>4. cut = Cut(Shuffled(rs, w), Ratios(intent))
    BY <1>1 DEF Dealt, Shuffled
  <1>5. s = [part \in DOMAIN cut |-> Gather(rs, cut[part], w)]
    BY <1>1, <1>4 DEF Split
  <1>6. DOMAIN cut = Parts
    BY <1>1, DealtApart
  <1>7. ASSUME NEW part \in Parts
        PROVE  /\ ToSet(s[part]) = {i \in DOMAIN rs : rs[i].entity \in ToSet(cut[part])}
               /\ IsInjective(s[part])
    <2>1. s[part] = Gather(rs, cut[part], w)
      BY <1>5, <1>6
    <2> QED BY <1>2, <1>3, <2>1, GatherExact
  <1> QED BY <1>1, <1>7 DEF PartsExact

\* What two processes materialized of one request is in the same parts, and apart.
LEMMA DealsAgree ==
    ASSUME NEW intent \in Intents, shuffle \in Shuffles, given = intent,
           \A w \in Done : PartsExact(bundle[w].splits, RowsOf(intent), Dealt(intent, shuffle))
    PROVE  NoEntityInTwoParts /\ SameSeedSameParts
  <1>1. PICK rs, cut : rs = RowsOf(intent) /\ cut = Dealt(intent, shuffle)
    OBVIOUS
  <1>2. /\ \A i \in DOMAIN rs : \E part \in Parts : rs[i].entity \in ToSet(cut[part])
        /\ \A p, q \in Parts : p # q => ToSet(cut[p]) \cap ToSet(cut[q]) = {}
    BY <1>1, DealtApart
  <1>3. \A w \in Done, part \in Parts :
           /\ Part(w, part) = {i \in DOMAIN rs : rs[i].entity \in ToSet(cut[part])}
           /\ IsInjective(bundle[w].splits[part])
    BY <1>1 DEF PartsExact, Part
  <1>4. SameSeedSameParts
    BY <1>3 DEF SameSeedSameParts
  <1>5. ASSUME NEW w \in Done PROVE UNION {Part(w, part) : part \in Parts} = DOMAIN rs
    <2>1. \A part \in Parts : Part(w, part) \subseteq DOMAIN rs
      BY <1>3
    <2>2. \A i \in DOMAIN rs : \E part \in Parts : i \in Part(w, part)
      BY <1>2, <1>3
    <2> HIDE DEF Part
    <2> QED BY <2>1, <2>2, Zenon
  <1>6. ASSUME NEW w \in Done, NEW p \in Parts, NEW q \in Parts, NEW i \in Part(w, p), NEW j \in Part(w, q),
               rs[i].entity = rs[j].entity
        PROVE  p = q
    <2>1. rs[i].entity \in ToSet(cut[p]) /\ rs[i].entity \in ToSet(cut[q])
      BY <1>3, <1>6
    <2> QED BY <1>2, <2>1
  <1>7. NoEntityInTwoParts
    BY <1>1, <1>3, <1>5, <1>6 DEF NoEntityInTwoParts
  <1> QED BY <1>4, <1>7

-----------------------------------------------------------------------------
(* By time. *)

TimeRows == Seq([ts : Int, known : Int])

\* The rows of an input sorted by time.
TimeOf(g) == [i \in DOMAIN g.rows |-> g.rows[i].ts]
InTime(g) == Listed(Timely(g.rows), TimeOf(g))

\* A list of the rows that were known in time, each once, by time.
TimeList(o, g) ==
    /\ Len(o) \in 0 .. Len(g.rows) /\ o \in Seq(Timely(g.rows)) /\ Timely(g.rows) \subseteq DOMAIN g.rows
    /\ \A k \in 1 .. Len(o) : o[k] \in Timely(g.rows)
    /\ \A i \in Timely(g.rows) : g.rows[i].ts \in Int
    /\ \A i \in Timely(g.rows) : \E k \in 1 .. Len(o) : o[k] = i
    /\ \A k, l \in 1 .. Len(o) : k < l => o[k] # o[l] /\ g.rows[o[k]].ts <= g.rows[o[l]].ts

\* What can be listed of the rows that were known in time.
LEMMA TimelyRows ==
    ASSUME NEW g, g.rows \in TimeRows
    PROVE  /\ Timely(g.rows) \in SUBSET Int /\ IsFiniteSet(Timely(g.rows))
           /\ Timely(g.rows) \subseteq DOMAIN g.rows
           /\ \A i \in Timely(g.rows) : g.rows[i].ts \in Int /\ TimeOf(g)[i] = g.rows[i].ts
  <1>1. PICK r : r = g.rows
    OBVIOUS
  <1>2. r \in TimeRows /\ Len(r) \in Nat /\ DOMAIN r = 1 .. Len(r)
    BY <1>1 DEF TimeRows
  <1>3. \A i \in DOMAIN r : r[i].ts \in Int
    <2>1. PICK R : R = [ts : Int, known : Int]
      OBVIOUS
    <2>2. r \in Seq(R)
      BY <1>2, <2>1 DEF TimeRows
    <2>3. \A i \in DOMAIN r : r[i] \in R
      BY <2>2
    <2> QED BY <2>1, <2>3
  <1>4. Timely(r) \in SUBSET DOMAIN r
    BY DEF Timely
  <1>5. IsFiniteSet(Timely(r))
    <2>1. IsFiniteSet(DOMAIN r)
      BY <1>2, FS_Interval
    <2> QED BY <1>4, <2>1, FS_Subset
  <1>6. \A i \in Timely(r) : TimeOf(g)[i] = r[i].ts
    BY <1>1, <1>4 DEF TimeOf
  <1> QED BY <1>1, <1>2, <1>3, <1>4, <1>5, <1>6

\* The sort by time is such a list.
LEMMA InTimeSorted == ASSUME NEW g, g.rows \in TimeRows PROVE TimeList(InTime(g), g)
  <1>1. PICK S, key, o : S = Timely(g.rows) /\ key = TimeOf(g) /\ o = InTime(g)
    OBVIOUS
  <1>2. S \in SUBSET Int /\ IsFiniteSet(S) /\ S \subseteq DOMAIN g.rows
    BY <1>1, TimelyRows
  <1>3. \A i \in S : g.rows[i].ts \in Int /\ key[i] = g.rows[i].ts
    BY <1>1, TimelyRows
  <1>4. InOrder(o, S, key)
    <2>1. o = Listed(S, key)
      BY <1>1 DEF InTime
    <2>2. \A i \in S : key[i] \in Int
      BY <1>3
    <2> QED BY <1>2, <2>1, <2>2, ListedInOrder
  <1>5. /\ o \in Seq(S) /\ Len(o) \in Nat /\ Len(o) = Cardinality(S)
        /\ \A k \in 1 .. Len(o) : o[k] \in S
        /\ \A i \in S : \E k \in 1 .. Len(o) : o[k] = i
        /\ \A k, l \in 1 .. Len(o) : k < l => Before(key, o[k], o[l]) /\ o[k] # o[l]
    BY <1>4 DEF InOrder
  <1>6. Len(o) \in 0 .. Len(g.rows)
    <2>1. Len(g.rows) \in Nat /\ DOMAIN g.rows = 1 .. Len(g.rows)
      BY DEF TimeRows
    <2>2. IsFiniteSet(1 .. Len(g.rows)) /\ Cardinality(1 .. Len(g.rows)) = Len(g.rows)
      BY <2>1, FS_Interval
    <2>3. S \in SUBSET (1 .. Len(g.rows))
      BY <1>2, <2>1
    <2>4. Cardinality(S) <= Len(g.rows)
      BY <2>2, <2>3, FS_Subset
    <2> QED BY <1>5, <2>1, <2>4
  <1>7. ASSUME NEW k \in 1 .. Len(o), NEW l \in 1 .. Len(o), k < l
        PROVE  o[k] # o[l] /\ g.rows[o[k]].ts <= g.rows[o[l]].ts
    <2>1. Before(key, o[k], o[l]) /\ o[k] # o[l] /\ o[k] \in S /\ o[l] \in S
      BY <1>5, <1>7
    <2>2. PICK x, y : x = g.rows[o[k]].ts /\ y = g.rows[o[l]].ts
      OBVIOUS
    <2>3. x \in Int /\ y \in Int /\ key[o[k]] = x /\ key[o[l]] = y
      BY <1>3, <2>1, <2>2
    <2>4. x < y \/ x = y
      BY <2>1, <2>3 DEF Before
    <2> QED BY <2>1, <2>2, <2>3, <2>4
  <1> QED BY <1>1, <1>2, <1>3, <1>5, <1>6, <1>7 DEF TimeList

\* The ends of a stretch that is not empty.
LEMMA StretchEnds ==
    ASSUME NEW E, NEW e \in Seq(E), NEW m \in 1 .. Len(e), NEW n \in m .. Len(e)
    PROVE  /\ SubSeq(e, m, n) # <<>>
           /\ Head(SubSeq(e, m, n)) = e[m] /\ Last(SubSeq(e, m, n)) = e[n]
  <1>1. PICK s : s = SubSeq(e, m, n)
    OBVIOUS
  <1>2. s \in Seq(E) /\ Len(s) = n - m + 1 /\ \A k \in 1 .. Len(s) : s[k] = e[k + m - 1]
    BY <1>1, Stretch
  <1>3. 1 \in 1 .. Len(s) /\ Len(s) \in 1 .. Len(s) /\ 1 + m - 1 = m /\ Len(s) + m - 1 = n
    BY <1>2
  <1>4. s[1] = e[m] /\ s[Len(s)] = e[n]
    BY <1>2, <1>3
  <1>5. s # <<>> /\ Head(s) = s[1] /\ Last(s) = s[Len(s)]
    BY <1>2, <1>3 DEF Last
  <1> QED BY <1>1, <1>4, <1>5

\* A list by its places.
Whole(s) == Len(s) \in Nat /\ s = [k \in 1 .. Len(s) |-> s[k]]

\* An addition at the end.
LEMMA Extended ==
    ASSUME NEW s, Whole(s), NEW x, NEW t, t = Append(s, x)
    PROVE  /\ Len(t) = Len(s) + 1 /\ Whole(t)
           /\ \A k \in 1 .. Len(s) : t[k] = s[k]
           /\ t[Len(s) + 1] = x
  <1>1. PICK n, T : n = Len(s) /\ T = {s[k] : k \in 1 .. n} \cup {x}
    OBVIOUS
  <1>2. s \in Seq(T)
    <2>1. s = [k \in 1 .. n |-> s[k]] /\ n \in Nat
      BY <1>1 DEF Whole
    <2>2. \A k \in 1 .. n : s[k] \in T
      BY <1>1
    <2>3. s \in [1 .. n -> T]
      BY <2>1, <2>2
    <2> QED BY <2>1, <2>3
  <1>3. x \in T
    BY <1>1
  <1>4. t \in Seq(T) /\ Len(t) = n + 1
    BY <1>1, <1>2, <1>3
  <1>5. t = [k \in 1 .. Len(t) |-> t[k]]
    <2>1. t \in [1 .. Len(t) -> T]
      BY <1>4, LenProperties
    <2> QED BY <2>1, Zenon
  <1>6. \A k \in 1 .. n : t[k] = s[k]
    BY <1>1, <1>2, <1>3
  <1>7. t[n + 1] = x
    BY <1>1, <1>2, <1>3
  <1> QED BY <1>1, <1>4, <1>5, <1>6, <1>7 DEF Whole

\* The size of a fold of n rows, and how many rows the first folds test.
SizeOf(n, splits) == IF n \div splits = 0 THEN 1 ELSE n \div splits
Least(a, b) == IF a < b THEN a ELSE b
Cover(n, splits, k) == IF k = splits THEN n ELSE Least(k * SizeOf(n, splits), n)

\* A fold tests from where the folds before it end to where it ends itself.
Covered(n, splits, k, size, end, c, d) ==
    /\ size = SizeOf(n, splits) /\ k * size \in Nat
    /\ end = IF k = splits - 1 THEN n ELSE k * size + size
    /\ c = Least(k * size, n) /\ c \in 0 .. n
    /\ d = IF end < n THEN end ELSE n
    /\ d \in c .. n

\* The cover grows that way.
LEMMA CoverGrows ==
    ASSUME NEW n \in Nat, NEW splits \in Nat \ {0}, NEW k \in 0 .. (splits - 1)
    PROVE  \E size, end : Covered(n, splits, k, size, end, Cover(n, splits, k), Cover(n, splits, k + 1))
  <1>1. PICK size, end : /\ size = SizeOf(n, splits)
                         /\ end = IF k = splits - 1 THEN n ELSE k * size + size
    OBVIOUS
  <1>2. size \in Nat
    <2>1. n \div splits \in Nat
      OBVIOUS
    <2> QED BY <1>1, <2>1 DEF SizeOf
  <1>3. PICK a, b : a = k * size /\ b = (k + 1) * size
    OBVIOUS
  <1>4. a \in Nat /\ b = a + size
    <2>1. a \in Nat
      BY <1>2, <1>3
    <2>2. (k + 1) * size = k * size + size
      BY <1>2
    <2> QED BY <1>3, <2>1, <2>2
  <1>5. Cover(n, splits, k) = Least(a, n)
    BY <1>1, <1>3 DEF Cover
  <1>6. Cover(n, splits, k + 1) = IF k = splits - 1 THEN n ELSE Least(b, n)
    BY <1>1, <1>3 DEF Cover
  <1>7. Cover(n, splits, k + 1) = IF end < n THEN end ELSE n
    BY <1>1, <1>2, <1>3, <1>4, <1>6 DEF Least
  <1>8. Cover(n, splits, k) \in 0 .. n
    BY <1>4, <1>5 DEF Least
  <1>9. Cover(n, splits, k + 1) \in Cover(n, splits, k) .. n
    BY <1>2, <1>4, <1>5, <1>6 DEF Least
  <1> QED BY <1>1, <1>3, <1>4, <1>5, <1>7, <1>8, <1>9 DEF Covered

\* The rows a fold that tests from the first to the last of a stretch gives up.
GivenUp(g, i, from, to) ==
    \/ from <= g.rows[i].ts /\ g.rows[i].ts <= to
    \/ from - g.purge <= g.rows[i].ts /\ g.rows[i].ts <= to + g.purge
    \/ to < g.rows[i].ts /\ g.rows[i].ts <= to + g.embargo

\* What a fold is: a stretch of the list that is tested, and the rows not given up for it.
FoldOf(g, o, m, n) ==
    [test |-> SubSeq(o, m, n),
     train |-> Listed({i \in Timely(g.rows) : ~GivenUp(g, i, g.rows[o[m]].ts, g.rows[o[n]].ts)}, TimeOf(g))]

\* What a fold trains on.
LEMMA TrainedExact ==
    ASSUME NEW g, g.rows \in TimeRows, NEW o, NEW m, NEW n
    PROVE  /\ FoldOf(g, o, m, n).test = SubSeq(o, m, n)
           /\ \A i : i \in ToSet(FoldOf(g, o, m, n).train) <=>
                 i \in Timely(g.rows) /\ ~GivenUp(g, i, g.rows[o[m]].ts, g.rows[o[n]].ts)
  <1>1. PICK S, list : /\ S = {i \in Timely(g.rows) : ~GivenUp(g, i, g.rows[o[m]].ts, g.rows[o[n]].ts)}
                       /\ list = Listed(S, TimeOf(g))
    OBVIOUS
  <1>2. S \in SUBSET Timely(g.rows)
    BY <1>1
  <1>3. S \in SUBSET Int /\ IsFiniteSet(S) /\ \A i \in S : TimeOf(g)[i] \in Int
    <2>1. /\ Timely(g.rows) \in SUBSET Int /\ IsFiniteSet(Timely(g.rows))
          /\ \A i \in Timely(g.rows) : TimeOf(g)[i] \in Int
      BY TimelyRows
    <2> QED BY <1>2, <2>1, FS_Subset
  <1>4. InOrder(list, S, TimeOf(g))
    BY <1>1, <1>3, ListedInOrder
  <1>5. /\ DOMAIN list = 1 .. Cardinality(S)
        /\ \A k \in 1 .. Cardinality(S) : list[k] \in S
        /\ \A i \in S : \E k \in 1 .. Cardinality(S) : list[k] = i
    BY <1>4 DEF InOrder
  <1>6. ToSet(list) = S
    BY <1>5 DEF ToSet
  <1>7. FoldOf(g, o, m, n) = [test |-> SubSeq(o, m, n), train |-> list]
    BY <1>1 DEF FoldOf
  <1>8. FoldOf(g, o, m, n).test = SubSeq(o, m, n) /\ FoldOf(g, o, m, n).train = list
    <2>1. PICK a, b : a = SubSeq(o, m, n) /\ b = list
      OBVIOUS
    <2>2. FoldOf(g, o, m, n) = [test |-> a, train |-> b]
      BY <1>7, <2>1
    <2>3. FoldOf(g, o, m, n).test = a /\ FoldOf(g, o, m, n).train = b
      BY <2>2
    <2> QED BY <2>1, <2>3
  <1>9. ToSet(FoldOf(g, o, m, n).train) = S
    BY <1>6, <1>8
  <1> QED BY <1>1, <1>8, <1>9

\* A row is too near another: within the horizon of the purge, or in the embargo after it.
TooNear(g, i, j) ==
    \/ g.rows[i].ts - g.rows[j].ts \in -g.purge .. g.purge
    \/ g.rows[i].ts - g.rows[j].ts \in 1 .. g.embargo

\* What is given up for a stretch is too near one of its rows or between two of them.
LEMMA GivenUpExact ==
    ASSUME NEW g \in FoldInputs, NEW T, NEW i, NEW j \in T, NEW l \in T, g.rows[i].ts \in Int,
           \A x \in T : g.rows[x].ts \in g.rows[j].ts .. g.rows[l].ts,
           g.rows[j].ts \in Int, g.rows[l].ts \in Int
    PROVE  /\ ~GivenUp(g, i, g.rows[j].ts, g.rows[l].ts) => \A x \in T : ~TooNear(g, i, x)
           /\ GivenUp(g, i, g.rows[j].ts, g.rows[l].ts) =>
                 \/ \E x \in T : TooNear(g, i, x)
                 \/ \E x, y \in T : g.rows[x].ts <= g.rows[i].ts /\ g.rows[i].ts <= g.rows[y].ts
  <1>1. PICK t, from, to, p, e : /\ t = g.rows[i].ts /\ from = g.rows[j].ts /\ to = g.rows[l].ts
                                 /\ p = g.purge /\ e = g.embargo
    OBVIOUS
  <1>2. t \in Int /\ from \in Int /\ to \in Int /\ p \in Int /\ e \in Int
    BY <1>1, TimeAssumption
  <1>3. GivenUp(g, i, from, to) <=>
          ((from <= t /\ t <= to) \/ (from - p <= t /\ t <= to + p) \/ (to < t /\ t <= to + e))
    BY <1>1 DEF GivenUp
  <1>4. ASSUME NEW x \in T, TooNear(g, i, x) PROVE GivenUp(g, i, from, to)
    <2>1. PICK s : s = g.rows[x].ts
      OBVIOUS
    <2>2. s \in from .. to
      BY <1>1, <2>1
    <2>3. t - s \in -p .. p \/ t - s \in 1 .. e
      BY <1>1, <1>4, <2>1 DEF TooNear
    <2> QED BY <1>2, <1>3, <2>2, <2>3
  <1>5. ASSUME GivenUp(g, i, from, to), ~TooNear(g, i, j), ~TooNear(g, i, l)
        PROVE  from <= t /\ t <= to
    <2>1. t - from \notin -p .. p /\ t - to \notin -p .. p /\ t - to \notin 1 .. e
      BY <1>1, <1>5 DEF TooNear
    <2> QED BY <1>2, <1>3, <1>5, <2>1
  <1> QED BY <1>1, <1>4, <1>5

\* A place of a fold where a row is tested.
Tested(cs, k, x, i) == k \in 1 .. Len(cs) /\ x \in 1 .. Len(cs[k].test) /\ cs[k].test[x] = i

\* The folds so far test the first rows of the list, each once.
FoldsMade(g, o, cs, c) ==
    /\ \A k \in 1 .. Len(cs) : \E m \in 1 .. Len(o) : \E n \in m .. Len(o) : cs[k] = FoldOf(g, o, m, n)
    /\ \A k, x, i : Tested(cs, k, x, i) => \E p \in 1 .. c : i = o[p]
    /\ \A p \in 1 .. c : \E k, x : Tested(cs, k, x, o[p])
    /\ \A k, l, x, y, i : Tested(cs, k, x, i) /\ Tested(cs, l, y, i) => k = l /\ x = y

\* So they do with one more.
LEMMA FoldAdded ==
    ASSUME NEW g, g.rows \in TimeRows, NEW o, TimeList(o, g), NEW cs, Whole(cs),
           NEW c \in 0 .. Len(o), FoldsMade(g, o, cs, c), NEW d \in (c + 1) .. Len(o),
           NEW ds, ds = Append(cs, FoldOf(g, o, c + 1, d))
    PROVE  FoldsMade(g, o, ds, d)
  <1>1. PICK t, n : t = SubSeq(o, c + 1, d) /\ n = Len(cs)
    OBVIOUS
  <1>2. /\ Len(ds) = n + 1 /\ n \in Nat
        /\ \A k \in 1 .. n : ds[k] = cs[k]
        /\ ds[n + 1] = FoldOf(g, o, c + 1, d)
    BY <1>1, Extended DEF Whole
  <1>3. Len(o) \in Nat /\ o \in Seq(Timely(g.rows)) /\ c \in Nat /\ d \in Nat
    BY DEF TimeList, TimeRows
  <1>4. Len(t) = d - c /\ \A x \in 1 .. Len(t) : t[x] = o[x + c]
    <2>1. Len(t) = d - (c + 1) + 1 /\ \A x \in 1 .. Len(t) : t[x] = o[x + (c + 1) - 1]
      <3>1. c + 1 \in 1 .. Len(o) + 1 /\ d \in 0 .. Len(o) /\ c + 1 <= d
        BY <1>3
      <3> QED BY <1>1, <1>3, <3>1, Stretch
    <2>2. d - (c + 1) + 1 = d - c /\ \A x \in Nat : x + (c + 1) - 1 = x + c
      BY <1>3
    <2>3. \A x \in 1 .. Len(t) : x \in Nat
      BY <1>3, <2>1, <2>2
    <2> QED BY <2>1, <2>2, <2>3
  <1>5. ds[n + 1].test = t
    <2>1. FoldOf(g, o, c + 1, d).test = SubSeq(o, c + 1, d)
      BY TrainedExact
    <2> QED BY <1>1, <1>2, <2>1, Zenon
  <1>6. \A k, x, i : Tested(ds, k, x, i) <=>
           Tested(cs, k, x, i) \/ (k = n + 1 /\ x \in 1 .. (d - c) /\ i = o[x + c])
    <2>1. ASSUME NEW k \in 1 .. n, NEW x, NEW i PROVE Tested(ds, k, x, i) <=> Tested(cs, k, x, i)
      BY <1>1, <1>2, <2>1 DEF Tested
    <2>2. ASSUME NEW x, NEW i PROVE Tested(ds, n + 1, x, i) <=> x \in 1 .. (d - c) /\ i = o[x + c]
      <3>1. n + 1 \in 1 .. Len(ds)
        BY <1>2
      <3> QED BY <1>4, <1>5, <3>1 DEF Tested
    <2>3. ASSUME NEW k, NEW x, NEW i, Tested(ds, k, x, i) PROVE k \in 1 .. n \/ k = n + 1
      BY <1>2, <2>3 DEF Tested
    <2>4. ASSUME NEW k, NEW x, NEW i, Tested(cs, k, x, i) PROVE k \in 1 .. n
      BY <1>1, <2>4 DEF Tested
    <2> QED BY <2>1, <2>2, <2>3, <2>4
  <1>7. \A p, q \in 1 .. Len(o) : o[p] = o[q] => p = q
    <2>1. ASSUME NEW p \in 1 .. Len(o), NEW q \in 1 .. Len(o), o[p] = o[q] PROVE p = q
      <3>1. ~(p < q) /\ ~(q < p)
        BY <2>1 DEF TimeList
      <3> QED BY <1>3, <3>1
    <2> QED BY <2>1
  <1>8. ASSUME NEW k \in 1 .. Len(ds)
        PROVE  \E a \in 1 .. Len(o) : \E b \in a .. Len(o) : ds[k] = FoldOf(g, o, a, b)
    <2>1. CASE k \in 1 .. n
      BY <1>1, <1>2, <2>1 DEF FoldsMade
    <2>2. CASE k = n + 1
      <3>1. c + 1 \in 1 .. Len(o) /\ d \in (c + 1) .. Len(o)
        BY <1>3
      <3> QED BY <1>2, <2>2, <3>1
    <2> QED BY <1>2, <2>1, <2>2
  <1>9. ASSUME NEW k, NEW x, NEW i, Tested(ds, k, x, i) PROVE \E p \in 1 .. d : i = o[p]
    <2>1. CASE Tested(cs, k, x, i)
      <3>1. PICK p \in 1 .. c : i = o[p]
        BY <2>1 DEF FoldsMade
      <3>2. p \in 1 .. d
        BY <1>3
      <3> QED BY <3>1, <3>2
    <2>2. CASE k = n + 1 /\ x \in 1 .. (d - c) /\ i = o[x + c]
      <3>1. x + c \in 1 .. d
        BY <1>3, <2>2
      <3> QED BY <2>2, <3>1
    <2> QED BY <1>6, <1>9, <2>1, <2>2
  <1>10. ASSUME NEW p \in 1 .. d PROVE \E k, x : Tested(ds, k, x, o[p])
    <2>1. CASE p \in 1 .. c
      <3>1. PICK k, x : Tested(cs, k, x, o[p])
        BY <2>1 DEF FoldsMade
      <3> QED BY <1>6, <3>1
    <2>2. CASE p > c
      <3>1. p - c \in 1 .. (d - c) /\ (p - c) + c = p
        BY <1>3, <2>2
      <3>2. Tested(ds, n + 1, p - c, o[p])
        BY <1>6, <3>1
      <3> QED BY <3>2
    <2> QED BY <1>3, <2>1, <2>2
  <1>11. ASSUME NEW k, NEW l, NEW x, NEW y, NEW i, Tested(ds, k, x, i), Tested(ds, l, y, i)
         PROVE  k = l /\ x = y
    <2>1. CASE Tested(cs, k, x, i) /\ Tested(cs, l, y, i)
      BY <2>1 DEF FoldsMade
    <2>2. ASSUME NEW a, NEW b, Tested(cs, a, b, i), NEW z \in 1 .. (d - c), i = o[z + c] PROVE FALSE
      <3>0. Tested(cs, a, b, i)
        BY <2>2
      <3>1. PICK p \in 1 .. c : i = o[p]
        BY <3>0 DEF FoldsMade
      <3>2. p \in 1 .. Len(o) /\ z + c \in 1 .. Len(o) /\ p # z + c
        BY <1>3
      <3> QED BY <1>7, <2>2, <3>1, <3>2
    <2>3. CASE /\ k = n + 1 /\ x \in 1 .. (d - c) /\ i = o[x + c]
               /\ l = n + 1 /\ y \in 1 .. (d - c) /\ i = o[y + c]
      <3>1. x + c \in 1 .. Len(o) /\ y + c \in 1 .. Len(o) /\ (x + c = y + c => x = y)
        BY <1>3, <2>3
      <3> QED BY <1>7, <2>3, <3>1
    <2> QED BY <1>6, <1>11, <2>1, <2>2, <2>3
  <1> QED BY <1>8, <1>9, <1>10, <1>11, Zenon DEF FoldsMade

\* The places of the folds where a row is tested.
Places(cs, rs, i) ==
    {p \in (DOMAIN cs) \X (DOMAIN rs) : p[2] \in DOMAIN cs[p[1]].test /\ cs[p[1]].test[p[2]] = i}

\* When the folds cover the list every row of it is tested in one place, and no other row is.
LEMMA AllTestedOnce ==
    ASSUME NEW g, g.rows \in TimeRows, NEW o, TimeList(o, g), NEW cs, Len(cs) \in Nat,
           DOMAIN cs = 1 .. Len(cs), FoldsMade(g, o, cs, Len(o)), NEW i
    PROVE  Cardinality(Places(cs, g.rows, i)) = IF i \in Timely(g.rows) THEN 1 ELSE 0
  <1>0. PICK P : P = Places(cs, g.rows, i)
    OBVIOUS
  <1>1. P = {p \in (DOMAIN cs) \X (DOMAIN g.rows) :
               p[2] \in DOMAIN cs[p[1]].test /\ cs[p[1]].test[p[2]] = i}
    BY <1>0 DEF Places
  <1>2. Len(o) \in 0 .. Len(g.rows) /\ o \in Seq(Timely(g.rows)) /\ Len(g.rows) \in Nat /\ Len(o) \in Nat
    BY DEF TimeList, TimeRows
  <1>3. ASSUME NEW k \in 1 .. Len(cs)
        PROVE  DOMAIN cs[k].test = 1 .. Len(cs[k].test) /\ 1 .. Len(cs[k].test) \subseteq DOMAIN g.rows
    <2>1. PICK m \in 1 .. Len(o) : \E n \in m .. Len(o) : cs[k] = FoldOf(g, o, m, n)
      BY DEF FoldsMade
    <2>2. PICK n \in m .. Len(o) : cs[k] = FoldOf(g, o, m, n)
      BY <2>1
    <2>3. PICK t : t = SubSeq(o, m, n)
      OBVIOUS
    <2>4. t \in Seq(Timely(g.rows)) /\ Len(t) = n - m + 1
      <3>1. m \in 1 .. Len(o) + 1 /\ n \in 0 .. Len(o) /\ m <= n
        BY <1>2
      <3> QED BY <1>2, <2>3, <3>1, Stretch
    <2>5. cs[k].test = t
      <3>1. FoldOf(g, o, m, n).test = SubSeq(o, m, n)
        BY TrainedExact
      <3> QED BY <2>2, <2>3, <3>1, Zenon
    <2>6. Len(t) \in 0 .. Len(g.rows)
      BY <1>2, <2>4
    <2>7. DOMAIN g.rows = 1 .. Len(g.rows)
      BY DEF TimeRows
    <2>8. DOMAIN t = 1 .. Len(t)
      BY <2>4
    <2> QED BY <1>2, <2>5, <2>6, <2>7, <2>8
  <1>4. ASSUME NEW k, NEW x PROVE Tested(cs, k, x, i) <=> <<k, x>> \in P
    <2>1. ASSUME Tested(cs, k, x, i) PROVE <<k, x>> \in P
      <3>1. k \in 1 .. Len(cs) /\ x \in 1 .. Len(cs[k].test) /\ cs[k].test[x] = i
        BY <2>1 DEF Tested
      <3>2. k \in DOMAIN cs /\ x \in DOMAIN g.rows /\ x \in DOMAIN cs[k].test
        BY <1>3, <3>1
      <3> QED BY <1>1, <3>1, <3>2
    <2>2. ASSUME <<k, x>> \in P PROVE Tested(cs, k, x, i)
      <3>1. k \in 1 .. Len(cs) /\ x \in DOMAIN cs[k].test /\ cs[k].test[x] = i
        BY <1>1, <2>2
      <3> QED BY <1>3, <3>1 DEF Tested
    <2> QED BY <2>1, <2>2
  <1>5. \A p \in P : p = <<p[1], p[2]>>
    BY <1>1
  <1>6. CASE i \in Timely(g.rows)
    <2>1. PICK p \in 1 .. Len(o) : o[p] = i
      BY <1>6 DEF TimeList
    <2>2. PICK k, x : Tested(cs, k, x, i)
      BY <2>1 DEF FoldsMade
    <2>3. ASSUME NEW q \in P PROVE q = <<k, x>>
      <3>1. PICK l, y : l = q[1] /\ y = q[2]
        OBVIOUS
      <3>2. q = <<l, y>> /\ Tested(cs, l, y, i)
        BY <1>4, <1>5, <3>1
      <3>3. l = k /\ y = x
        BY <2>2, <3>2, Zenon DEF FoldsMade
      <3> QED BY <3>2, <3>3
    <2>4. P = {<<k, x>>}
      BY <1>4, <2>2, <2>3
    <2> QED BY <1>0, <1>6, <2>4, FS_Singleton
  <1>7. CASE i \notin Timely(g.rows)
    <2>1. ASSUME NEW q \in P PROVE FALSE
      <3>1. PICK l, y : l = q[1] /\ y = q[2]
        OBVIOUS
      <3>2. Tested(cs, l, y, i)
        BY <1>4, <1>5, <3>1
      <3>3. PICK p \in 1 .. Len(o) : i = o[p]
        BY <3>2 DEF FoldsMade
      <3> QED BY <1>7, <3>3 DEF TimeList
    <2>2. P = {}
      BY <2>1
    <2> QED BY <1>0, <1>7, <2>2, FS_EmptySet
  <1> QED BY <1>6, <1>7

\* In a list by time what is between two places is between their times.
LEMMA TimesBetween ==
    ASSUME NEW g, NEW o, TimeList(o, g), Len(g.rows) \in Nat, NEW m \in 1 .. Len(o), NEW n \in m .. Len(o)
    PROVE  /\ Len(o) \in Nat /\ o[m] \in Timely(g.rows) /\ o[n] \in Timely(g.rows)
           /\ \A k \in m .. n : /\ o[k] \in Timely(g.rows)
                                /\ g.rows[o[k]].ts \in g.rows[o[m]].ts .. g.rows[o[n]].ts
  <1>1. Len(o) \in Nat
    BY DEF TimeList
  <1>2. \A k \in 1 .. Len(o) : o[k] \in Timely(g.rows) /\ g.rows[o[k]].ts \in Int
    BY DEF TimeList
  <1>3. \A k, l \in 1 .. Len(o) : k < l => g.rows[o[k]].ts <= g.rows[o[l]].ts
    BY DEF TimeList
  <1>4. ASSUME NEW k \in m .. n
        PROVE  o[k] \in Timely(g.rows) /\ g.rows[o[k]].ts \in g.rows[o[m]].ts .. g.rows[o[n]].ts
    <2>1. k \in 1 .. Len(o) /\ m \in 1 .. Len(o) /\ n \in 1 .. Len(o) /\ (m = k \/ m < k) /\ (k = n \/ k < n)
      BY <1>1
    <2>2. PICK x, y, z : x = g.rows[o[m]].ts /\ y = g.rows[o[k]].ts /\ z = g.rows[o[n]].ts
      OBVIOUS
    <2>3. x \in Int /\ y \in Int /\ z \in Int
      BY <1>2, <2>1, <2>2
    <2>4. x <= y
      <3>1. CASE m = k
        BY <2>2, <2>3, <3>1
      <3>2. CASE m < k
        BY <1>3, <2>1, <2>2, <3>2
      <3> QED BY <2>1, <3>1, <3>2
    <2>5. y <= z
      <3>1. CASE k = n
        BY <2>2, <2>3, <3>1
      <3>2. CASE k < n
        BY <1>3, <2>1, <2>2, <3>2
      <3> QED BY <2>1, <3>1, <3>2
    <2> QED BY <1>2, <2>1, <2>2, <2>3, <2>4, <2>5
  <1>5. m \in 1 .. Len(o) /\ n \in 1 .. Len(o)
    BY <1>1
  <1> QED BY <1>1, <1>2, <1>4, <1>5

\* A fold gives up exactly what is too near to what it tests.
LEMMA FoldPurges ==
    ASSUME NEW g \in FoldInputs, NEW o, TimeList(o, g), NEW m \in 1 .. Len(o), NEW n \in m .. Len(o),
           NEW f, f = FoldOf(g, o, m, n), NEW i \in Timely(g.rows)
    PROVE  IF i \in ToSet(f.train) THEN \A j \in ToSet(f.test) : ~TooNear(g, i, j)
           ELSE \/ \E j \in ToSet(f.test) : TooNear(g, i, j)
                \/ \E j, l \in ToSet(f.test) : g.rows[j].ts <= g.rows[i].ts /\ g.rows[i].ts <= g.rows[l].ts
  <1>1. g.rows \in TimeRows /\ Len(g.rows) \in Nat
    BY TimeAssumption DEF TimeRows
  <1>2. PICK T, from, to : T = ToSet(f.test) /\ from = g.rows[o[m]].ts /\ to = g.rows[o[n]].ts
    OBVIOUS
  <1>3. /\ Len(o) \in Nat /\ o \in Seq(Timely(g.rows))
        /\ o[m] \in Timely(g.rows) /\ o[n] \in Timely(g.rows)
        /\ \A k \in m .. n : g.rows[o[k]].ts \in from .. to
    BY <1>1, <1>2, TimesBetween DEF TimeList
  <1>4. T = {o[k] : k \in m .. n}
    <2>1. m \in 1 .. Len(o) + 1 /\ n \in 0 .. Len(o)
      BY <1>3
    <2>2. f.test = SubSeq(o, m, n)
      BY <1>1, TrainedExact
    <2> QED BY <1>2, <1>3, <2>1, <2>2, StretchMembers
  <1>5. o[m] \in T /\ o[n] \in T
    <2>1. m \in m .. n /\ n \in m .. n
      BY <1>3
    <2> QED BY <1>4, <2>1
  <1>6. \A x \in T : g.rows[x].ts \in from .. to
    BY <1>3, <1>4
  <1>7. i \in ToSet(f.train) <=> ~GivenUp(g, i, from, to)
    <2>1. i \in ToSet(FoldOf(g, o, m, n).train) <=>
            i \in Timely(g.rows) /\ ~GivenUp(g, i, g.rows[o[m]].ts, g.rows[o[n]].ts)
      BY <1>1, TrainedExact
    <2> QED BY <1>2, <2>1, Zenon
  <1>8. g.rows[i].ts \in Int /\ from \in Int /\ to \in Int
    BY <1>1, <1>2, <1>3, TimelyRows
  <1>9. /\ ~GivenUp(g, i, from, to) => \A x \in T : ~TooNear(g, i, x)
        /\ GivenUp(g, i, from, to) =>
              \/ \E x \in T : TooNear(g, i, x)
              \/ \E x, y \in T : g.rows[x].ts <= g.rows[i].ts /\ g.rows[i].ts <= g.rows[y].ts
    BY <1>2, <1>5, <1>6, <1>8, GivenUpExact
  <1> QED BY <1>2, <1>7, <1>9

\* Where the tests of a window begin, and where its training rows do.
StartOf(g, k) == g.train + (k - 1) * g.step
FirstOf(g, k) == IF g.expanding THEN 1 ELSE StartOf(g, k) - g.train + 1
WindowOf(g, o, k) ==
    [trainStart |-> g.rows[o[FirstOf(g, k)]].ts, trainEnd |-> g.rows[o[StartOf(g, k)]].ts,
     testStart |-> g.rows[o[StartOf(g, k) + 1]].ts, testEnd |-> g.rows[o[StartOf(g, k) + g.test]].ts]

\* A window begins a step after the one before it, and trains on as many rows as it should.
LEMMA Starts ==
    ASSUME NEW g \in WalkInputs, NEW k \in Nat \ {0}
    PROVE  /\ StartOf(g, 1) = g.train /\ StartOf(g, k + 1) = StartOf(g, k) + g.step
           /\ StartOf(g, k) \in Nat /\ FirstOf(g, k) \in 1 .. StartOf(g, k)
           /\ StartOf(g, k) - FirstOf(g, k) + 1 = g.train + (IF g.expanding THEN (k - 1) * g.step ELSE 0)
           /\ \A j \in 1 .. (k - 1) : StartOf(g, j) \in Nat /\ StartOf(g, j) <= StartOf(g, k)
  <1>1. PICK t, s : t = g.train /\ s = g.step
    OBVIOUS
  <1>2. t \in Nat \ {0} /\ s \in Nat \ {0} /\ g.expanding \in BOOLEAN
    BY <1>1, TimeAssumption
  <1>3. \A j \in Nat \ {0} : (j - 1) * s \in Nat
    BY <1>2
  <1>4. \A j \in Nat \ {0} : StartOf(g, j) = t + (j - 1) * s /\ StartOf(g, j) \in Nat /\ StartOf(g, j) >= t
    BY <1>1, <1>2, <1>3 DEF StartOf
  <1>5. StartOf(g, 1) = t
    <2>1. (1 - 1) * s = 0
      BY <1>2
    <2> QED BY <1>2, <1>4, <2>1
  <1>6. StartOf(g, k + 1) = StartOf(g, k) + s
    <2>1. ((k + 1) - 1) * s = (k - 1) * s + s
      BY <1>2
    <2> QED BY <1>2, <1>3, <1>4, <2>1
  <1>7. FirstOf(g, k) = (IF g.expanding THEN 1 ELSE StartOf(g, k) - t + 1)
    BY <1>1 DEF FirstOf
  <1>8. FirstOf(g, k) \in 1 .. StartOf(g, k)
    BY <1>2, <1>4, <1>7
  <1>9. StartOf(g, k) - FirstOf(g, k) + 1 = t + (IF g.expanding THEN (k - 1) * s ELSE 0)
    <2>1. CASE g.expanding
      BY <1>2, <1>3, <1>4, <1>7, <2>1
    <2>2. CASE ~g.expanding
      BY <1>2, <1>4, <1>7, <2>2
    <2> QED BY <2>1, <2>2
  <1>10. ASSUME NEW j \in 1 .. (k - 1) PROVE StartOf(g, j) \in Nat /\ StartOf(g, j) <= StartOf(g, k)
    <2>1. j \in Nat \ {0} /\ k - j \in Nat
      OBVIOUS
    <2>2. (k - 1) * s = (j - 1) * s + (k - j) * s
      BY <1>2, <2>1
    <2>3. (k - j) * s \in Nat
      BY <1>2, <2>1
    <2> QED BY <1>2, <1>3, <1>4, <2>1, <2>2, <2>3
  <1> QED BY <1>1, <1>4, <1>5, <1>6, <1>8, <1>9, <1>10

\* With distinct times what is from one place's time to another's is what the list has between them.
LEMMA BetweenCount ==
    ASSUME NEW g, NEW o, TimeList(o, g), Len(g.rows) \in Nat,
           \A i, j \in Timely(g.rows) : g.rows[i].ts = g.rows[j].ts => i = j,
           NEW m \in 1 .. Len(o), NEW n \in m .. Len(o)
    PROVE  Cardinality({i \in Timely(g.rows) : g.rows[o[m]].ts <= g.rows[i].ts /\ g.rows[i].ts <= g.rows[o[n]].ts})
             = n - m + 1
  <1>1. PICK W : W = {i \in Timely(g.rows) : g.rows[o[m]].ts <= g.rows[i].ts /\ g.rows[i].ts <= g.rows[o[n]].ts}
    OBVIOUS
  <1>2. /\ Len(o) \in Nat
        /\ \A k \in m .. n : o[k] \in Timely(g.rows) /\ g.rows[o[k]].ts \in g.rows[o[m]].ts .. g.rows[o[n]].ts
    BY TimesBetween
  <1>3. /\ \A k \in 1 .. Len(o) : o[k] \in Timely(g.rows) /\ g.rows[o[k]].ts \in Int
        /\ \A k, l \in 1 .. Len(o) : k < l => o[k] # o[l] /\ g.rows[o[k]].ts <= g.rows[o[l]].ts
        /\ \A i \in Timely(g.rows) : \E k \in 1 .. Len(o) : o[k] = i
    BY DEF TimeList
  <1>4. PICK u : u = [k \in 1 .. Len(o) |-> g.rows[o[k]].ts]
    OBVIOUS
  <1>5. \A k \in 1 .. Len(o) : u[k] = g.rows[o[k]].ts
    BY <1>4
  <1>6. \A k \in 1 .. Len(o) : u[k] \in Int
    BY <1>3, <1>5
  <1>7. ASSUME NEW k \in 1 .. Len(o), NEW l \in 1 .. Len(o), k < l PROVE u[k] < u[l]
    <2>1. u[k] <= u[l]
      <3>1. g.rows[o[k]].ts <= g.rows[o[l]].ts
        BY <1>3, <1>7
      <3> QED BY <1>5, <3>1
    <2>2. u[k] # u[l]
      <3>1. o[k] # o[l] /\ o[k] \in Timely(g.rows) /\ o[l] \in Timely(g.rows)
        BY <1>3, <1>7
      <3>2. g.rows[o[k]].ts # g.rows[o[l]].ts
        BY <3>1
      <3> QED BY <1>5, <3>2
    <2> QED BY <1>6, <2>1, <2>2
  <1>8. m \in 1 .. Len(o) /\ n \in 1 .. Len(o)
    BY <1>2
  <1>9. W = {i \in Timely(g.rows) : u[m] <= g.rows[i].ts /\ g.rows[i].ts <= u[n]}
    <2>1. u[m] = g.rows[o[m]].ts /\ u[n] = g.rows[o[n]].ts
      BY <1>5, <1>8
    <2> QED BY <1>1, <2>1, Zenon
  <1>10. ASSUME NEW k \in m .. n PROVE o[k] \in W
    <2>1. u[m] \in Int /\ u[n] \in Int /\ g.rows[o[k]].ts \in u[m] .. u[n]
      BY <1>2, <1>5, <1>6, <1>8
    <2>2. u[m] <= g.rows[o[k]].ts /\ g.rows[o[k]].ts <= u[n] /\ o[k] \in Timely(g.rows)
      BY <1>2, <2>1
    <2> QED BY <1>9, <2>2
  <1>11. ASSUME NEW i \in W PROVE \E k \in m .. n : o[k] = i
    <2>1. PICK k \in 1 .. Len(o) : o[k] = i
      BY <1>1, <1>3
    <2>2. u[m] <= u[k] /\ u[k] <= u[n]
      BY <1>5, <1>9, <2>1
    <2>3. ~(k < m)
      BY <1>6, <1>7, <1>8, <2>2
    <2>4. ~(n < k)
      BY <1>6, <1>7, <1>8, <2>2
    <2>5. k \in m .. n
      BY <1>2, <2>3, <2>4
    <2> QED BY <2>1, <2>5
  <1>12. PICK f : f = [k \in m .. n |-> o[k]]
    OBVIOUS
  <1>13. f \in Bijection(m .. n, W)
    <2>1. f \in [m .. n -> W] /\ \A k \in m .. n : f[k] = o[k]
      BY <1>10, <1>12
    <2>2. ASSUME NEW k \in m .. n, NEW l \in m .. n, f[k] = f[l] PROVE k = l
      <3>1. k \in 1 .. Len(o) /\ l \in 1 .. Len(o) /\ o[k] = o[l]
        BY <1>2, <2>1, <2>2
      <3>2. ~(k < l) /\ ~(l < k)
        BY <1>3, <3>1
      <3> QED BY <3>1, <3>2
    <2>3. f \in Injection(m .. n, W)
      BY <2>1, <2>2 DEF Injection, IsInjective
    <2>4. f \in Surjection(m .. n, W)
      BY <1>11, <2>1 DEF Surjection
    <2> QED BY <2>3, <2>4 DEF Bijection
  <1>14. IsFiniteSet(m .. n) /\ Cardinality(m .. n) = n - m + 1
    <2>1. m \in Int /\ n \in Int /\ ~(m > n)
      BY <1>2
    <2> QED BY <2>1, FS_Interval
  <1>15. Cardinality(W) = Cardinality(m .. n)
    <2>1. ExistsBijection(m .. n, W)
      BY <1>13 DEF ExistsBijection
    <2> QED BY <1>14, <2>1, FS_Bijection
  <1> QED BY <1>1, <1>14, <1>15

\* What a window says of its times.
LEMMA WindowTimes ==
    ASSUME NEW g, NEW o, NEW k
    PROVE  /\ WindowOf(g, o, k).trainStart = g.rows[o[FirstOf(g, k)]].ts
           /\ WindowOf(g, o, k).trainEnd = g.rows[o[StartOf(g, k)]].ts
           /\ WindowOf(g, o, k).testStart = g.rows[o[StartOf(g, k) + 1]].ts
           /\ WindowOf(g, o, k).testEnd = g.rows[o[StartOf(g, k) + g.test]].ts
  <1>1. PICK a, b, c, d : /\ a = g.rows[o[FirstOf(g, k)]].ts /\ b = g.rows[o[StartOf(g, k)]].ts
                          /\ c = g.rows[o[StartOf(g, k) + 1]].ts /\ d = g.rows[o[StartOf(g, k) + g.test]].ts
    OBVIOUS
  <1>2. PICK win : win = WindowOf(g, o, k)
    OBVIOUS
  <1>3. win = [trainStart |-> a, trainEnd |-> b, testStart |-> c, testEnd |-> d]
    BY <1>1, <1>2 DEF WindowOf
  <1>4. win.trainStart = a /\ win.trainEnd = b /\ win.testStart = c /\ win.testEnd = d
    BY <1>3
  <1> QED BY <1>1, <1>2, <1>4, Zenon

\* The rows known in time that a window's times enclose.
Enclosed(g, from, to) == {i \in Timely(g.rows) : from <= g.rows[i].ts /\ g.rows[i].ts <= to}

\* A window of the list goes forward.
LEMMA WindowForward ==
    ASSUME NEW g \in WalkInputs, NEW o, TimeList(o, g), NEW k \in Nat \ {0},
           StartOf(g, k) + g.test <= Len(o), NEW win, win = WindowOf(g, o, k)
    PROVE  /\ win.trainEnd <= win.testStart
           /\ \A j \in 1 .. (k - 1) : WindowOf(g, o, j).testStart <= win.testStart
           /\ (\A i, j \in Timely(g.rows) : g.rows[i].ts = g.rows[j].ts => i = j) =>
                 /\ win.trainEnd < win.testStart
                 /\ Cardinality(Enclosed(g, win.testStart, win.testEnd)) = g.test
                 /\ Cardinality(Enclosed(g, win.trainStart, win.trainEnd))
                      = g.train + (IF g.expanding THEN (k - 1) * g.step ELSE 0)
  <1>1. g.test \in Nat \ {0} /\ Len(g.rows) \in Nat
    BY TimeAssumption
  <1>2. PICK s, f, n : s = StartOf(g, k) /\ f = FirstOf(g, k) /\ n = Len(o)
    OBVIOUS
  <1>3. /\ s \in Nat /\ f \in 1 .. s
        /\ s - f + 1 = g.train + (IF g.expanding THEN (k - 1) * g.step ELSE 0)
        /\ \A j \in 1 .. (k - 1) : StartOf(g, j) \in Nat /\ StartOf(g, j) <= s
    BY <1>2, Starts
  <1>4. PICK u : u = [p \in 1 .. n |-> g.rows[o[p]].ts]
    OBVIOUS
  <1>5. /\ n \in Nat
        /\ \A p \in 1 .. n : u[p] = g.rows[o[p]].ts /\ u[p] \in Int /\ o[p] \in Timely(g.rows)
        /\ \A p, q \in 1 .. n : p < q => o[p] # o[q] /\ u[p] <= u[q]
    <2>1. /\ n \in Nat
          /\ \A p \in 1 .. n : o[p] \in Timely(g.rows) /\ g.rows[o[p]].ts \in Int
          /\ \A p, q \in 1 .. n : p < q => o[p] # o[q] /\ g.rows[o[p]].ts <= g.rows[o[q]].ts
      BY <1>1, <1>2 DEF TimeList
    <2>2. \A p \in 1 .. n : u[p] = g.rows[o[p]].ts
      BY <1>4
    <2>3. \A p \in 1 .. n : u[p] \in Int
      BY <2>1, <2>2
    <2>4. ASSUME NEW p \in 1 .. n, NEW q \in 1 .. n, p < q PROVE u[p] <= u[q]
      BY <2>1, <2>2, <2>4
    <2> QED BY <2>1, <2>2, <2>3, <2>4
  <1>6. /\ f \in 1 .. n /\ s \in 1 .. n /\ s + 1 \in 1 .. n /\ s + g.test \in 1 .. n
        /\ s \in f .. n /\ s + g.test \in (s + 1) .. n /\ s < s + 1
    <2>1. PICK t : t = g.test
      OBVIOUS
    <2>2. t \in Nat \ {0} /\ s + t <= n /\ s \in Nat /\ f \in 1 .. s /\ n \in Nat
      BY <1>1, <1>2, <1>3, <1>5, <2>1
    <2>3. /\ f \in 1 .. n /\ s \in 1 .. n /\ s + 1 \in 1 .. n /\ s + t \in 1 .. n
          /\ s \in f .. n /\ s + t \in (s + 1) .. n /\ s < s + 1
      BY <2>2
    <2> QED BY <2>1, <2>3
  <1>7. win.trainStart = u[f] /\ win.trainEnd = u[s] /\ win.testStart = u[s + 1] /\ win.testEnd = u[s + g.test]
    <2>1. /\ win.trainStart = g.rows[o[f]].ts /\ win.trainEnd = g.rows[o[s]].ts
          /\ win.testStart = g.rows[o[s + 1]].ts /\ win.testEnd = g.rows[o[s + g.test]].ts
      BY <1>2, WindowTimes
    <2> QED BY <1>5, <1>6, <2>1, Zenon
  <1>8. u[s] <= u[s + 1]
    BY <1>5, <1>6
  <1>9. ASSUME NEW j \in 1 .. (k - 1) PROVE WindowOf(g, o, j).testStart <= win.testStart
    <2>1. PICK t : t = StartOf(g, j)
      OBVIOUS
    <2>2. t \in Nat /\ t <= s
      BY <1>3, <2>1
    <2>3. t + 1 \in 1 .. n /\ (t + 1 = s + 1 \/ t + 1 < s + 1)
      BY <1>3, <1>5, <1>6, <2>2
    <2>4. WindowOf(g, o, j).testStart = u[t + 1]
      <3>1. WindowOf(g, o, j).testStart = g.rows[o[t + 1]].ts
        BY <2>1, WindowTimes
      <3> QED BY <1>5, <2>3, <3>1, Zenon
    <2>5. u[t + 1] <= u[s + 1]
      <3>1. CASE t + 1 = s + 1
        BY <1>5, <1>6, <3>1
      <3>2. CASE t + 1 < s + 1
        BY <1>5, <1>6, <2>3, <3>2
      <3> QED BY <2>3, <3>1, <3>2
    <2> QED BY <1>7, <2>4, <2>5
  <1>10. ASSUME \A i, j \in Timely(g.rows) : g.rows[i].ts = g.rows[j].ts => i = j
         PROVE  /\ u[s] < u[s + 1]
                /\ Cardinality(Enclosed(g, u[s + 1], u[s + g.test])) = g.test
                /\ Cardinality(Enclosed(g, u[f], u[s])) = s - f + 1
    <2>1. u[s] < u[s + 1]
      <3>1. u[s] # u[s + 1]
        BY <1>5, <1>6, <1>10
      <3> QED BY <1>5, <1>6, <1>8, <3>1
    <2>2. ASSUME NEW p \in 1 .. n, NEW q \in p .. n PROVE Cardinality(Enclosed(g, u[p], u[q])) = q - p + 1
      <3>1. q \in 1 .. n
        BY <1>5
      <3>2. u[p] = g.rows[o[p]].ts /\ u[q] = g.rows[o[q]].ts
        BY <1>5, <3>1
      <3>3. Cardinality(Enclosed(g, g.rows[o[p]].ts, g.rows[o[q]].ts)) = q - p + 1
        BY <1>1, <1>2, <1>10, BetweenCount DEF Enclosed
      <3> QED BY <3>2, <3>3, Zenon
    <2>3. Cardinality(Enclosed(g, u[s + 1], u[s + g.test])) = (s + g.test) - (s + 1) + 1
      BY <1>6, <2>2
    <2>4. (s + g.test) - (s + 1) + 1 = g.test
      BY <1>1, <1>3
    <2>5. Cardinality(Enclosed(g, u[f], u[s])) = s - f + 1
      BY <1>6, <2>2
    <2> QED BY <2>1, <2>3, <2>4, <2>5
  <1> QED BY <1>3, <1>7, <1>8, <1>9, <1>10

\* The list of the model is the sorted list of its input.
LEMMA OrderedIsSorted ==
    /\ Ordered = InTime(given) /\ Count = Len(InTime(given))
    /\ \A from, to : Trained(from, to) = Listed({i \in Timely(given.rows) : ~GivenUp(given, i, from, to)}, TimeOf(given))
  <1>1. TimeKey = TimeOf(given)
    BY DEF TimeKey, TimeOf, Time
  <1>2. Ordered = InTime(given)
    BY <1>1 DEF Ordered, InTime
  <1>3. ASSUME NEW from, NEW to
        PROVE  Trained(from, to) = Listed({i \in Timely(given.rows) : ~GivenUp(given, i, from, to)}, TimeOf(given))
    <2>1. \A i : Purged(i, from, to) <=> GivenUp(given, i, from, to)
      BY DEF Purged, GivenUp, Time
    <2>2. {i \in Timely(given.rows) : ~Purged(i, from, to)} = {i \in Timely(given.rows) : ~GivenUp(given, i, from, to)}
      BY <2>1
    <2> QED BY <1>1, <2>2 DEF Trained
  <1>4. Count = Len(InTime(given))
    BY <1>2 DEF Count
  <1> QED BY <1>2, <1>3, <1>4

\* A test part is what the cover grows by.
LEMMA TestPartIs ==
    ASSUME NEW g \in FoldInputs, given = g, NEW o, o = InTime(g), NEW k \in 0 .. (g.splits - 1),
           NEW n, n = Len(o), NEW c, NEW d, c = Cover(n, g.splits, k), d = Cover(n, g.splits, k + 1)
    PROVE  /\ n \in Nat /\ c \in 0 .. n /\ d \in c .. n
           /\ c = d => TestPart(k) = <<>>
           /\ c # d => TestPart(k) = SubSeq(o, c + 1, d)
  <1>1. TimeList(o, g) /\ g.splits \in Nat \ {0}
    BY TimeAssumption, InTimeSorted DEF TimeRows
  <1>2. n \in Nat /\ o \in Seq(Timely(g.rows))
    <2>1. Len(g.rows) \in Nat
      BY TimeAssumption
    <2> QED BY <1>1, <2>1 DEF TimeList
  <1>3. PICK size, end : Covered(n, g.splits, k, size, end, c, d)
    BY <1>1, <1>2, CoverGrows
  <1>4. PICK a : a = k * size /\ a \in Nat /\ c = Least(a, n) /\ c \in 0 .. n /\ d \in c .. n
    BY <1>3 DEF Covered
  <1>5. TestPart(k) = SubSeq(o, a + 1, d)
    <2>1. Ordered = o /\ Count = n
      BY OrderedIsSorted
    <2>2. FoldSize = size
      BY <1>3, <2>1 DEF FoldSize, SizeOf, Covered
    <2>3. end = IF k = g.splits - 1 THEN n ELSE k * size + size
      BY <1>3 DEF Covered
    <2>4. d = IF end < n THEN end ELSE n
      BY <1>3 DEF Covered
    <2> QED BY <1>4, <2>1, <2>2, <2>3, <2>4 DEF TestPart
  <1>6. CASE c = a
    <2>1. ASSUME c = d PROVE TestPart(k) = <<>>
      <3>1. a + 1 \in 1 .. Len(o) + 1 /\ d \in 0 .. Len(o) /\ ~(a + 1 <= d)
        BY <1>2, <1>4, <1>6, <2>1
      <3>2. Len(SubSeq(o, a + 1, d)) = 0 /\ SubSeq(o, a + 1, d) \in Seq(Timely(g.rows))
        BY <1>2, <3>1, Stretch
      <3> QED BY <1>5, <3>2
    <2>2. TestPart(k) = SubSeq(o, c + 1, d)
      BY <1>5, <1>6
    <2> QED BY <1>2, <1>4, <2>1, <2>2
  <1>7. CASE c # a
    <2>1. c = n /\ d = n /\ n < a
      BY <1>2, <1>4, <1>7 DEF Least
    <2>2. SubSeq(o, a + 1, d) = <<>>
      BY <1>2, <1>4, <2>1
    <2> QED BY <1>2, <1>5, <2>1, <2>2
  <1> QED BY <1>2, <1>4, <1>6, <1>7

\* A turn of the folds adds the fold from where the cover is to where it grows to.
LEMMA FoldTurns ==
    ASSUME NEW g \in FoldInputs, given = g, NEW o, o = InTime(g), NEW k \in 0 .. (g.splits - 1), at = k,
           NEW n, n = Len(o), NEW c, NEW d, c = Cover(n, g.splits, k), d = Cover(n, g.splits, k + 1), Fold
    PROVE  cuts' = IF c = d THEN cuts ELSE Append(cuts, FoldOf(g, o, c + 1, d))
  <1>1. /\ n \in Nat /\ c \in 0 .. n /\ d \in c .. n
        /\ c = d => TestPart(k) = <<>>
        /\ c # d => TestPart(k) = SubSeq(o, c + 1, d)
    BY TestPartIs
  <1>2. CASE c = d
    BY <1>1, <1>2 DEF Fold
  <1>3. CASE c # d
    <2>1. PICK t : t = TestPart(k)
      OBVIOUS
    <2>2. c + 1 \in 1 .. Len(o) /\ d \in (c + 1) .. Len(o)
      BY <1>1, <1>3
    <2>3. TimeList(o, g)
      BY TimeAssumption, InTimeSorted DEF TimeRows
    <2>4. t # <<>> /\ Head(t) = o[c + 1] /\ Last(t) = o[d] /\ t = SubSeq(o, c + 1, d)
      <3>1. o \in Seq(Timely(g.rows))
        BY <2>3 DEF TimeList
      <3>2. t = SubSeq(o, c + 1, d)
        BY <1>1, <1>3, <2>1
      <3> QED BY <2>2, <3>1, <3>2, StretchEnds
    <2>5. cuts' = Append(cuts, [test |-> t, train |-> Trained(Time(Head(t)), Time(Last(t)))])
      BY <2>1, <2>4 DEF Fold
    <2>6. Trained(Time(Head(t)), Time(Last(t)))
             = Listed({i \in Timely(g.rows) : ~GivenUp(g, i, g.rows[o[c + 1]].ts, g.rows[o[d]].ts)}, TimeOf(g))
      <3>1. Time(Head(t)) = g.rows[o[c + 1]].ts /\ Time(Last(t)) = g.rows[o[d]].ts
        BY <2>4 DEF Time
      <3> QED BY <3>1, OrderedIsSorted
    <2>7. [test |-> t, train |-> Trained(Time(Head(t)), Time(Last(t)))] = FoldOf(g, o, c + 1, d)
      BY <2>4, <2>6 DEF FoldOf
    <2> QED BY <1>3, <2>5, <2>7
  <1> QED BY <1>2, <1>3

\* A turn of the walk adds the next window.
LEMMA WalkTurns ==
    ASSUME NEW g \in WalkInputs, given = g, NEW o, o = InTime(g), NEW k \in Nat \ {0}, at = StartOf(g, k), Walk
    PROVE  /\ StartOf(g, k) + g.test <= Len(o)
           /\ cuts' = Append(cuts, WindowOf(g, o, k))
           /\ at' = StartOf(g, k + 1)
  <1>1. g.rows \in TimeRows /\ g.test \in Nat \ {0} /\ g.expanding \in BOOLEAN /\ Len(g.rows) \in Nat
    BY TimeAssumption DEF TimeRows
  <1>2. PICK s, f, n : s = StartOf(g, k) /\ f = FirstOf(g, k) /\ n = Len(o)
    OBVIOUS
  <1>3. s \in Nat /\ f \in 1 .. s /\ StartOf(g, k + 1) = s + g.step
    BY <1>2, Starts
  <1>4. TimeList(o, g)
    BY <1>1, InTimeSorted
  <1>5. n \in Nat /\ o \in Seq(Timely(g.rows))
    BY <1>1, <1>2, <1>4 DEF TimeList
  <1>6. Ordered = o /\ Count = n
    BY <1>2, OrderedIsSorted
  <1>7. s + g.test <= n
    BY <1>2, <1>6 DEF Walk
  <1>8. /\ f \in 1 .. n /\ s \in f .. n /\ s + 1 \in 1 .. n /\ s + g.test \in (s + 1) .. n
    <2>1. PICK t : t = g.test
      OBVIOUS
    <2> QED BY <1>1, <1>3, <1>5, <1>7, <2>1
  <1>9. PICK a, b : a = SubSeq(o, f, s) /\ b = SubSeq(o, s + 1, s + g.test)
    OBVIOUS
  <1>10. TrainSlice = a
    <2>1. f = IF g.expanding THEN 1 ELSE s - g.train + 1
      BY <1>2 DEF FirstOf
    <2> QED BY <1>2, <1>6, <1>9, <2>1 DEF TrainSlice
  <1>11. Head(a) = o[f] /\ Last(a) = o[s]
    BY <1>2, <1>5, <1>8, <1>9, StretchEnds
  <1>12. Head(b) = o[s + 1] /\ Last(b) = o[s + g.test]
    BY <1>2, <1>5, <1>8, <1>9, StretchEnds
  <1>13. cuts' = Append(cuts, [trainStart |-> Time(Head(a)), trainEnd |-> Time(Last(a)),
                               testStart |-> Time(Head(b)), testEnd |-> Time(Last(b))])
    BY <1>2, <1>6, <1>9, <1>10 DEF Walk
  <1>14. [trainStart |-> Time(Head(a)), trainEnd |-> Time(Last(a)),
          testStart |-> Time(Head(b)), testEnd |-> Time(Last(b))] = WindowOf(g, o, k)
    <2>1. /\ Time(Head(a)) = g.rows[o[f]].ts /\ Time(Last(a)) = g.rows[o[s]].ts
          /\ Time(Head(b)) = g.rows[o[s + 1]].ts /\ Time(Last(b)) = g.rows[o[s + g.test]].ts
      BY <1>11, <1>12 DEF Time
    <2> QED BY <1>2, <2>1 DEF WindowOf
  <1>15. at' = s + g.step
    BY <1>2 DEF Walk
  <1> QED BY <1>2, <1>3, <1>7, <1>13, <1>14, <1>15

-----------------------------------------------------------------------------
(* The inductive invariant. *)

\* A process holds the deal of the request or nothing.
DealsHeld(g, p, b) ==
    \A w \in SplitWorkers : b[w].status = "ok" => PartsExact(b[w].splits, RowsOf(g), Dealt(g, p))

\* The windows so far are those of the list.
WindowsMade(g, o, cs) ==
    \A k \in 1 .. Len(cs) : StartOf(g, k) + g.test <= Len(o) /\ cs[k] = WindowOf(g, o, k)

\* By entity: what was materialized is the one deal of the seed.  By time: the folds
\* so far test the covered rows once each, the windows so far are those of the list.
SplitInv ==
    /\ work \in {"materialize", "folds", "walk"}
    /\ bundle = [w \in SplitWorkers |-> bundle[w]]
    /\ Whole(cuts)
    /\ work = "materialize" => /\ given \in Intents /\ shuffle \in Shuffles
                               /\ hashOrder \in [SplitWorkers -> HashOrders]
                               /\ DealsHeld(given, shuffle, bundle)
    /\ work # "materialize" => \A w \in SplitWorkers : bundle[w] = Pending
    /\ work = "folds" => /\ given \in FoldInputs /\ at \in 0 .. given.splits
                         /\ FoldsMade(given, InTime(given), cuts, Cover(Len(InTime(given)), given.splits, at))
    /\ work = "walk" => /\ given \in WalkInputs /\ at = StartOf(given, Len(cuts) + 1)
                        /\ WindowsMade(given, InTime(given), cuts)

\* Nothing is made at the start.
LEMMA SplitInvInit == SplitInit => SplitInv
  <1> SUFFICES ASSUME SplitInit PROVE SplitInv
    OBVIOUS
  <1>1. /\ bundle = [w \in SplitWorkers |-> Pending] /\ cuts = <<>>
        /\ work \in {"materialize", "folds", "walk"}
    BY DEF SplitInit
  <1>2. Len(cuts) = 0 /\ Whole(cuts)
    BY <1>1 DEF Whole
  <1>3. bundle = [w \in SplitWorkers |-> bundle[w]] /\ \A w \in SplitWorkers : bundle[w] = Pending
    BY <1>1
  <1>4. CASE work = "materialize"
    <2>1. given \in Intents /\ shuffle \in Shuffles /\ hashOrder \in [SplitWorkers -> HashOrders]
      BY <1>4 DEF SplitInit
    <2>2. DealsHeld(given, shuffle, bundle)
      <3>1. \A w \in SplitWorkers : bundle[w].status # "ok"
        BY <1>3 DEF Pending
      <3> QED BY <3>1 DEF DealsHeld
    <2> QED BY <1>2, <1>3, <1>4, <2>1, <2>2 DEF SplitInv
  <1>5. CASE work = "folds"
    <2>1. given \in FoldInputs /\ at = 0
      BY <1>5 DEF SplitInit
    <2>2. PICK n, splits : n = Len(InTime(given)) /\ splits = given.splits
      OBVIOUS
    <2>3. splits \in Nat \ {0} /\ n \in Nat
      <3>1. TimeList(InTime(given), given) /\ Len(given.rows) \in Nat
        BY <2>1, TimeAssumption, InTimeSorted DEF TimeRows
      <3> QED BY <2>1, <2>2, <3>1, TimeAssumption DEF TimeList
    <2>4. Cover(n, splits, 0) = 0
      <3>1. PICK size : size = SizeOf(n, splits)
        OBVIOUS
      <3>2. size \in Nat
        <4>1. n \div splits \in Nat
          BY <2>3
        <4> QED BY <3>1, <4>1 DEF SizeOf
      <3>3. 0 * size = 0
        BY <3>2
      <3> QED BY <2>3, <3>1, <3>3 DEF Cover, Least
    <2>5. FoldsMade(given, InTime(given), cuts, 0)
      <3>1. \A k, x, i : ~Tested(cuts, k, x, i)
        BY <1>2 DEF Tested
      <3>2. 1 .. Len(cuts) = {} /\ 1 .. 0 = {}
        BY <1>2
      <3> QED BY <3>1, <3>2 DEF FoldsMade
    <2>6. at \in 0 .. given.splits
      BY <2>1, <2>2, <2>3
    <2>7. FoldsMade(given, InTime(given), cuts, Cover(Len(InTime(given)), given.splits, at))
      BY <2>1, <2>2, <2>4, <2>5
    <2> QED BY <1>2, <1>3, <1>5, <2>1, <2>6, <2>7 DEF SplitInv
  <1>6. CASE work = "walk"
    <2>1. given \in WalkInputs /\ at = given.train
      BY <1>6 DEF SplitInit
    <2>2. at = StartOf(given, Len(cuts) + 1)
      BY <1>2, <2>1, Starts
    <2>3. WindowsMade(given, InTime(given), cuts)
      BY <1>2 DEF WindowsMade
    <2> QED BY <1>2, <1>3, <1>6, <2>1, <2>2, <2>3 DEF SplitInv
  <1> QED BY <1>1, <1>4, <1>5, <1>6

\* Every step keeps it.
LEMMA SplitInvStep == SplitInv /\ [SplitNext]_splitVars => SplitInv'
  <1> SUFFICES ASSUME SplitInv, [SplitNext]_splitVars PROVE SplitInv'
    OBVIOUS
  <1>1. PICK g, p, o : g = given /\ p = shuffle /\ o = InTime(g)
    OBVIOUS
  <1>2. /\ work \in {"materialize", "folds", "walk"}
        /\ bundle = [w \in SplitWorkers |-> bundle[w]]
        /\ Whole(cuts)
    BY DEF SplitInv
  <1>3. ASSUME NEW w \in SplitWorkers, Materialize(w) PROVE SplitInv'
    <2>1. /\ work = "materialize" /\ given \in Intents /\ shuffle \in Shuffles
          /\ hashOrder \in [SplitWorkers -> HashOrders] /\ DealsHeld(g, p, bundle)
      BY <1>1, <1>3 DEF SplitInv, Materialize
    <2>2. /\ UNCHANGED <<work, given, shuffle, hashOrder, at, cuts>>
          /\ \A i \in DOMAIN RowsOf(given) : RowsOf(given)[i].entity # NoEntity
      BY <1>3 DEF Materialize
    <2>3. PICK s, name : s = Split(given, w) /\ name = ProfileName(given)
      OBVIOUS
    <2>4. bundle' = [bundle EXCEPT ![w] = [status |-> "ok", profile |-> name, splits |-> s]]
      BY <1>3, <2>3 DEF Materialize
    <2>5. /\ bundle' = [v \in SplitWorkers |-> bundle'[v]]
          /\ bundle'[w] = [status |-> "ok", profile |-> name, splits |-> s]
          /\ \A v \in SplitWorkers \ {w} : bundle'[v] = bundle[v]
      BY <1>2, <2>4
    <2>6. bundle'[w].splits = s
      BY <2>5
    <2>7. PartsExact(s, RowsOf(g), Dealt(g, p))
      <3>1. hashOrder[w] \in HashOrders
        BY <2>1
      <3> QED BY <1>1, <2>1, <2>2, <2>3, <3>1, SplitExact
    <2>8. DealsHeld(g, p, bundle')
      <3>1. ASSUME NEW v \in SplitWorkers, bundle'[v].status = "ok"
            PROVE  PartsExact(bundle'[v].splits, RowsOf(g), Dealt(g, p))
        <4>1. CASE v = w
          BY <2>6, <2>7, <4>1
        <4>2. CASE v # w
          BY <2>1, <2>5, <3>1, <4>2 DEF DealsHeld
        <4> QED BY <4>1, <4>2
      <3> QED BY <3>1 DEF DealsHeld
    <2>9. DealsHeld(given', shuffle', bundle')
      BY <1>1, <2>2, <2>8
    <2> QED BY <1>2, <2>1, <2>2, <2>5, <2>9 DEF SplitInv
  <1>4. ASSUME NEW w \in SplitWorkers, RefuseRows(w) PROVE SplitInv'
    <2>1. /\ work = "materialize" /\ given \in Intents /\ shuffle \in Shuffles
          /\ hashOrder \in [SplitWorkers -> HashOrders] /\ DealsHeld(g, p, bundle)
      BY <1>1, <1>4 DEF SplitInv, RefuseRows
    <2>2. /\ UNCHANGED <<work, given, shuffle, hashOrder, at, cuts>>
          /\ bundle' = [bundle EXCEPT ![w] = [status |-> "refused"]]
      BY <1>4 DEF RefuseRows
    <2>3. /\ bundle' = [v \in SplitWorkers |-> bundle'[v]]
          /\ bundle'[w] = [status |-> "refused"]
          /\ \A v \in SplitWorkers \ {w} : bundle'[v] = bundle[v]
      BY <1>2, <2>2
    <2>4. bundle'[w].status # "ok"
      BY <2>3
    <2>5. DealsHeld(g, p, bundle')
      <3>1. ASSUME NEW v \in SplitWorkers, bundle'[v].status = "ok"
            PROVE  PartsExact(bundle'[v].splits, RowsOf(g), Dealt(g, p))
        <4>1. v # w
          BY <2>4, <3>1
        <4> QED BY <2>1, <2>3, <3>1, <4>1 DEF DealsHeld
      <3> QED BY <3>1 DEF DealsHeld
    <2>6. DealsHeld(given', shuffle', bundle')
      BY <1>1, <2>2, <2>5
    <2> QED BY <1>2, <2>1, <2>2, <2>3, <2>6 DEF SplitInv
  <1>5. ASSUME Fold PROVE SplitInv'
    <2>1. /\ work = "folds" /\ g \in FoldInputs /\ at \in 0 .. g.splits /\ at < g.splits
          /\ FoldsMade(g, o, cuts, Cover(Len(o), g.splits, at))
          /\ \A w \in SplitWorkers : bundle[w] = Pending
      BY <1>1, <1>5 DEF SplitInv, Fold
    <2>2. at' = at + 1 /\ UNCHANGED <<work, given, shuffle, hashOrder, bundle>>
      BY <1>5 DEF Fold
    <2>3. g.splits \in Nat \ {0} /\ g.rows \in TimeRows /\ TimeList(o, g)
      BY <1>1, <2>1, TimeAssumption, InTimeSorted DEF TimeRows
    <2>4. PICK k, n, c, d : /\ k = at /\ n = Len(o)
                            /\ c = Cover(n, g.splits, k) /\ d = Cover(n, g.splits, k + 1)
      OBVIOUS
    <2>5. k \in 0 .. (g.splits - 1) /\ k + 1 \in 0 .. g.splits
      BY <2>1, <2>3, <2>4
    <2>6. n \in Nat /\ c \in 0 .. n /\ d \in c .. n
      BY <1>1, <2>1, <2>4, <2>5, TestPartIs
    <2>7. cuts' = IF c = d THEN cuts ELSE Append(cuts, FoldOf(g, o, c + 1, d))
      BY <1>1, <1>5, <2>1, <2>4, <2>5, FoldTurns
    <2>8. FoldsMade(g, o, cuts, c)
      BY <2>1, <2>4
    <2>9. Whole(cuts') /\ FoldsMade(g, o, cuts', d)
      <3>1. CASE c = d
        BY <1>2, <2>7, <2>8, <3>1
      <3>2. CASE c # d
        <4>1. PICK cs, ds : cs = cuts /\ ds = cuts'
          OBVIOUS
        <4>2. Whole(cs)
          BY <1>2, <4>1
        <4>3. ds = Append(cs, FoldOf(g, o, c + 1, d))
          BY <2>7, <3>2, <4>1
        <4>4. Whole(ds)
          BY <4>2, <4>3, Extended
        <4>5. c \in 0 .. Len(o) /\ d \in (c + 1) .. Len(o) /\ FoldsMade(g, o, cs, c)
          BY <2>4, <2>6, <2>8, <3>2, <4>1
        <4>6. FoldsMade(g, o, ds, d)
          BY <2>3, <4>2, <4>3, <4>5, FoldAdded
        <4> QED BY <4>1, <4>4, <4>6
      <3> QED BY <3>1, <3>2
    <2>10. /\ given' = g /\ at' \in 0 .. given'.splits
           /\ FoldsMade(given', InTime(given'), cuts', Cover(Len(InTime(given')), given'.splits, at'))
      <3>1. given' = g /\ at' = k + 1 /\ InTime(given') = o
        BY <1>1, <2>2, <2>4
      <3> QED BY <2>4, <2>5, <2>9, <3>1
    <2> QED BY <1>2, <2>1, <2>2, <2>9, <2>10 DEF SplitInv
  <1>6. ASSUME Walk PROVE SplitInv'
    <2>1. /\ work = "walk" /\ g \in WalkInputs /\ at = StartOf(g, Len(cuts) + 1)
          /\ WindowsMade(g, o, cuts) /\ \A w \in SplitWorkers : bundle[w] = Pending
      BY <1>1, <1>6 DEF SplitInv, Walk
    <2>2. UNCHANGED <<work, given, shuffle, hashOrder, bundle>>
      BY <1>6 DEF Walk
    <2>3. PICK k, cs, ds : k = Len(cuts) + 1 /\ cs = cuts /\ ds = cuts'
      OBVIOUS
    <2>4. k \in Nat \ {0} /\ Len(cs) = k - 1 /\ Whole(cs)
      BY <1>2, <2>3
    <2>5. /\ StartOf(g, k) + g.test <= Len(o)
          /\ ds = Append(cs, WindowOf(g, o, k))
          /\ at' = StartOf(g, k + 1)
      BY <1>1, <1>6, <2>1, <2>3, <2>4, WalkTurns
    <2>6. /\ Len(ds) = Len(cs) + 1 /\ Whole(ds)
          /\ \A j \in 1 .. Len(cs) : ds[j] = cs[j]
          /\ ds[Len(cs) + 1] = WindowOf(g, o, k)
      <3>1. PICK win : win = WindowOf(g, o, k)
        OBVIOUS
      <3>2. ds = Append(cs, win) /\ Whole(cs)
        BY <2>4, <2>5, <3>1
      <3>3. Len(ds) = Len(cs) + 1 /\ Whole(ds)
        BY <3>2, Extended
      <3>4. \A j \in 1 .. Len(cs) : ds[j] = cs[j]
        BY <3>2, Extended
      <3>5. ds[Len(cs) + 1] = win
        BY <3>2, Extended
      <3> QED BY <3>1, <3>3, <3>4, <3>5
    <2>7. Len(ds) = k /\ ds[k] = WindowOf(g, o, k)
      <3>1. Len(cs) + 1 = k
        BY <2>4
      <3> QED BY <2>6, <3>1
    <2>8. WindowsMade(g, o, ds)
      <3>1. ASSUME NEW j \in 1 .. Len(ds)
            PROVE  StartOf(g, j) + g.test <= Len(o) /\ ds[j] = WindowOf(g, o, j)
        <4>1. CASE j = k
          BY <2>5, <2>7, <4>1
        <4>2. CASE j # k
          <5>1. j \in 1 .. Len(cs)
            BY <2>4, <2>7, <4>2
          <5> QED BY <2>1, <2>3, <2>6, <5>1 DEF WindowsMade
        <4> QED BY <4>1, <4>2
      <3> QED BY <3>1 DEF WindowsMade
    <2>9. /\ given' = g /\ at' = StartOf(given', Len(cuts') + 1)
          /\ WindowsMade(given', InTime(given'), cuts')
      BY <1>1, <2>2, <2>3, <2>5, <2>7, <2>8
    <2>10. Whole(cuts')
      BY <2>3, <2>6
    <2> QED BY <1>2, <2>1, <2>2, <2>9, <2>10 DEF SplitInv
  <1>7. CASE UNCHANGED splitVars
    BY <1>7 DEF SplitInv, splitVars
  <1> QED BY <1>3, <1>4, <1>5, <1>6, <1>7 DEF SplitNext

\* The invariant says that no split leaks.
LEMMA SplitInvSafe == SplitInv => SplitsClean
  <1> SUFFICES ASSUME SplitInv PROVE SplitsClean
    OBVIOUS
  <1>1. PICK g, o, cs : g = given /\ o = InTime(g) /\ cs = cuts
    OBVIOUS
  <1>2. /\ work \in {"materialize", "folds", "walk"} /\ Len(cs) \in Nat /\ DOMAIN cs = 1 .. Len(cs)
        /\ DOMAIN bundle = SplitWorkers
    <2>1. bundle = [w \in SplitWorkers |-> bundle[w]] /\ cs = [k \in 1 .. Len(cs) |-> cs[k]]
      BY <1>1 DEF SplitInv, Whole
    <2> QED BY <1>1, <2>1 DEF SplitInv, Whole
  <1>3. NoEntityInTwoParts /\ SameSeedSameParts
    <2>1. CASE work = "materialize"
      <3>1. given \in Intents /\ shuffle \in Shuffles /\ DealsHeld(given, shuffle, bundle)
        BY <2>1 DEF SplitInv
      <3>2. \A w \in Done : PartsExact(bundle[w].splits, RowsOf(g), Dealt(g, shuffle))
        BY <1>1, <1>2, <3>1 DEF DealsHeld, Done
      <3> QED BY <1>1, <3>1, <3>2, DealsAgree
    <2>2. CASE work # "materialize"
      <3>1. \A w \in SplitWorkers : bundle[w].status # "ok"
        BY <2>2 DEF SplitInv, Pending
      <3>2. Done = {}
        BY <1>2, <3>1 DEF Done
      <3> QED BY <3>2 DEF NoEntityInTwoParts, SameSeedSameParts
    <2> QED BY <2>1, <2>2
  <1>4. ASSUME work = "folds"
        PROVE  /\ g \in FoldInputs /\ g.rows \in TimeRows /\ TimeList(o, g)
               /\ FoldsMade(g, o, cs, Cover(Len(o), g.splits, at))
    <2>1. g \in FoldInputs /\ FoldsMade(g, o, cs, Cover(Len(o), g.splits, at))
      BY <1>1, <1>4 DEF SplitInv
    <2>2. g.rows \in TimeRows
      BY <2>1, TimeAssumption DEF TimeRows
    <2> QED BY <1>1, <2>1, <2>2, InTimeSorted
  <1>5. TestedOnce
    <2>1. ASSUME work = "folds", at = given.splits, NEW i \in DOMAIN given.rows
          PROVE  Cardinality(TestsOf(i)) = (IF i \in Timely(given.rows) THEN 1 ELSE 0)
      <3>1. FoldsMade(g, o, cs, Len(o)) /\ g.rows \in TimeRows /\ TimeList(o, g)
        <4>1. Cover(Len(o), g.splits, at) = Len(o)
          BY <1>1, <2>1 DEF Cover
        <4> QED BY <1>4, <2>1, <4>1
      <3>2. Cardinality(Places(cs, g.rows, i)) = IF i \in Timely(g.rows) THEN 1 ELSE 0
        BY <1>2, <3>1, AllTestedOnce
      <3>3. TestsOf(i) = Places(cs, g.rows, i)
        BY <1>1 DEF TestsOf, Places
      <3> QED BY <1>1, <3>2, <3>3
    <2> QED BY <2>1 DEF TestedOnce
  <1>6. PurgeExact
    <2>1. ASSUME work = "folds", NEW k \in DOMAIN cuts, NEW i \in Timely(given.rows) \ ToSet(cuts[k].test)
          PROVE  IF i \in ToSet(cuts[k].train) THEN \A j \in ToSet(cuts[k].test) : ~Near(i, j)
                 ELSE \/ \E j \in ToSet(cuts[k].test) : Near(i, j)
                      \/ \E j, l \in ToSet(cuts[k].test) : Time(j) <= Time(i) /\ Time(i) <= Time(l)
      <3>1. PICK f : f = cuts[k]
        OBVIOUS
      <3>2. PICK m \in 1 .. Len(o) : \E n \in m .. Len(o) : f = FoldOf(g, o, m, n)
        BY <1>1, <1>2, <1>4, <2>1, <3>1 DEF FoldsMade
      <3>3. PICK n \in m .. Len(o) : f = FoldOf(g, o, m, n)
        BY <3>2
      <3>4. i \in Timely(g.rows) /\ g \in FoldInputs /\ TimeList(o, g)
        BY <1>1, <1>4, <2>1
      <3>5. IF i \in ToSet(f.train) THEN \A j \in ToSet(f.test) : ~TooNear(g, i, j)
            ELSE \/ \E j \in ToSet(f.test) : TooNear(g, i, j)
                 \/ \E j, l \in ToSet(f.test) : g.rows[j].ts <= g.rows[i].ts /\ g.rows[i].ts <= g.rows[l].ts
        BY <3>3, <3>4, FoldPurges
      <3>6. \A j : Near(i, j) <=> TooNear(g, i, j)
        BY <1>1 DEF Near, TooNear, Time
      <3>7. \A j : Time(j) = g.rows[j].ts
        BY <1>1 DEF Time
      <3> QED BY <3>1, <3>5, <3>6, <3>7
    <2> QED BY <2>1 DEF PurgeExact
  <1>7. WindowsForward
    <2>1. ASSUME work = "walk", NEW k \in DOMAIN cuts
          PROVE  /\ cuts[k].trainEnd <= cuts[k].testStart
                 /\ \A j \in 1 .. (k - 1) : cuts[j].testStart <= cuts[k].testStart
                 /\ (\A i, j \in Timely(given.rows) : Time(i) = Time(j) => i = j) =>
                       /\ cuts[k].trainEnd < cuts[k].testStart
                       /\ Cardinality(Within(cuts[k].testStart, cuts[k].testEnd)) = given.test
                       /\ Cardinality(Within(cuts[k].trainStart, cuts[k].trainEnd))
                            = given.train + (IF given.expanding THEN (k - 1) * given.step ELSE 0)
      <3>1. g \in WalkInputs /\ WindowsMade(g, o, cs)
        BY <1>1, <2>1 DEF SplitInv
      <3>2. TimeList(o, g)
        BY <1>1, <3>1, TimeAssumption, InTimeSorted DEF TimeRows
      <3>3. PICK win : win = cuts[k]
        OBVIOUS
      <3>4. k \in 1 .. Len(cs) /\ k \in Nat \ {0}
        BY <1>1, <1>2
      <3>5. StartOf(g, k) + g.test <= Len(o) /\ win = WindowOf(g, o, k)
        BY <1>1, <3>1, <3>3, <3>4 DEF WindowsMade
      <3>6. ASSUME NEW j \in 1 .. (k - 1) PROVE cuts[j] = WindowOf(g, o, j)
        <4>1. j \in 1 .. Len(cs)
          BY <1>2, <3>4
        <4> QED BY <1>1, <3>1, <4>1 DEF WindowsMade
      <3>7. \A from, to : Within(from, to) = Enclosed(g, from, to)
        BY <1>1 DEF Within, Enclosed, Time
      <3>8. win.trainEnd <= win.testStart /\ \A j \in 1 .. (k - 1) : WindowOf(g, o, j).testStart <= win.testStart
        BY <3>1, <3>2, <3>4, <3>5, WindowForward
      <3>9. ASSUME \A i, j \in Timely(given.rows) : Time(i) = Time(j) => i = j
            PROVE  /\ win.trainEnd < win.testStart
                   /\ Cardinality(Enclosed(g, win.testStart, win.testEnd)) = g.test
                   /\ Cardinality(Enclosed(g, win.trainStart, win.trainEnd))
                        = g.train + (IF g.expanding THEN (k - 1) * g.step ELSE 0)
        <4>1. \A i, j \in Timely(g.rows) : g.rows[i].ts = g.rows[j].ts => i = j
          BY <1>1, <3>9 DEF Time
        <4> QED BY <3>1, <3>2, <3>4, <3>5, <4>1, WindowForward
      <3> QED BY <1>1, <3>3, <3>6, <3>7, <3>8, <3>9
    <2> QED BY <2>1 DEF WindowsForward
  <1> QED BY <1>3, <1>5, <1>6, <1>7 DEF SplitsClean

\* No split leaks, for any rows, ratios, hash orders, folds and windows: entities stay in one
\* part, every row is tested once, exactly the rows too near a test are purged, windows go
\* forward, and a seed fixes the parts (splits.py, materializer.py:80-112).
THEOREM SplitsStayClean == SplitSpec => []SplitsClean
  <1>1. SplitInit => SplitInv
    BY SplitInvInit
  <1>2. SplitInv /\ [SplitNext]_splitVars => SplitInv'
    BY SplitInvStep
  <1>3. SplitInv => SplitsClean
    BY SplitInvSafe
  <1> QED BY <1>1, <1>2, <1>3, PTL DEF SplitSpec
=============================================================================
