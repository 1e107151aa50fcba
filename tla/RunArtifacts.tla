---------------------------- MODULE RunArtifacts ----------------------------
(***************************************************************************)
(* The artifacts of runs: the file a research worker leaves for a job, the  *)
(* event that names it, the summary row the control plane keeps of it, and  *)
(* the retention job it runs after each one.  A job can be executed more    *)
(* than once and by either pipeline; an event can be lost, and one that a   *)
(* client posts may name another run, or the run as one of another type.    *)
(***************************************************************************)
EXTENDS Integers, FiniteSets, Sequences, SequencesExt

CONSTANTS
    ArtifactRuns,   \* runs
    ArtifactTypes,  \* values of run_type
    ArtifactJobs,   \* jobs
    RunMaps,        \* ways envelopes name runs and types: a retry is another job of the run
    NoLineage,      \* jobs whose payload has no lineage
    Checksums,      \* checksums a client can report: of contents, never of a reference
    RetentionDays,  \* artifact_intermediate_retention_days
    LastDay,        \* bound: days
    MaxFiled        \* bound: contents a client files under runs

\* What a row is filed under, run_id and run_type; and the files of jobs.
Owners == ArtifactRuns \X ArtifactTypes
Refs == [job : ArtifactJobs, pipeline : {"v2", "legacy"}]

ASSUME ArtifactConstants ==
    /\ RunMaps \subseteq [ArtifactJobs -> Owners] /\ NoLineage \subseteq ArtifactJobs
    /\ RetentionDays \in Nat /\ LastDay \in Nat
    /\ \A c \in Checksums : c \notin Refs

VARIABLES
    prod,      \* GB_WORKER_RESEARCH_PROD_PIPELINE_ENABLED
    today,     \* the day
    runOf,     \* job -> run and type in its envelope
    rows,      \* the summary rows
    touched    \* history: <<run and type, checksum>> -> day of the latest report or read

artifactVars == <<prod, runOf, today, rows, touched>>

\* The file of a job, a directory per pipeline; NoSum where no checksum is sent.
RefOf(j) == [job |-> j, pipeline |-> IF prod THEN "v2" ELSE "legacy"]
NoSum == "none"
RetentionClasses == {"intermediate", "final"}
Longest(a, b) == IF a > b THEN a ELSE b

ArtifactInit ==
    /\ prod \in BOOLEAN /\ runOf \in RunMaps /\ today = 0
    /\ rows = {} /\ touched = <<>>

-----------------------------------------------------------------------------
(* RunArtifactSqlRepository. *)
RowsWith(of, sum) == {r \in rows : r.of = of /\ r.sum = sum}
WithSum(sum) == {r \in rows : r.sum = sum}
NewRow(j, of, ref, sum, class) ==
    [of |-> of, job |-> j, ref |-> ref, sum |-> sum, class |-> class, accessed |-> today]

\* sha256 of the reference where the event brings none.
ResolvedChecksum(given, ref) == IF given # NoSum THEN given ELSE ref

\* Mutant of AddSummary: a new row names the file it was reported with.
AddSummaryOwnRef(j, of, ref, sum, class) ==
    IF RowsWith(of, sum) # {}
    THEN LET old == CHOOSE r \in RowsWith(of, sum) : TRUE
         IN  (rows \ {old}) \cup {[old EXCEPT !.accessed = today, !.class = class]}
    ELSE rows \cup {NewRow(j, of, ref, sum, class)}

\* The row of this run, type and checksum is refreshed, whatever job it is of; a
\* new row takes the file of any row with the checksum.
AddSummary(j, of, ref, sum, class) ==
    IF RowsWith(of, sum) # {}
    THEN LET old == CHOOSE r \in RowsWith(of, sum) : TRUE
         IN  (rows \ {old}) \cup {[old EXCEPT !.accessed = today, !.class = class]}
    ELSE LET file == IF WithSum(sum) = {} THEN ref ELSE (CHOOSE r \in WithSum(sum) : TRUE).ref
         IN  rows \cup {NewRow(j, of, file, sum, class)}

Outdated(row) ==
    row.class = "intermediate" /\ row.accessed < today - Longest(RetentionDays, 1)

Pruned(rs) == {row \in rs : ~Outdated(row)}

\* The end of publish_job_event, for an event with a run, a type and a reference: the
\* summary is stored, then retention runs.
SaveArtifact(j, of, given, class) ==
    LET sum == ResolvedChecksum(given, RefOf(j))
    IN  /\ rows' = Pruned(AddSummary(j, of, RefOf(j), sum, class))
        /\ touched' = [k \in DOMAIN touched \cup {<<of, sum>>} |->
                        IF k = <<of, sum>> THEN today ELSE touched[k]]

-----------------------------------------------------------------------------
\* resolve_lineage_spec in validate_request; the legacy pipeline has no such step.
RequestValid(j) == prod => j \notin NoLineage

\* The summary post, with the run and type of the envelope, arrives, or fails and is
\* only logged, or the envelope names no run.  A failure brings no result_ref, so
\* nothing is stored for it.
WorkerSucceeds(j) ==
    /\ RequestValid(j)
    /\ SaveArtifact(j, runOf[j], NoSum, "intermediate") \/ UNCHANGED <<rows, touched>>
    /\ UNCHANGED <<prod, runOf, today>>

\* Another client posts the event, with or without a checksum: the run and the type it
\* names, and the retention class, are its own.
ClientReports(j) ==
    /\ \E of \in Owners, c \in Checksums \cup {NoSum}, class \in RetentionClasses :
        /\ \/ <<of, ResolvedChecksum(c, RefOf(j))>> \in DOMAIN touched
           \/ Cardinality(DOMAIN touched) < MaxFiled
        /\ SaveArtifact(j, of, c, class)
    /\ UNCHANGED <<prod, runOf, today>>

\* GET .../artifacts/{artifact_id}; the list leaves last_accessed_at alone.
ReadArtifact(row) ==
    /\ rows' = (rows \ {row}) \cup {[row EXCEPT !.accessed = today]}
    /\ touched' = [touched EXCEPT ![<<row.of, row.sum>>] = today]
    /\ UNCHANGED <<prod, runOf, today>>

DayPasses ==
    /\ today < LastDay /\ today' = today + 1
    /\ UNCHANGED <<prod, runOf, rows, touched>>

ArtifactNext ==
    \/ \E j \in ArtifactJobs : WorkerSucceeds(j) \/ ClientReports(j)
    \/ \E row \in rows : ReadArtifact(row)
    \/ DayPasses

ArtifactSpec == ArtifactInit /\ [][ArtifactNext]_artifactVars

-----------------------------------------------------------------------------
\* Rows were touched when they say.
ArtifactTypeOK ==
    \A row \in rows :
        /\ row.of \in Owners /\ row.job \in ArtifactJobs /\ row.class \in RetentionClasses
        /\ row.accessed = touched[<<row.of, row.sum>>]

\* A run has one row for one content under one type, however often and by whichever
\* of its jobs it is reported.
OneRowPerContent ==
    \A r, q \in rows : r.of = q.of /\ r.sum = q.sum => r = q

\* Rows of one checksum name one file: a run that produced what another has
\* already shares its file, also when the row of the first is long pruned.
OneFilePerChecksum == \A r, q \in rows : r.sum = q.sum => r.ref = q.ref

\* What was reported or read is there for the days of retention, even for the
\* class that is pruned, and whoever's report the pruning follows.
KeptForRetention ==
    \A k \in DOMAIN touched :
        today <= touched[k] + RetentionDays => RowsWith(k[1], k[2]) # {}

\* A file reported without a checksum, as both workers report, is found under the id of
\* the job that wrote it: only a client's checksum can put it under another job.
WorkerArtifactListed ==
    \A k \in DOMAIN touched :
        k[2] \in Refs /\ today <= touched[k] + RetentionDays =>
            \E r \in rows : r.of = k[1] /\ r.job = k[2].job /\ r.ref = k[2]

\* The artifact table under reports, reads and pruning: one row per content of a run and
\* type, one file per checksum, kept for the retention, and found under the job that made it.
ArtifactsKept ==
    /\ ArtifactTypeOK
    /\ OneRowPerContent
    /\ OneFilePerChecksum
    /\ KeptForRetention
    /\ WorkerArtifactListed
=============================================================================
