------------------------------ MODULE BarCache ------------------------------
(***************************************************************************)
(* The bar store of service-data for one symbol, resolution and provider:   *)
(* the provider adapter that fetches a range in chunks with retries, the    *)
(* parquet cache with its manifest, and the catalog of coverage, missing    *)
(* ranges and dataset references.  Nothing in src/ calls the three in one   *)
(* function: a job here is the caller their signatures allow, which fetches, *)
(* hands the bars to write_bars and registers the references it gets back.  *)
(* Several jobs share the directory and the catalog, and any may die.       *)
(***************************************************************************)
EXTENDS Integers, FiniteSets

CONSTANTS
    BarJobs,        \* ingestion jobs, each run once
    Traded,         \* the times the provider has a bar at
    Horizon,        \* the last time of the instance
    DayLength,      \* times per day (a partition is one day)
    ChunkLength,    \* chunk_days_by_resolution
    RowLimit,       \* the "limit" of a request
    FetchRetries    \* max_retries

Times == 0..Horizon

ASSUME BarConstants ==
    /\ IsFiniteSet(BarJobs) /\ Horizon \in Nat /\ Traded \subseteq Times
    /\ DayLength \in Nat \ {0} /\ ChunkLength \in Nat \ {0}
    /\ RowLimit \in Nat /\ FetchRetries \in Nat

\* The default policy fits a chunk in one answer: 30 days of minutes are 43200
\* rows of 50000 (policy.py:37).  GB_MD_POLICY_CHUNK_MINUTE_DAYS can break it.
ASSUME ChunkFits == ChunkLength + 1 <= RowLimit

VARIABLES
    jobs,         \* job -> its request and how far it got
    parts,        \* parquet files: [job, day, bars]
    half,         \* parquet files begun and not finished: [job, day]
    manifest,     \* the manifest's partitions, as [job, day]
    torn,         \* the manifest file is truncated and not yet rewritten
    coverage,     \* rows of market_data.coverage: at most one, [start, end]
    missing,      \* rows of market_data.missing_ranges
    refs,         \* rows of market_data.dataset_refs: [job, day]
    overlapped    \* history: jobs whose writing overlapped another's

barVars == <<jobs, parts, half, manifest, torn, coverage, missing, refs, overlapped>>

-----------------------------------------------------------------------------
Ranges == [start : Times, end : Times]         \* TimeRange, CoverageRecord
MissingRanges == Ranges                         \* MissingRange, for one symbol and resolution
DatasetRefs == [job : BarJobs, day : Nat]      \* DatasetRef
BarRows == [chunk : Times, at : Traded]        \* a bar, and the chunk it came with
Parts == [job : BarJobs, day : Nat, bars : SUBSET BarRows]

Day(t) == t \div DayLength
DaysOf(bars) == {Day(b.at) : b \in bars}
Lower(a, b) == IF a < b THEN a ELSE b
Higher(a, b) == IF a > b THEN a ELSE b

\* The provider's answer to one chunk.  Whether it counts the bar at "to" is the
\* provider's affair: both are possible.
ProviderTimes(from, to, inclusive) ==
    {t \in Traded : from <= t /\ (t < to \/ (inclusive /\ t = to))}

\* Ascending, as many as the request asked for.
BarsAnswered(from, to, inclusive) ==
    LET times == ProviderTimes(from, to, inclusive) IN
    {[chunk |-> from, at |-> t] : t \in {u \in times : Cardinality({v \in times : v < u}) < RowLimit}}

ChunkEnd(j) == Lower(jobs[j].cursor + ChunkLength, jobs[j].end)

Fresh == [phase |-> "idle", start |-> 0, end |-> 0, cursor |-> 0, attempt |-> 0,
          bars |-> {}, seen |-> {}, todo |-> {}, mixed |-> FALSE]

\* Where the files of the cache are touched.
Writing == {j \in BarJobs : jobs[j].phase \in {"writing", "publishing"}}

BarInit ==
    /\ jobs = [j \in BarJobs |-> Fresh]
    /\ parts = {}
    /\ half = {}
    /\ manifest = {}
    /\ torn = FALSE
    /\ coverage = {}
    /\ missing = {}
    /\ refs = {}
    /\ overlapped = {}

Goto(j, phase) == jobs' = [jobs EXCEPT ![j].phase = phase]
CatalogUnchanged == UNCHANGED <<coverage, missing, refs>>
CacheUnchanged == UNCHANGED <<parts, half, manifest, torn, overlapped>>

-----------------------------------------------------------------------------
(* The provider adapter. *)

\* fetch_bars and _chunk_ranges: an empty range has no chunk.
FetchBars(j, s, e) ==
    /\ jobs[j].phase = "idle"
    /\ jobs' = [jobs EXCEPT ![j] = [Fresh EXCEPT !.phase = IF e <= s THEN "fetched" ELSE "fetching",
                                                 !.start = s, !.end = e, !.cursor = s]]
    /\ CacheUnchanged /\ CatalogUnchanged

ChunkOk(j, inclusive) ==
    /\ jobs[j].phase = "fetching"
    /\ jobs' = [jobs EXCEPT ![j].bars = @ \cup BarsAnswered(jobs[j].cursor, ChunkEnd(j), inclusive),
                            ![j].cursor = ChunkEnd(j),
                            ![j].attempt = 0,
                            ![j].phase = IF ChunkEnd(j) < jobs[j].end THEN "fetching" ELSE "fetched"]
    /\ CacheUnchanged /\ CatalogUnchanged

\* 429, 5xx or no connection, with attempts left.
ChunkRetry(j) ==
    /\ jobs[j].phase = "fetching"
    /\ jobs[j].attempt < FetchRetries
    /\ jobs' = [jobs EXCEPT ![j].attempt = @ + 1]
    /\ CacheUnchanged /\ CatalogUnchanged

\* Another status, bad JSON, or the last attempt: fetch_bars raises and the bars
\* of the earlier chunks go with it.
ChunkFail(j) ==
    /\ jobs[j].phase = "fetching"
    /\ jobs' = [jobs EXCEPT ![j].phase = "failed", ![j].bars = {}]
    /\ CacheUnchanged /\ CatalogUnchanged

-----------------------------------------------------------------------------
(* write_bars: read the manifest, write one part per day, write the manifest. *)
WriteNothing(j) ==
    /\ jobs[j].phase = "fetched" /\ jobs[j].bars = {}
    /\ Goto(j, "written")
    /\ CacheUnchanged /\ CatalogUnchanged

\* A truncated manifest does not parse: write_bars raises before its first part.
ReadTornManifest(j) ==
    /\ jobs[j].phase = "fetched" /\ jobs[j].bars # {} /\ torn
    /\ Goto(j, "failed")
    /\ CacheUnchanged /\ CatalogUnchanged

ReadManifest(j) ==
    /\ jobs[j].phase = "fetched" /\ jobs[j].bars # {} /\ ~torn
    /\ jobs' = [jobs EXCEPT ![j].phase = "writing", ![j].seen = manifest,
                            ![j].todo = DaysOf(jobs[j].bars)]
    /\ overlapped' = IF Writing = {} THEN overlapped ELSE overlapped \cup Writing \cup {j}
    /\ UNCHANGED <<parts, half, manifest, torn>> /\ CatalogUnchanged

PartOf(j, d) == [job |-> j, day |-> d, bars |-> {b \in jobs[j].bars : Day(b.at) = d}]

FileOf(j, d) == [job |-> j, day |-> d]

\* write_parquet writes in place, under the tree that load_bars scans ...
BeginPart(j, d) ==
    /\ jobs[j].phase = "writing"
    /\ d \in jobs[j].todo /\ \A x \in jobs[j].todo : d <= x
    /\ half' = half \cup {FileOf(j, d)}
    /\ UNCHANGED <<jobs, parts, manifest, torn, overlapped>> /\ CatalogUnchanged

\* ... and the file can be read once it is all there.
WritePart(j, d) ==
    /\ jobs[j].phase = "writing"
    /\ d \in jobs[j].todo /\ FileOf(j, d) \in half
    /\ half' = half \ {FileOf(j, d)}
    /\ parts' = parts \cup {PartOf(j, d)}
    /\ jobs' = [jobs EXCEPT ![j].todo = @ \ {d}]
    /\ UNCHANGED <<manifest, torn, overlapped>> /\ CatalogUnchanged

Listed(j) == {[job |-> j, day |-> d] : d \in DaysOf(jobs[j].bars)}

\* write_text truncates the file first ...
TruncateManifest(j) ==
    /\ jobs[j].phase = "writing" /\ jobs[j].todo = {}
    /\ Goto(j, "publishing")
    /\ torn' = TRUE
    /\ UNCHANGED <<parts, half, manifest, overlapped>> /\ CatalogUnchanged

\* The file after j's text went in: a text another rewrite put there meanwhile may
\* show behind a shorter one.
AfterRewrite(j) ==
    /\ torn' \in IF jobs[j].mixed THEN BOOLEAN ELSE {FALSE}
    /\ jobs' = [k \in BarJobs |->
                  IF k = j THEN [jobs[j] EXCEPT !.phase = "written", !.todo = DaysOf(jobs[j].bars)]
                  ELSE [jobs[k] EXCEPT !.mixed = jobs[k].mixed \/ jobs[k].phase = "publishing"]]

\* Mutant of WriteManifest: only this call's partitions are written.
WriteOwnManifest(j) ==
    /\ jobs[j].phase = "publishing"
    /\ manifest' = Listed(j)
    /\ AfterRewrite(j)
    /\ UNCHANGED <<parts, half, overlapped>> /\ CatalogUnchanged

\* ... and then holds what this call read plus its own partitions.
WriteManifest(j) ==
    /\ jobs[j].phase = "publishing"
    /\ manifest' = jobs[j].seen \cup Listed(j)
    /\ AfterRewrite(j)
    /\ UNCHANGED <<parts, half, overlapped>> /\ CatalogUnchanged

-----------------------------------------------------------------------------
(* The catalog: one commit per call. *)
UpsertDatasetRef(j, d) ==
    /\ jobs[j].phase = "written" /\ d \in jobs[j].todo
    /\ refs' = refs \cup {[job |-> j, day |-> d]}
    /\ jobs' = [jobs EXCEPT ![j].todo = @ \ {d}]
    /\ UNCHANGED <<coverage, missing>> /\ CacheUnchanged

Hull(c, s, e) == [start |-> Lower(c.start, s), end |-> Higher(c.end, e)]

UpsertCoverage(j) ==
    /\ jobs[j].phase = "written" /\ jobs[j].todo = {} /\ jobs[j].start < jobs[j].end
    /\ coverage' = IF coverage = {} THEN {[start |-> jobs[j].start, end |-> jobs[j].end]}
                   ELSE {Hull(c, jobs[j].start, jobs[j].end) : c \in coverage}
    /\ Goto(j, "done")
    /\ UNCHANGED <<missing, refs>> /\ CacheUnchanged

RecordMissing(j) ==
    /\ jobs[j].phase = "failed"
    /\ missing' = missing \cup {[start |-> jobs[j].start, end |-> jobs[j].end]}
    /\ Goto(j, "noted")
    /\ UNCHANGED <<coverage, refs>> /\ CacheUnchanged

\* The process dies: its files, a half-written one too, and its rows stay as they are.
DieInJob(j) ==
    /\ jobs[j].phase \in {"fetching", "fetched", "writing", "publishing", "written"}
    /\ Goto(j, "dead")
    /\ CacheUnchanged /\ CatalogUnchanged

-----------------------------------------------------------------------------
(* What readers get. *)

\* _years_in_range and _months_in_range, at the grain of the model's partitions.
PartitionsInRange(s, e) == Day(s)..Day(e)

\* A file without its end makes the scan of the tree raise.
Readable == half = {}

\* load_bars scans the files, never the manifest; start <= ts < end, and one row
\* for each copy of a bar.
Load(s, e) ==
    UNION {{<<p, b>> : b \in {x \in p.bars : s <= x.at /\ x.at < e}} :
              p \in {q \in parts : q.day \in PartitionsInRange(s, e)}}

Copies(t) == Cardinality({row \in Load(t, t + 1) : row[2].at = t})

Overlaps(row, s, e) == row.end > s /\ row.start < e

\* query_coverage, as get_coverage answers it.
QueryCoverage(s, e) ==
    [coverage |-> {c \in coverage : Overlaps(c, s, e)},
     missing |-> {m \in missing : Overlaps(m, s, e)},
     refs |-> {r \in refs : r.day \in Day(s)..Day(e)}]

-----------------------------------------------------------------------------
BarNext == \E j \in BarJobs :
    \/ \E s, e \in Times : FetchBars(j, s, e)
    \/ \E inclusive \in BOOLEAN : ChunkOk(j, inclusive)
    \/ ChunkRetry(j)
    \/ ChunkFail(j)
    \/ WriteNothing(j)
    \/ ReadTornManifest(j)
    \/ ReadManifest(j)
    \/ \E d \in {Day(t) : t \in Times} :
         BeginPart(j, d) \/ WritePart(j, d) \/ UpsertDatasetRef(j, d)
    \/ TruncateManifest(j)
    \/ WriteManifest(j)
    \/ UpsertCoverage(j)
    \/ RecordMissing(j)
    \/ DieInJob(j)

BarSpec == BarInit /\ [][BarNext]_barVars

-----------------------------------------------------------------------------
Phases == {"idle", "fetching", "fetched", "writing", "publishing", "written", "done",
           "failed", "noted", "dead"}

\* Jobs whose write_bars returned and that have not died since.
Returned == {j \in BarJobs : jobs[j].phase \in {"written", "done"}}

\* Types of the cache and of the catalog.  The coverage table has one row per
\* symbol and resolution (ON CONFLICT of catalog_repository.py:62), and a
\* listed part is a file.
BarTypeOK ==
    /\ jobs \in [BarJobs -> [phase : Phases, start : Times, end : Times, cursor : Times,
                             attempt : 0..FetchRetries, bars : SUBSET BarRows,
                             seen : SUBSET [job : BarJobs, day : Nat], todo : SUBSET Nat, mixed : BOOLEAN]]
    /\ parts \subseteq Parts /\ half \subseteq DatasetRefs
    /\ manifest \subseteq {[job |-> p.job, day |-> p.day] : p \in parts}
    /\ torn \in BOOLEAN
    /\ coverage \subseteq Ranges /\ Cardinality(coverage) <= 1
    /\ missing \subseteq MissingRanges
    /\ refs \subseteq DatasetRefs
    /\ overlapped \subseteq BarJobs

\* Once a job's write_bars returned, and while every file is whole, load_bars gives
\* every bar the provider has in the range the job fetched: no chunk boundary and no
\* partition filter loses one, whatever the retries (massive_adapter.py:121-134,
\* cache_repository.py:193-234).
FetchedIsLoadable ==
    \A j \in Returned : \A t \in Traded :
        (Readable /\ jobs[j].start <= t /\ t < jobs[j].end) =>
            \E row \in Load(jobs[j].start, jobs[j].end) : row[2].at = t

\* A file that makes load_bars raise is of a job that is writing it or died there, and
\* neither the manifest nor a reference of the catalog leads to it: what a job hands on
\* is whole, though whoever scans the tree may meet the rest (cache_repository.py:44-69).
HalfExplained ==
    \A h \in half :
        /\ jobs[h.job].phase \in {"writing", "dead"}
        /\ h \notin manifest \cup refs /\ \A p \in parts : FileOf(p.job, p.day) # h

\* Inner chunk boundaries of a job.
Boundaries(j) == {t \in Times : /\ jobs[j].start < t /\ t < jobs[j].end
                                 /\ \E n \in 1 .. t : t = jobs[j].start + n * ChunkLength}

\* load_bars removes no duplicates; a bar comes back twice only because it lies
\* on a chunk boundary or because another job fetched its time too
\* (massive_adapter.py:130-133, cache_repository.py:44-46).
CopiesExplained ==
    \A t \in Traded : Copies(t) <= Cardinality({j \in BarJobs : jobs[j].start <= t /\ t <= jobs[j].end})
                                     + Cardinality({j \in BarJobs : t \in Boundaries(j)})

\* A fetch that fails in a chunk leaves nothing behind: no file and no reference,
\* though earlier chunks had come (massive_adapter.py:66-77).
FailedFetchLeavesNothing ==
    \A j \in BarJobs : (jobs[j].phase \in {"failed", "noted"} \/ jobs[j].cursor < jobs[j].end) =>
        \A x \in parts \cup half \cup refs : x.job # j

\* The manifest lists the files of every job that returned and whose writing no
\* other job's overlapped; with an overlap one of the two is lost
\* (the read and the write of cache_repository.py:31 and 69).
ManifestComplete ==
    \A j \in Returned \ overlapped : Listed(j) \subseteq manifest

\* A query over any time of a range that a finished job covered is told so, and
\* the references of its days lead to a file (catalog_repository.py:86-142).
CatalogFindsJobs ==
    \A j \in BarJobs : jobs[j].phase = "done" =>
        \A t \in jobs[j].start..(jobs[j].end - 1) :
            LET found == QueryCoverage(t, t + 1) IN
            /\ found.coverage # {}
            /\ \A c \in found.coverage : c.start <= jobs[j].start /\ c.end >= jobs[j].end
            /\ (\E b \in jobs[j].bars : b.at = t) =>
                  \E r \in found.refs : \E p \in parts : r.job = j /\ p.job = j /\ p.day = r.day /\ p.day = Day(t)

\* A manifest that nobody is writing and that does not parse, which stops every
\* later write_bars, took a death inside the rewrite or two writers at once
\* (_write_manifest, cache_repository.py:189-191).
TornExplained ==
    torn /\ Writing = {} =>
        overlapped # {} \/ \E j \in BarJobs : jobs[j].phase = "dead" /\ jobs[j].todo = {} /\ parts # {}

\* A job's bars are where the readers look: in the files load_bars opens, in the manifest
\* and behind the catalog, each once but for the copies chunks and overlaps explain, and a
\* fetch that fails leaves nothing; what overlapping writers, half-written files and
\* deaths spoil is named.
CacheFaithful ==
    /\ BarTypeOK
    /\ FetchedIsLoadable
    /\ HalfExplained
    /\ CopiesExplained
    /\ FailedFetchLeavesNothing
    /\ ManifestComplete
    /\ CatalogFindsJobs
    /\ TornExplained
=============================================================================
