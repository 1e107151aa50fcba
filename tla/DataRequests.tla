---------------------------- MODULE DataRequests ----------------------------
(***************************************************************************)
(* Requests for market data in the control plane: single and batch          *)
(* ingestion requests, the look-up of a data set and the coverage of the     *)
(* cache (domain/market_data and MarketDataSqlRepository).  Handlers run on  *)
(* several threads, each with a session of its own: another may commit       *)
(* between the look at the catalog and the insert.  Rows stand under one     *)
(* primary key, which is the key a client chose or the id of the data set.   *)
(***************************************************************************)
EXTENDS Integers, FiniteSets, Sequences, SequencesExt

CONSTANTS
    Callers,        \* concurrent callers
    IngestPayloads, \* MarketDataIngestionRequests the callers may post
    Batches,        \* preset lists they may post to the batch endpoint
    Presets,        \* INGESTION_PRESETS: name -> [symbols, resolutions, start, end, manual]
    Daily,          \* the resolution "1d"
    UnknownSymbol,  \* the symbol "UNKNOWN"
    NoKey,          \* an idempotency_key that is absent
    NoPreset,       \* a preset_id that is absent
    MaxAnswers      \* bound: requests answered

NoDate == 0         \* an absent date; days are 1, 2, ...

IsList(s) == s \in Seq(ToSet(s))

Dated(r) == r.start \in Nat /\ r.end \in Nat /\ IsList(r.symbols) /\ IsList(r.resolutions)

PayloadOf(key, preset, symbols, resolutions, start, end) ==
    [key |-> key, preset |-> preset, symbols |-> symbols, resolutions |-> resolutions,
     start |-> start, end |-> end]

\* What the request model parses, what a batch lists, and what the presets hold.
ASSUME RequestConstants ==
    /\ \A p \in IngestPayloads :
         Dated(p) /\ p = PayloadOf(p.key, p.preset, p.symbols, p.resolutions, p.start, p.end)
    /\ \A b \in Batches : IsList(b)
    /\ \A n \in DOMAIN Presets : Dated(Presets[n])

VARIABLES
    catalog,        \* market_data_catalog: primary key -> row
    partitions,     \* dataset_partitions
    caller,         \* caller -> the request it is in
    replies,        \* history: the responses with status accepted or already_exists
    asked           \* history: what each look was for, [id, dataset]

requestVars == <<catalog, partitions, caller, replies, asked>>

-----------------------------------------------------------------------------
(* From a payload to what is stored. *)

\* DatasetPartitionRow and the columns of MarketDataCatalogRow a look-up reads.
PartitionRow(id, row, s) ==
    [dataset |-> id, symbol |-> s, timeframe |-> row.timeframe, start |-> row.start, end |-> row.end]

\* The request model fills the resolutions in as it is parsed.
Normalize(p) == IF p.resolutions = <<>> THEN [p EXCEPT !.resolutions = <<Daily>>] ELSE p

Resolvable(p) ==
    IF p.preset = NoPreset THEN p.start # NoDate /\ p.end # NoDate
    ELSE /\ p.preset \in DOMAIN Presets
         /\ p.symbols # <<>> => Presets[p.preset].manual

Or(value, absent, default) == IF value = absent THEN default ELSE value

\* _resolve_payload.  The preset's resolutions never apply: Normalize came first.
Resolve(p) ==
    IF p.preset = NoPreset THEN p
    ELSE LET preset == Presets[p.preset] IN
         [p EXCEPT !.symbols = Or(@, <<>>, preset.symbols),
                   !.resolutions = Or(@, <<>>, preset.resolutions),
                   !.start = Or(@, NoDate, preset.start),
                   !.end = Or(@, NoDate, preset.end)]

\* dataset_id_from_spec: a hash of the sorted, deduplicated spec, taken as injective.
DatasetId(p) == [spec |-> <<ToSet(p.symbols), ToSet(p.resolutions), p.start, p.end>>]
StoredSymbols(p) == Or(p.symbols, <<>>, <<UnknownSymbol>>)
LookupId(p) == IF p.key = NoKey THEN DatasetId(p) ELSE p.key

Row(p) == [version |-> DatasetId(p), symbols |-> StoredSymbols(p), timeframe |-> Head(p.resolutions),
           resolutions |-> p.resolutions, start |-> p.start, end |-> p.end]

Stored(id) == id \in DOMAIN catalog

\* The row a request finds, as a set of at most one primary key.
Existing(p) ==
    IF Stored(LookupId(p)) THEN {LookupId(p)}
    ELSE IF Stored(DatasetId(p)) THEN {DatasetId(p)} ELSE {}

PartitionsOf(id, p) ==
    {[dataset |-> id, symbol |-> s, timeframe |-> Head(p.resolutions), start |-> p.start, end |-> p.end] :
        s \in ToSet(StoredSymbols(p))}

-----------------------------------------------------------------------------
(* What readers get. *)

\* lookup_dataset: by primary key, then by version: any row of that version.
Lookup(id) ==
    IF Stored(id) THEN {catalog[id]}
    ELSE {catalog[k] : k \in {x \in DOMAIN catalog : catalog[x].version = id}}

Chunks(symbol, timeframe) == {x \in partitions : x.symbol = symbol /\ x.timeframe = timeframe}

\* get_cache_coverage against a window: the hull of the partition rows.
Available(symbol, timeframe, start, end) ==
    /\ \E x \in Chunks(symbol, timeframe) : x.start <= start
    /\ \E x \in Chunks(symbol, timeframe) : x.end >= end

-----------------------------------------------------------------------------
Rest == [at |-> "rest", todo |-> <<>>]

RequestsInit ==
    /\ catalog = << >>
    /\ partitions = {}
    /\ caller = [c \in Callers |-> Rest]
    /\ replies = {}
    /\ asked = {}

StoreUnchanged == UNCHANGED <<catalog, partitions, replies, asked>>

\* POST /market-data/ingestions.
PostIngestion(c) == \E p \in IngestPayloads :
    /\ caller[c] = Rest
    /\ caller' = [caller EXCEPT ![c] = [Rest EXCEPT !.at = "look", !.todo = <<p>>]]
    /\ StoreUnchanged

\* Mutant of BatchItem: the key does not tell the items apart.
BatchItemSameKey(presets, i) ==
    PayloadOf([batch |-> <<0, presets[1]>>], presets[i], <<>>, <<>>, NoDate, NoDate)

\* The key of an item of a batch with no prefix: "batch:<index>:<preset>".
BatchItem(presets, i) ==
    PayloadOf([batch |-> <<i, presets[i]>>], presets[i], <<>>, <<>>, NoDate, NoDate)

\* POST /market-data/ingestions/batch: one request after the other.
PostBatch(c) == \E presets \in Batches :
    /\ caller[c] = Rest
    /\ caller' = [caller EXCEPT ![c] = [Rest EXCEPT !.at = "look",
                                                    !.todo = [i \in DOMAIN presets |-> BatchItem(presets, i)]]]
    /\ StoreUnchanged

ToInsert(c) == Resolve(Normalize(Head(caller[c].todo)))
Finished(c) == caller[c].at = "look" /\ caller[c].todo = <<>>
Next1(c) == [caller[c] EXCEPT !.at = "look", !.todo = Tail(@)]

Finish(c) ==
    /\ Finished(c)
    /\ caller' = [caller EXCEPT ![c] = Rest]
    /\ StoreUnchanged

\* 422: what came before it in a batch stays.
Refuse(c) ==
    /\ caller[c].at = "look" /\ caller[c].todo # <<>>
    /\ ~Resolvable(Normalize(Head(caller[c].todo)))
    /\ caller' = [caller EXCEPT ![c] = Rest]
    /\ StoreUnchanged

Reply(p, id, status) == [payload |-> p, request |-> id, dataset |-> DatasetId(p), status |-> status]

LookUp(c) ==
    /\ caller[c].at = "look" /\ caller[c].todo # <<>>
    /\ Resolvable(Normalize(Head(caller[c].todo)))
    /\ Cardinality(replies) < MaxAnswers
    /\ LET p == ToInsert(c) IN
         /\ asked' = asked \cup {[id |-> LookupId(p), dataset |-> DatasetId(p)]}
         /\ IF Existing(p) = {}
            THEN caller' = [caller EXCEPT ![c].at = "insert"] /\ UNCHANGED replies
            ELSE /\ replies' = replies \cup {Reply(p, id, "already_exists") : id \in Existing(p)}
                 /\ caller' = [caller EXCEPT ![c] = Next1(c)]
    /\ UNCHANGED <<catalog, partitions>>

Put(id, p) ==
    /\ catalog' = [x \in DOMAIN catalog \cup {id} |-> IF x = id THEN Row(p) ELSE catalog[x]]
    /\ partitions' = partitions \cup PartitionsOf(id, p)
    /\ replies' = replies \cup {Reply(p, id, "accepted")}

\* The row and its partitions in one commit.
Insert(c) ==
    /\ caller[c].at = "insert"
    /\ ~Stored(LookupId(ToInsert(c)))
    /\ Put(LookupId(ToInsert(c)), ToInsert(c))
    /\ caller' = [caller EXCEPT ![c] = Next1(c)]
    /\ UNCHANGED asked

\* Another thread inserted the key meanwhile: IntegrityError, rollback, 500.
InsertConflict(c) ==
    /\ caller[c].at = "insert"
    /\ Stored(LookupId(ToInsert(c)))
    /\ caller' = [caller EXCEPT ![c] = Rest]
    /\ StoreUnchanged

RequestsNext == \E c \in Callers :
    \/ PostIngestion(c) \/ PostBatch(c)
    \/ Refuse(c) \/ LookUp(c) \/ Insert(c) \/ InsertConflict(c)
    \/ Finish(c)

RequestsSpec == RequestsInit /\ [][RequestsNext]_requestVars

-----------------------------------------------------------------------------
ClientKeys == {p.key : p \in IngestPayloads} \ {NoKey}

\* Clients asked for another data set under this primary key.
Shared(id, dataset) == id \in ClientKeys /\ \E e \in asked : e.id = id /\ e.dataset # dataset

\* An answer its data set cannot be told by: the key it was asked under, or the very id
\* of its data set, is a key that a client chose and that stood for another one.
Clashes(a) == Shared(LookupId(a.payload), a.dataset) \/ Shared(a.dataset, a.dataset)

\* Types, and one partition row per symbol of a row, in the row's timeframe and
\* window: the commit of request_ingestion is all or nothing
\* (repositories.py:499-541), also when two threads insert one key.
RequestsTypeOK ==
    /\ \A id \in DOMAIN catalog : catalog[id].resolutions # <<>> /\ catalog[id].symbols # <<>>
    /\ partitions = UNION {{PartitionRow(id, catalog[id], s) : s \in ToSet(catalog[id].symbols)} :
                            id \in DOMAIN catalog}
    /\ \A c \in Callers : caller[c].at \in {"rest", "look", "insert"}

\* Whoever got an answer finds the data set it names by its id, with the symbols
\* asked for, unless a client's key stood for two data sets; the keys the batch
\* endpoint makes up never clash among themselves, though callers without a prefix
\* share them (repositories.py:476-551 and 634-659, service.py:75-87).
AnsweredIsFound ==
    \A a \in replies : Clashes(a) \/
        /\ Lookup(a.dataset) # {}
        /\ \A row \in Lookup(a.dataset) : ToSet(row.symbols) = ToSet(StoredSymbols(a.payload))

\* The window of an answered request is covered for all its symbols in one of its
\* resolutions, also when the answer was given for the row of another caller, who may
\* have listed them in another order: the partitions are those of the first resolution
\* of the request that was stored (repositories.py:480, 527-541 and 612-632).
AnsweredIsCovered ==
    \A a \in replies : Clashes(a) \/
        \E r \in ToSet(a.payload.resolutions) : \A s \in ToSet(StoredSymbols(a.payload)) :
            Available(s, r, a.payload.start, a.payload.end)

\* An answer holds: the data set it names is found, with all its partitions, and its
\* window is covered.
RequestsKept ==
    /\ RequestsTypeOK
    /\ AnsweredIsFound
    /\ AnsweredIsCovered
=============================================================================
