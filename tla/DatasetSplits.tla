---------------------------- MODULE DatasetSplits ----------------------------
(***************************************************************************)
(* How the training worker divides rows: by entity, with a seeded shuffle,   *)
(* when a bundle is materialized; by time, in purged folds and walk-forward  *)
(* windows.  A row is its position in the input; workers are processes with  *)
(* a string hash of their own, which decides the order they walk a set in.   *)
(***************************************************************************)
EXTENDS Integers, FiniteSets, Sequences, SequencesExt

CONSTANTS
    SplitWorkers,    \* processes that materialize the same request
    Intents,         \* what materialize_dataset_bundle is given
    Placeholders,    \* the rows it makes up when there are none
    HashOrders,      \* orders a process may walk a set of entities in: entity -> rank
    Shuffles,        \* what Random(seed).shuffle may do: length -> permutation
    NoEntity,        \* the leakage guard key is absent from a row
    RoundedDown,     \* <<n, percent>> whose product in doubles is just below an integer
    FoldInputs,      \* [rows, splits, purge, embargo] for PurgedKFold
    WalkInputs       \* [rows, train, test, step, expanding] for WalkForwardSplitter

VARIABLES
    work,       \* what is being split: "materialize", "folds" or "walk"
    given,      \* its input
    shuffle,    \* the shuffle of the seed, the same in every process
    hashOrder,  \* worker -> its hash order
    bundle,     \* worker -> what it materialized
    at,         \* fold_idx, or cursor
    cuts        \* folds or windows so far

splitVars == <<work, given, shuffle, hashOrder, bundle, at, cuts>>

-----------------------------------------------------------------------------
(* By entity. *)

Profiles == [baseline |-> [train |-> 70, val |-> 15],
             alpha |-> [train |-> 65, val |-> 20],
             ml |-> [train |-> 80, val |-> 10]]

NormalFamily(family) == IF family \in DOMAIN Profiles THEN family ELSE "ml"
ProfileName(intent) == IF intent.profile = "" THEN NormalFamily(intent.family) ELSE intent.profile

\* An unknown name goes into the manifest, with the family's ratios.
Ratios(intent) ==
    IF ProfileName(intent) \in DOMAIN Profiles THEN Profiles[ProfileName(intent)]
    ELSE Profiles[NormalFamily(intent.family)]

\* The contract of a tier-0 data set: whole rows, and time ascending in a symbol
\* (taken to be the row's entity).
ContractHolds(intent) ==
    intent.contract =>
        /\ \A i \in DOMAIN intent.rows : intent.rows[i].whole
        /\ \A i, j \in DOMAIN intent.rows :
              (i < j /\ intent.rows[i].entity = intent.rows[j].entity) => intent.rows[i].ts <= intent.rows[j].ts

RowsOf(intent) == IF intent.rows = <<>> THEN Placeholders ELSE intent.rows

\* A stable sort: the members of a set of positions by their keys, by position
\* where the keys are equal.
Ahead(S, key, i) == {j \in S : key[j] < key[i] \/ (key[j] = key[i] /\ j < i)}
Listed(S, key) ==
    [k \in 1..Cardinality(S) |-> CHOOSE i \in S : Cardinality(Ahead(S, key, i)) = k - 1]

\* list(groups): the entities in the order they come first.
FirstRows(rows) == {i \in DOMAIN rows : \A j \in 1..(i - 1) : rows[j].entity # rows[i].entity}
Position(rows) == [i \in DOMAIN rows |-> i]
Groups(rows) ==
    LET first == Listed(FirstRows(rows), Position(rows)) IN
    [k \in DOMAIN first |-> rows[first[k]].entity]

\* int(n * ratio), the product of two doubles: 90 * 0.7 is 62.99..., 62 rows.
Share(n, percent) == (n * percent) \div 100 - (IF <<n, percent>> \in RoundedDown THEN 1 ELSE 0)

\* The order in which a process walks the entities of its rows when they are in a set.
HashRank(rows, w) == [i \in DOMAIN rows |-> hashOrder[w][rows[i].entity]]

\* Mutant of Shuffled: the entities are listed from a set.
ShuffledSet(rows, w) ==
    LET first == Listed(FirstRows(rows), HashRank(rows, w)) IN
    [i \in DOMAIN first |-> rows[first[shuffle[Len(first)][i]]].entity]

Shuffled(rows, w) ==
    LET e == Groups(rows) IN [i \in DOMAIN e |-> e[shuffle[Len(e)][i]]]

Cut(e, ratios) ==
    LET a == Share(Len(e), ratios.train)
        b == Share(Len(e), ratios.val)
    IN [train |-> SubSeq(e, 1, a), val |-> SubSeq(e, a + 1, a + b), test |-> SubSeq(e, a + b + 1, Len(e))]

\* The rows of a set of entities, the set walked in the process's order.
Gather(rows, entities, w) ==
    Listed({i \in DOMAIN rows : rows[i].entity \in ToSet(entities)}, HashRank(rows, w))

Split(intent, w) ==
    LET rows == RowsOf(intent)
        cut == Cut(Shuffled(rows, w), Ratios(intent))
    IN [part \in DOMAIN cut |-> Gather(rows, cut[part], w)]

Pending == [status |-> "pending"]

Materialize(w) ==
    /\ work = "materialize" /\ bundle[w] = Pending
    /\ ContractHolds(given)
    /\ \A i \in DOMAIN RowsOf(given) : RowsOf(given)[i].entity # NoEntity
    /\ bundle' = [bundle EXCEPT ![w] = [status |-> "ok", profile |-> ProfileName(given),
                                         splits |-> Split(given, w)]]
    /\ UNCHANGED <<work, given, shuffle, hashOrder, at, cuts>>

\* A broken contract or a row without the key: ValueError.
RefuseRows(w) ==
    /\ work = "materialize" /\ bundle[w] = Pending
    /\ \/ ~ContractHolds(given)
       \/ \E i \in DOMAIN RowsOf(given) : RowsOf(given)[i].entity = NoEntity
    /\ bundle' = [bundle EXCEPT ![w] = [status |-> "refused"]]
    /\ UNCHANGED <<work, given, shuffle, hashOrder, at, cuts>>

-----------------------------------------------------------------------------
(* By time. *)

\* enforce_feature_timing: rows whose features were known by the decision.
Timely(rows) == {i \in DOMAIN rows : rows[i].known <= rows[i].ts}

Time(i) == given.rows[i].ts
TimeKey == [i \in DOMAIN given.rows |-> Time(i)]

\* Sorted by time; equal times keep their order.
Ordered == Listed(Timely(given.rows), TimeKey)
Count == Len(Ordered)
FoldSize == IF Count \div given.splits = 0 THEN 1 ELSE Count \div given.splits

TestPart(k) ==
    LET end == IF k = given.splits - 1 THEN Count ELSE k * FoldSize + FoldSize
    IN SubSeq(Ordered, k * FoldSize + 1, IF end < Count THEN end ELSE Count)

Purged(i, from, to) ==
    \/ from <= Time(i) /\ Time(i) <= to
    \/ from - given.purge <= Time(i) /\ Time(i) <= to + given.purge
    \/ to < Time(i) /\ Time(i) <= to + given.embargo

Trained(from, to) == Listed({i \in Timely(given.rows) : ~Purged(i, from, to)}, TimeKey)

\* One turn of PurgedKFold.split's loop; an empty test part makes no fold.
Fold ==
    /\ work = "folds" /\ at < given.splits
    /\ at' = at + 1
    /\ cuts' = IF TestPart(at) = <<>> THEN cuts
               ELSE Append(cuts, [test |-> TestPart(at),
                                  train |-> Trained(Time(Head(TestPart(at))), Time(Last(TestPart(at))))])
    /\ UNCHANGED <<work, given, shuffle, hashOrder, bundle>>

TrainSlice == SubSeq(Ordered, IF given.expanding THEN 1 ELSE at - given.train + 1, at)

\* One turn of WalkForwardSplitter.split's loop.
Walk ==
    /\ work = "walk" /\ at + given.test <= Count
    /\ LET test == SubSeq(Ordered, at + 1, at + given.test) IN
       cuts' = Append(cuts, [trainStart |-> Time(Head(TrainSlice)), trainEnd |-> Time(Last(TrainSlice)),
                             testStart |-> Time(Head(test)), testEnd |-> Time(Last(test))])
    /\ at' = at + given.step
    /\ UNCHANGED <<work, given, shuffle, hashOrder, bundle>>

-----------------------------------------------------------------------------
\* random.shuffle permutes any list, and a process ranks every entity of its rows.
ASSUME EntityAssumption ==
    \A intent \in Intents :
        /\ RowsOf(intent) \in Seq([entity : STRING, ts : Int, whole : BOOLEAN])
        /\ \A h \in HashOrders, i \in DOMAIN RowsOf(intent) :
              RowsOf(intent)[i].entity # NoEntity => h[RowsOf(intent)[i].entity] \in Int
        /\ \A s \in Shuffles : LET n == Len(Groups(RowsOf(intent))) IN
              /\ s[n] \in [1..n -> 1..n] /\ IsInjective(s[n])
              /\ \A k \in 1..n : \E i \in 1..n : s[n][i] = k

\* Only a product of at least one is rounded down.
ASSUME ShareAssumption == \A s \in RoundedDown : s[1] * s[2] >= 100

\* PurgedKFold refuses fewer than two folds; a walk with a size or a step of zero
\* fails on an empty slice or never ends.
ASSUME TimeAssumption ==
    /\ \A f \in FoldInputs :
          /\ f.rows \in Seq([ts : Int, known : Int])
          /\ f.splits \in Nat \ {0, 1} /\ f.purge \in Int /\ f.embargo \in Int
    /\ \A f \in WalkInputs :
          /\ f.rows \in Seq([ts : Int, known : Int])
          /\ {f.train, f.test, f.step} \subseteq Nat \ {0} /\ f.expanding \in BOOLEAN

SplitInit ==
    /\ \/ work = "materialize" /\ given \in Intents /\ shuffle \in Shuffles
             /\ hashOrder \in [SplitWorkers -> HashOrders] /\ at = 0
       \/ work = "folds" /\ given \in FoldInputs /\ at = 0
             /\ shuffle = <<>> /\ hashOrder = <<>>
       \/ work = "walk" /\ given \in WalkInputs /\ at = given.train
             /\ shuffle = <<>> /\ hashOrder = <<>>
    /\ bundle = [w \in SplitWorkers |-> Pending]
    /\ cuts = <<>>

SplitNext ==
    \/ \E w \in SplitWorkers : Materialize(w) \/ RefuseRows(w)
    \/ Fold
    \/ Walk

SplitSpec == SplitInit /\ [][SplitNext]_splitVars

-----------------------------------------------------------------------------
Done == {w \in SplitWorkers : bundle[w].status = "ok"}
Part(w, part) == ToSet(bundle[w].splits[part])
Parts == {"train", "val", "test"}

\* No entity is in two parts and every row is in one, once: nothing of an entity
\* leaks from training into the evaluation (splits.py:171-198).
NoEntityInTwoParts ==
    \A w \in Done : LET rows == RowsOf(given) IN
        /\ UNION {Part(w, part) : part \in Parts} = DOMAIN rows
        /\ \A part \in Parts : IsInjective(bundle[w].splits[part])
        /\ \A p, q \in Parts : \A i \in Part(w, p), j \in Part(w, q) :
              rows[i].entity = rows[j].entity => p = q

\* Two processes that materialize one request with one seed put the same rows
\* into the same parts, whatever order their sets are walked in: a retried job
\* trains on the rows of the first attempt (splits.py:182-196, materializer.py:80-112).
SameSeedSameParts ==
    \A v, w \in Done : \A part \in Parts : Part(v, part) = Part(w, part)

\* Where a row is tested: a fold and a place in its test part.
TestsOf(i) ==
    {p \in (DOMAIN cuts) \X (DOMAIN given.rows) :
        p[2] \in DOMAIN cuts[p[1]].test /\ cuts[p[1]].test[p[2]] = i}

\* Over all folds every row is tested once, also when the rows do not divide by
\* the folds or are fewer (splits.py:74-86).
TestedOnce ==
    (work = "folds" /\ at = given.splits) =>
        \A i \in DOMAIN given.rows :
            Cardinality(TestsOf(i)) = (IF i \in Timely(given.rows) THEN 1 ELSE 0)

Near(i, j) == \/ Time(i) - Time(j) \in -given.purge..given.purge
              \/ Time(i) - Time(j) \in 1..given.embargo

\* No row a fold trains on is within the purge horizon of a row it tests or in
\* the embargo after it, and no other row is given up (splits.py:89-101).
PurgeExact ==
    work = "folds" => \A k \in DOMAIN cuts : \A i \in Timely(given.rows) \ ToSet(cuts[k].test) :
        IF i \in ToSet(cuts[k].train) THEN \A j \in ToSet(cuts[k].test) : ~Near(i, j)
        ELSE \/ \E j \in ToSet(cuts[k].test) : Near(i, j)
             \/ \E j, l \in ToSet(cuts[k].test) : Time(j) <= Time(i) /\ Time(i) <= Time(l)

Within(from, to) == {i \in Timely(given.rows) : from <= Time(i) /\ Time(i) <= to}

\* A window trains on what comes before its test rows and on as many rows as it
\* should, and the windows move forward (splits.py:43-62).  With two rows of one
\* time on the border the window trains and tests on that time.
WindowsForward ==
    work = "walk" => \A k \in DOMAIN cuts :
        /\ cuts[k].trainEnd <= cuts[k].testStart
        /\ \A j \in 1..(k - 1) : cuts[j].testStart <= cuts[k].testStart
        /\ (\A i, j \in Timely(given.rows) : Time(i) = Time(j) => i = j) =>
              /\ cuts[k].trainEnd < cuts[k].testStart
              /\ Cardinality(Within(cuts[k].testStart, cuts[k].testEnd)) = given.test
              /\ Cardinality(Within(cuts[k].trainStart, cuts[k].trainEnd))
                   = given.train + (IF given.expanding THEN (k - 1) * given.step ELSE 0)

\* No split leaks: entities stay in one part, every row is tested once, exactly the rows
\* too near a test are purged, windows go forward, and a seed fixes the parts.
SplitsClean ==
    /\ NoEntityInTwoParts
    /\ SameSeedSameParts
    /\ TestedOnce
    /\ PurgeExact
    /\ WindowsForward
=============================================================================
