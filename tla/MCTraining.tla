----------------------------- MODULE MCTraining -----------------------------
(* Instances for TLC of what stands between a request for a run and its data: the    *)
(* admission of training and backtest runs, the worker's pipeline and the splits.    *)
EXTENDS MCTrainingPipeline, MCBacktestAdmission, ModelQualification, DatasetSplits

CONSTANTS w1, w2

-----------------------------------------------------------------------------
(* Datasets with everything, and each with one thing missing or not said. *)

Full ==
    [kind |-> "time_series", index |-> "datetime", target |-> "regression",
     timeframe |-> "1d", frequency |-> Unknown, pit |-> "yes",
     fields |-> {"ohlcv.close", "entity_id", "timestamp"}, history |-> 130, universe |-> 2,
     members |-> NotSaid]

MCDatasets ==
    [full |-> Full, short |-> [Full EXCEPT !.history = 40],
     single |-> [Full EXCEPT !.universe = 1],
     vague |-> [Full EXCEPT !.history = NotSaid, !.universe = NotSaid, !.kind = Unknown,
                            !.index = Unknown],
     tabular |-> [Full EXCEPT !.kind = "tabular"],
     readiness |-> [Full EXCEPT !.fields = {}, !.pit = Unknown, !.history = NotSaid,
                                !.universe = NotSaid]]

Torch(lookback, horizon, heads) ==
    [family |-> "torch_nn_timeseries", lookback |-> lookback, horizon |-> horizon,
     heads |-> heads, hidden |-> 12, transformer |-> FALSE]

MCModelConfigs ==
    {Torch(30, 5, 1), Torch(100, 40, 1), Torch(0, 5, 1), Torch(30, 5, 2),
     [family |-> "arima", p |-> 1, d |-> 1, q |-> 0],
     [family |-> "kalman_filter", states |-> 2, observed |-> 1, identity |-> FALSE],
     [family |-> "kalman_filter", states |-> 2, observed |-> 1, identity |-> TRUE]}

RunOf(dataset, task) ==
    [config |-> "m1", dataset |-> dataset, task |-> task, profile |-> Unknown,
     params |-> {<<"epochs", 1>>}]

MCRunRequests ==
    {RunOf(d, <<"time_series_momentum", "ranking">>) : d \in DOMAIN MCDatasets}
        \cup {RunOf(d, <<"time_series_momentum", "entry_signal">>) :
                d \in {"full", "short", "missing"}}
        \cup {[RunOf("full", <<"cross_sectional", "ranking">>) EXCEPT !.profile = "embargo"]}

MCTemplatePosts ==
    {[task |-> <<"cross_sectional", "ranking">>, profile |-> "walk_forward",
      params |-> {<<"epochs", 2>>, <<"depth", 3>>}]}

-----------------------------------------------------------------------------
(* Rows to split: by entity, with an entity twice, with one, and with none. *)

Five == <<"a", "b", "c", "d", "e">>
Ten == <<"p0", "p1", "p2", "p3", "p4", "p5", "p6", "p7", "p8", "p9">>
RowsFor(entities) ==
    [i \in DOMAIN entities |-> [entity |-> entities[i], ts |-> i, whole |-> TRUE]]

MCPlaceholders == RowsFor(Ten)

SplitIntent(given_, profile, family, contract) ==
    [rows |-> given_, profile |-> profile, family |-> family, contract |-> contract]

\* What doubles make of 70 percent of up to 200 entities.
MCRoundedDown == {<<90, 70>>, <<170, 70>>, <<180, 70>>}

MCIntents ==
    {SplitIntent(RowsFor(e), p, "ml", FALSE) :
        e \in {Five, <<"a", "b", "a", "c", "d", "b">>, <<"a">>, <<"a", "a">>},
        p \in {"alpha", "baseline", "custom"}}
    \cup {SplitIntent(<<>>, p, f, TRUE) : p \in {"", "baseline"}, f \in {"alpha", "statistical"}}
    \cup {SplitIntent(RowsFor(<<"a", "none", "b">>), "", "ml", FALSE)}
    \cup {SplitIntent(<<[entity |-> "a", ts |-> t, whole |-> w],
                        [entity |-> "a", ts |-> 1, whole |-> TRUE],
                        [entity |-> "b", ts |-> 0, whole |-> TRUE]>>, "alpha", "ml", TRUE) :
            t \in {1, 2}, w \in BOOLEAN}

\* Three orders of a set of strings, and three permutations random.shuffle may apply.
RankIn(order) == [e \in ToSet(order) |-> CHOOSE k \in DOMAIN order : order[k] = e]
MCHashOrders ==
    {RankIn(Five \o Ten), RankIn(Reverse(Five \o Ten)),
     RankIn(<<"c", "a">> \o Ten \o <<"e", "b", "d">>)}
MCShuffles ==
    {[n \in 1 .. 10 |-> [i \in 1 .. n |-> i]],
     [n \in 1 .. 10 |-> [i \in 1 .. n |-> n + 1 - i]],
     [n \in 1 .. 10 |-> [i \in 1 .. n |-> 1 + ((i + n \div 2) % n)]]}

Stamps ==
    {<<1, 2, 3, 4, 5, 6, 7>>, <<1, 1, 2, 4, 4, 4, 7, 8>>, <<3, 1, 2>>, <<1, 2>>,
     <<5, 4, 3, 2, 1>>}
TimeRows ==
    {[i \in DOMAIN t |-> [ts |-> t[i], known |-> IF i = late THEN 9 ELSE 0]] :
        t \in Stamps, late \in {0, 3}}
MCFoldInputs == [rows : TimeRows, splits : 2 .. 5, purge : 0 .. 2, embargo : 0 .. 2]
MCWalkInputs ==
    [rows : TimeRows, train : 1 .. 3, test : 1 .. 2, step : 1 .. 2, expanding : BOOLEAN]
=============================================================================
