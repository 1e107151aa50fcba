----------------------------- MODULE MCServices -----------------------------
(* An instance for TLC of the services and the libraries they run on.  Between an    *)
(* intent and the books: the risk service, the paper adapter, the portfolio state,   *)
(* the execution engine and its analytics, and the replay of a backtest.  Around the *)
(* stores: the event log, the feed ingest, the bar cache and the ingest requests.    *)
(* They share no state; what one takes from another is given to it as an input.  A   *)
(* behaviour is one of a single component, the part, and the others rest.            *)
EXTENDS RiskExec, PaperExecution, PortfolioState, ExecutionEngine, ExecutionAnalytics,
        BacktestReplay, EventLog, FeedIngest, BarCache, DataRequests, TLC

CONSTANTS momentum, unknown, a, b, c, j1, j2, c1, c2

VARIABLE part

-----------------------------------------------------------------------------
UnknownLimited == unknown :> 3

\* The slices by which a size divides without a remainder of floating point.
MCExact == {1, 2, 3, 4, 8}

\* A venue that always leaves a half on the book, and a dark one that pays a rebate.
MCChance == [v \in {"lit", "dark"} |-> IF v = "lit" THEN 50 ELSE 0]
MCFee == [v \in {"lit", "dark"} |-> IF v = "lit" THEN 3 ELSE -2]
MCCaps == {-1, 2}
MCEdges == {-1, 2}

-----------------------------------------------------------------------------
(* The ticks of two streams: in order, again, late, skewed, without a time, malformed. *)

ATick(stream, seq, at, valid) == [stream |-> stream, seq |-> seq, at |-> at, valid |-> valid]

MCTicks ==
    {ATick("a", n, n, TRUE) : n \in 0 .. 2}
        \cup {ATick("a", 1, 3, TRUE), ATick("b", 1, NoTime, TRUE), ATick("b", 2, 0, FALSE)}

(* The ingest requests: with and without a key, over a preset or spelled out. *)

MCPayloads ==
    {PayloadOf(NoKey, NoPreset, <<"A", "B">>, <<"d", "h">>, 1, 2),
     PayloadOf([client |-> "k"], NoPreset, <<"A">>, <<"d">>, 1, 2),
     PayloadOf([client |-> "k"], NoPreset, <<"B">>, <<>>, 1, 3),
     PayloadOf([spec |-> <<{"A"}, {"d"}, 1, 2>>], NoPreset, <<"B">>, <<"h", "d">>, 1, 2),
     PayloadOf([batch |-> <<2, "flex">>], NoPreset, <<"A", "B">>, <<"h", "d">>, 1, 2),
     PayloadOf(NoKey, NoPreset, <<"A">>, <<"d">>, 0, 2),
     PayloadOf(NoKey, "core", <<"B">>, <<>>, 0, 0),
     PayloadOf(NoKey, "flex", <<"B">>, <<>>, 0, 0)}

MCBatches == {<<"core", "flex">>, <<"core", "none">>}

MCPresets ==
    [core |-> [symbols |-> <<"A">>, resolutions |-> <<"d">>, start |-> 1, end |-> 2,
               manual |-> FALSE],
     flex |-> [symbols |-> <<>>, resolutions |-> <<"h">>, start |-> 2, end |-> 3,
               manual |-> TRUE]]

-----------------------------------------------------------------------------
servicesVars ==
    <<part, vars, paperVars, portfolioVars, engineVars, analyticsVars, replayVars,
      logVars, feedVars, barVars, requestVars>>

\* What a component starts from is chosen only where it is the part.
ServicesInit ==
    /\ part \in {"risk", "paper", "portfolio", "engine", "analytics", "replay",
                 "events", "feed", "bars", "requests"}
    /\ Init /\ PaperInit /\ PortfolioInit /\ EngineInit /\ AnalyticsInit /\ ReplayInit
    /\ LogInit /\ FeedInit /\ BarInit /\ RequestsInit
    /\ part # "portfolio" => prodSnapshots
    /\ part # "engine" => engine = CHOOSE e \in Engines : TRUE

ServicesNext ==
    /\ UNCHANGED part
    /\ \/ /\ part = "risk" /\ Next
          /\ UNCHANGED <<paperVars, portfolioVars, engineVars, analyticsVars, replayVars, logVars,
                         feedVars, barVars, requestVars>>
       \/ /\ part = "paper" /\ PaperNext
          /\ UNCHANGED <<vars, portfolioVars, engineVars, analyticsVars, replayVars, logVars,
                         feedVars, barVars, requestVars>>
       \/ /\ part = "portfolio" /\ PortfolioNext
          /\ UNCHANGED <<vars, paperVars, engineVars, analyticsVars, replayVars, logVars,
                         feedVars, barVars, requestVars>>
       \/ /\ part = "engine" /\ EngineNext
          /\ UNCHANGED <<vars, paperVars, portfolioVars, analyticsVars, replayVars, logVars,
                         feedVars, barVars, requestVars>>
       \/ /\ part = "analytics" /\ AnalyticsNext
          /\ UNCHANGED <<vars, paperVars, portfolioVars, engineVars, replayVars, logVars,
                         feedVars, barVars, requestVars>>
       \/ /\ part = "replay" /\ ReplayNext
          /\ UNCHANGED <<vars, paperVars, portfolioVars, engineVars, analyticsVars, logVars,
                         feedVars, barVars, requestVars>>
       \/ /\ part = "events" /\ LogNext
          /\ UNCHANGED <<vars, paperVars, portfolioVars, engineVars, analyticsVars, replayVars,
                         feedVars, barVars, requestVars>>
       \/ /\ part = "feed" /\ FeedNext
          /\ UNCHANGED <<vars, paperVars, portfolioVars, engineVars, analyticsVars, replayVars,
                         logVars, barVars, requestVars>>
       \/ /\ part = "bars" /\ BarNext
          /\ UNCHANGED <<vars, paperVars, portfolioVars, engineVars, analyticsVars, replayVars,
                         logVars, feedVars, requestVars>>
       \/ /\ part = "requests" /\ RequestsNext
          /\ UNCHANGED <<vars, paperVars, portfolioVars, engineVars, analyticsVars, replayVars,
                         logVars, feedVars, barVars>>

\* The fairness of the two components that loop by themselves: the risk service, and the
\* snapshot service with the control plane that listens to it.
ServicesSpec ==
    /\ ServicesInit /\ [][ServicesNext]_servicesVars
    /\ WF_vars(part = "risk" /\ (Consume \/ Reject))
    /\ WF_vars(part = "risk" /\ PublishDecision)
    /\ WF_portfolioVars(part = "portfolio" /\ (ReadSome \/ PublishSnapshot))
    /\ WF_portfolioVars(part = "portfolio" /\ ReceiveSnapshot)
=============================================================================
