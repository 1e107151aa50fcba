------------------------- MODULE ExecutionAnalytics -------------------------
(***************************************************************************)
(* ExecutionAnalyticsStore: totals kept up to date event by event, and the  *)
(* reconciliation that empties the store and books all events again in the  *)
(* order of their times.  Events may arrive in any order.                   *)
(***************************************************************************)
EXTENDS Integers, Sequences, FiniteSets, SequencesExt, FiniteSetsExt

CONSTANTS
    Tickers,      \* symbols
    Lots,         \* quantities
    Edges,        \* realized edge less fees and slippage, per unit
    LastStamp,    \* bound: timestamps of events
    MaxBooked     \* bound: events booked

ASSUME AnalyticsConstants ==
    /\ IsFiniteSet(Tickers) /\ Lots \subseteq Nat /\ Edges \subseteq Int
    /\ LastStamp \in Nat /\ MaxBooked \in Nat

VARIABLES booked,   \* ExecutionAnalyticsStore.events
          totals,   \* its sums
          curve,    \* _equity_curve: [ts, pnl]
          arrived   \* history: how often each event ingested so far was ingested

analyticsVars == <<booked, totals, curve, arrived>>

\* The price of a unit is 1, so that its notional is its signed quantity.
Executions == [ts : 1 .. LastStamp, symbol : Tickers, buy : BOOLEAN, qty : Lots, edge : Edges]

Zero == [traded |-> 0, exposure |-> [s \in Tickers |-> 0], gross |-> 0, net |-> 0,
         pnl |-> 0, wins |-> 0, losses |-> 0]
EmptyStore == [events |-> <<>>, totals |-> Zero, curve |-> <<>>]

AnalyticsInit ==
    /\ booked = EmptyStore.events /\ totals = EmptyStore.totals /\ curve = EmptyStore.curve
    /\ arrived = [e \in {} |-> 0]

Magnitude(x) == IF x < 0 THEN -x ELSE x
Signed(e) == IF e.buy THEN e.qty ELSE -e.qty
TradePnl(e) == e.edge * e.qty

\* The sums of update_incremental; those of fees, slippage and decision quality
\* go the way of the PnL.
Booked(t, e) ==
    LET exposure == [t.exposure EXCEPT ![e.symbol] = @ + Signed(e)]
    IN  [traded |-> t.traded + e.qty, exposure |-> exposure,
         gross |-> SumFunction([s \in Tickers |-> Magnitude(exposure[s])]),
         net |-> SumFunction(exposure),
         pnl |-> t.pnl + TradePnl(e),
         wins |-> t.wins + (IF TradePnl(e) >= 0 THEN 1 ELSE 0),
         losses |-> t.losses + (IF TradePnl(e) >= 0 THEN 0 ELSE 1)]

\* update_incremental.
Updated(store, e) ==
    LET t == Booked(store.totals, e)
    IN  [events |-> Append(store.events, e), totals |-> t,
         curve |-> Append(store.curve, [ts |-> e.ts, pnl |-> t.pnl])]

Arrivals(e) == IF e \in DOMAIN arrived THEN arrived[e] ELSE 0

Keep(store) == booked' = store.events /\ totals' = store.totals /\ curve' = store.curve

BookEvent(e) ==
    /\ Len(booked) < MaxBooked
    /\ Keep(Updated([events |-> booked, totals |-> totals, curve |-> curve], e))
    /\ arrived' = [d \in DOMAIN arrived \cup {e} |-> Arrivals(d) + (IF d = e THEN 1 ELSE 0)]

\* sorted(events, key=ts) is stable: the place of an event is the number of those
\* with an earlier time, or the same and no later arrival.
Earlier(events, n) ==
    {m \in DOMAIN events :
        events[m].ts < events[n].ts \/ (events[m].ts = events[n].ts /\ m <= n)}
Placed(events, k) == CHOOSE n \in DOMAIN events : Cardinality(Earlier(events, n)) = k
InTime(events) == [k \in DOMAIN events |-> events[Placed(events, k)]]

ReconcileFull ==
    /\ booked # <<>>
    /\ Keep(FoldLeft(LAMBDA store, e : Updated(store, e), EmptyStore, InTime(booked)))
    /\ UNCHANGED arrived

AnalyticsNext == (\E e \in Executions : BookEvent(e)) \/ ReconcileFull
AnalyticsSpec == AnalyticsInit /\ [][AnalyticsNext]_analyticsVars

\* Mutant of PeakAt: the fall is taken from the first point.
PeakAtStart(points, n) == points[1].pnl

PeakAt(points, n) == Max({points[k].pnl : k \in 1 .. n})

\* _drawdown.  The peak it dates is the last one, the recovery the last point
\* that reaches the peak again after the deepest fall so far.
Fallen(points, d, n) ==
    LET fall == PeakAt(points, n) - points[n].pnl
    IN  IF fall > d.depth THEN [depth |-> fall, trough |-> n, recovery |-> 0]
        ELSE IF d.trough # 0 /\ fall = 0 THEN [d EXCEPT !.recovery = n] ELSE d

Drawdown(points) ==
    FoldLeft(LAMBDA d, n : Fallen(points, d, n), [depth |-> 0, trough |-> 0, recovery |-> 0],
             [n \in DOMAIN points |-> n])

-----------------------------------------------------------------------------
\* However arrivals and reconciliations interleave, each event is kept as often as
\* it was ingested, and the totals are those of the events: exposure by symbol, gross
\* over the net of each symbol, net, turnover, PnL and the split into wins and losses.
EventsKept ==
    \A e \in Executions : Cardinality({n \in DOMAIN booked : booked[n] = e}) = Arrivals(e)

Held(events, s) ==
    SumFunction([n \in DOMAIN events |-> IF events[n].symbol = s THEN Signed(events[n]) ELSE 0])
Dealt(events) == SumFunction([n \in DOMAIN events |-> events[n].qty])
Earned(events) == SumFunction([n \in DOMAIN events |-> TradePnl(events[n])])

TotalsOfEvents ==
    /\ \A s \in Tickers : totals.exposure[s] = Held(booked, s)
    /\ totals.gross = SumFunction([s \in Tickers |-> Magnitude(totals.exposure[s])])
    /\ Magnitude(totals.net) <= totals.gross /\ totals.gross <= totals.traded
    /\ totals.traded = Dealt(booked) /\ totals.pnl = Earned(booked)
    /\ totals.wins + totals.losses = Len(booked)

\* The depth metrics_snapshot reports is the worst fall between any two points
\* of the curve, and its recovery, if it reports one, comes after that fall.
DepthIsWorstFall ==
    LET d == Drawdown(curve)
        falls == {curve[n[1]].pnl - curve[n[2]].pnl :
                    n \in {q \in (DOMAIN curve) \X (DOMAIN curve) : q[1] <= q[2]}}
    IN  /\ d.depth = Max(falls \cup {0})
        /\ d.recovery # 0 => d.trough < d.recovery

\* The running totals and the curve say what a computation over all events would say
\* (ingest_execution, reconcile_full and metrics_snapshot).
AnalyticsTrue ==
    /\ EventsKept
    /\ TotalsOfEvents
    /\ DepthIsWorstFall
=============================================================================
