--------------------------- MODULE ExecutionEngine ---------------------------
(***************************************************************************)
(* ExecutionEngine.process_fill of service-risk-exec: what an order gets of *)
(* a market event, under the router policy and one of the two fill models.  *)
(* Quantities are whole numbers, participation caps count halves and what   *)
(* is displayed counts twos, so that their product is whole; the score of   *)
(* the router is taken times 10 000.  Costs are left out: each is the fill  *)
(* times a rate, and none changes it.                                       *)
(***************************************************************************)
EXTENDS Integers, FiniteSets

CONSTANTS
    OrderQtys,     \* quantities of orders
    Volumes,       \* displayed, queued, traded and canceled quantities of events
    CapHalves,     \* participation caps, in halves; one may be negative
    Venues,
    FillChance,    \* baseline_fill_prob_by_venue, percent
    NetFeeBps      \* fee minus rebate of each venue, basis points

ASSUME EngineConstants ==
    /\ OrderQtys \subseteq Nat /\ Volumes \subseteq Nat /\ CapHalves \subseteq Int
    /\ FillChance \in [Venues -> 0 .. 100] /\ NetFeeBps \in [Venues -> Int]

VARIABLES
    engine,     \* [cap, queueModel, routed]: how the engine was put together
    taken       \* the last call and its result, [order, event, result]; <<>> before

engineVars == <<engine, taken>>

Engines == [cap : CapHalves, queueModel : BOOLEAN, routed : BOOLEAN]
Orders == [qty : OrderQtys, aggressive : BOOLEAN, expired : BOOLEAN, cooling : BOOLEAN]
MarketEvents == [displayed : Volumes, queue : Volumes, traded : Volumes, canceled : Volumes,
                 deep : BOOLEAN, venue : Venues]

EngineInit == engine \in Engines /\ taken = <<>>

-----------------------------------------------------------------------------
NoLess(x, y) == IF x > y THEN x ELSE y
NoMore(x, y) == IF x < y THEN x ELSE y
Advanced(ev) == ev.canceled + ev.traded

\* VenueAwareRouterPolicy.score is below zero.
RouterRefuses(ev) ==
    LET depth == NoLess(2 * ev.displayed, 1)
    IN  engine.routed /\ (100 * FillChance[ev.venue] - NetFeeBps[ev.venue]) * depth
                          < 10000 * NoMore(NoLess(ev.queue - Advanced(ev), 0), depth)

\* Mutant of MaxFill: the queue ahead is left out.
MaxFillAheadOfQueue(o, ev) ==
    LET share == NoMore(o.qty, ev.displayed * NoLess(engine.cap, 0))
    IN  IF engine.queueModel /\ ~o.aggressive THEN NoMore(share, Advanced(ev)) ELSE share

\* max_fill_qty of the participation cap, and of the queue advancement model,
\* which gives a passive order only what has moved past the queue.
MaxFill(o, ev) ==
    LET share == NoMore(o.qty, ev.displayed * NoLess(engine.cap, 0))
    IN  IF engine.queueModel /\ ~o.aggressive
        THEN NoMore(share, NoLess(Advanced(ev) - ev.queue, 0)) ELSE share

FillResult(o, ev) ==
    LET fill == NoLess(0, NoMore(o.qty, MaxFill(o, ev)))
        none(state) == [fill |-> 0, state |-> state, queue |-> ev.queue]
    IN  IF o.expired THEN none("expired")
        ELSE IF (o.cooling /\ ev.deep) \/ RouterRefuses(ev) \/ fill = 0 THEN none("acknowledged")
        ELSE [fill |-> fill, state |-> IF fill >= o.qty THEN "filled" ELSE "partially_filled",
              queue |-> NoLess(ev.queue - Advanced(ev), 0)]

ProcessFill(o, ev) ==
    /\ taken' = <<[order |-> o, event |-> ev, result |-> FillResult(o, ev)]>>
    /\ UNCHANGED engine

EngineNext == taken = <<>> /\ \E o \in Orders, ev \in MarketEvents : ProcessFill(o, ev)
EngineSpec == EngineInit /\ [][EngineNext]_engineVars

-----------------------------------------------------------------------------
\* Under the queue model a passive order is filled only by volume that has gone
\* past the whole queue ahead of it, which is then used up; and no order gets
\* more than it asked for or than its share of what was displayed.
Served(o, ev, r) ==
    r.fill > 0 =>
        /\ r.fill <= o.qty /\ r.fill <= engine.cap * ev.displayed
        /\ engine.queueModel /\ ~o.aggressive
           => r.fill + ev.queue <= Advanced(ev) /\ r.queue = 0
        /\ r.state = "filled" <=> r.fill = o.qty

QueueServedFirst ==
    taken # <<>> => Served(taken[1].order, taken[1].event, taken[1].result)

\* One more lot traded or canceled at the level, or displayed, never costs an
\* order part of its fill, on any path through the router and the fill models.
Busier(ev) ==
    {[ev EXCEPT !.displayed = @ + 1], [ev EXCEPT !.traded = @ + 1], [ev EXCEPT !.canceled = @ + 1]}

ActivityHelps ==
    taken # <<>> =>
        \A ev \in Busier(taken[1].event) :
            FillResult(taken[1].order, ev).fill >= taken[1].result.fill

\* The fills of the engine follow the book: the queue is served first, the cap holds, and
\* more activity never costs a fill (route_order and the fill models).
FillsFair ==
    /\ QueueServedFirst
    /\ ActivityHelps
=============================================================================
