--------------------------- MODULE BacktestReplay ---------------------------
(***************************************************************************)
(* The replay of a backtest's event log and its validation.  A session      *)
(* produces events; the log that is replayed can have lost one, hold one    *)
(* twice or have one late.  replay_backtest is applied to both, as an       *)
(* operator on the book it builds, and validate_replay compares the books.  *)
(*                                                                         *)
(* The average price of a position and the rounding are left out: no        *)
(* comparison uses them.  Explicit ids stand for "order-1", "order-2", ...: *)
(* an order without an id gets the number of known orders plus one.         *)
(***************************************************************************)
EXTENDS Integers, Sequences, FiniteSets, SequencesExt, FiniteSetsExt

CONSTANTS
    Symbols,        \* symbols of orders
    OrderIds,       \* ids an order event can bear; 0: none
    FillPrices,     \* prices of fills
    LimitPrice,     \* price of every order
    MaxReplayEvents \* bound: events of the session

ASSUME ReplayConstants ==
    /\ OrderIds \subseteq Nat /\ FillPrices \subseteq Nat
    /\ LimitPrice \in Nat /\ MaxReplayEvents \in Nat

OrderEvents == [type : {"order"}, id : OrderIds, symbol : Symbols, side : {1, -1}]
FillEvents == [type : {"fill"}, id : OrderIds \ {0}, price : FillPrices]
DecisionEvents == [type : {"decision"}]

VARIABLES
    live,      \* the book of the session's own log
    again,     \* the book of the log that is replayed
    recorded,  \* events of the session so far
    held,      \* the event that is late, if any
    fault,     \* history: what happened to the log
    replaced,  \* history: ids the session accepted again after a fill
    chosen     \* history: ids that came with an order of the session

replayVars == <<live, again, recorded, held, fault, replaced, chosen>>

-----------------------------------------------------------------------------
(* replay_backtest, one event at a time. *)
EmptyBook == [orders |-> <<>>, positions |-> <<>>, cash |-> 0, fees |-> 0,
              slippage |-> 0, inventoryOk |-> TRUE, cashOk |-> TRUE, decisions |-> 0]

KnownIds(b) == {b.orders[i].id : i \in DOMAIN b.orders}
At(b, id) == CHOOSE i \in DOMAIN b.orders : b.orders[i].id = id

IdOf(b, e) == IF e.id = 0 THEN Len(b.orders) + 1 ELSE e.id

\* A known id gets a new order in the place of the old one, without its fills.
AcceptOrder(b, e) ==
    LET order == [id |-> IdOf(b, e), symbol |-> e.symbol, side |-> e.side, fills |-> <<>>]
    IN  [b EXCEPT !.orders = IF order.id \in KnownIds(b)
                             THEN [b.orders EXCEPT ![At(b, order.id)] = order]
                             ELSE Append(b.orders, order)]

\* Every fill is of quantity 1 and costs a fee of 1.
Fee == 1
FilledOf(order) == order.side * Len(order.fills)
PaidOf(order) == SumFunction([n \in DOMAIN order.fills |-> -(order.side * order.fills[n]) - Fee])
Filled(orders) == SumFunction([i \in DOMAIN orders |-> FilledOf(orders[i])])
Paid(orders) == SumFunction([i \in DOMAIN orders |-> PaidOf(orders[i])])
Inventory(positions) == SumFunction(positions)
PositionOf(b, s) == IF s \in DOMAIN b.positions THEN b.positions[s] ELSE 0

Slip(price) == IF LimitPrice = 0 THEN 0
               ELSE IF price > LimitPrice THEN price - LimitPrice ELSE LimitPrice - price

\* A fill of an unknown order is skipped.  Both flags only ever fall: they are
\* the conjunction of those of the P&L events.
ApplyFill(b, e) ==
    IF e.id \notin KnownIds(b) THEN b
    ELSE LET i == At(b, e.id)
             order == b.orders[i]
             orders == [b.orders EXCEPT ![i].fills = Append(@, e.price)]
             positions == [s \in DOMAIN b.positions \cup {order.symbol} |->
                             PositionOf(b, s) + (IF s = order.symbol THEN order.side ELSE 0)]
             cash == b.cash - order.side * e.price - Fee
         IN  [b EXCEPT !.orders = orders, !.positions = positions, !.cash = cash,
                       !.fees = @ + Fee, !.slippage = @ + Slip(e.price),
                       !.inventoryOk = @ /\ Inventory(positions) = Filled(orders),
                       !.cashOk = @ /\ cash = Paid(orders)]

ReplayEvent(b, e) ==
    CASE e.type = "decision" -> [b EXCEPT !.decisions = @ + 1]
      [] e.type = "order" -> AcceptOrder(b, e)
      [] e.type = "fill" -> ApplyFill(b, e)

-----------------------------------------------------------------------------
ReplayInit ==
    /\ live = EmptyBook /\ again = EmptyBook
    /\ recorded = 0 /\ held = <<>> /\ fault = "none" /\ replaced = {} /\ chosen = {}

Applies(e) == e.type = "fill" /\ e.id \in KnownIds(live)

\* The session goes on by one event.
Record(e) ==
    /\ recorded < MaxReplayEvents /\ recorded' = recorded + 1
    /\ live' = ReplayEvent(live, e)
    /\ replaced' = IF /\ e.type = "order" /\ IdOf(live, e) \in KnownIds(live)
                      /\ live.orders[At(live, IdOf(live, e))].fills # <<>>
                   THEN replaced \cup {IdOf(live, e)} ELSE replaced
    /\ chosen' = IF e.type = "order" /\ e.id # 0 THEN chosen \cup {e.id} ELSE chosen

\* The log keeps the event where it belongs.
LogEvent(e) ==
    /\ Record(e) /\ again' = ReplayEvent(again, e) /\ UNCHANGED <<held, fault>>

LoseEvent(e) ==
    /\ fault = "none" /\ Record(e) /\ UNCHANGED <<again, held>>
    /\ fault' = IF Applies(e) THEN "fill lost" ELSE "other"

RepeatEvent(e) ==
    /\ fault = "none" /\ Record(e) /\ UNCHANGED held
    /\ again' = ReplayEvent(ReplayEvent(again, e), e)
    /\ fault' = IF Applies(e) THEN "fill twice" ELSE "other"

DelayEvent(e) ==
    /\ fault = "none" /\ Record(e) /\ held' = <<e>> /\ fault' = "other" /\ UNCHANGED again

ReleaseEvent ==
    /\ held # <<>> /\ held' = <<>> /\ again' = ReplayEvent(again, held[1])
    /\ UNCHANGED <<live, recorded, fault, replaced, chosen>>

ReplayNext ==
    \/ \E e \in OrderEvents \cup FillEvents \cup DecisionEvents :
        LogEvent(e) \/ LoseEvent(e) \/ RepeatEvent(e) \/ DelayEvent(e)
    \/ ReleaseEvent

ReplaySpec == ReplayInit /\ [][ReplayNext]_replayVars

-----------------------------------------------------------------------------
(* validate_replay. *)
Outcome(b) == [decisions |-> b.decisions, orders |-> b.orders,
               positions |-> b.positions, pnl |-> <<b.cash, b.fees, b.slippage>>]

\* Mutant of Verdict: only what is reported in the end is compared.
VerdictOnCounts(pinned) ==
    IF pinned /\ Len(live.orders) = Len(again.orders) /\ live.decisions = again.decisions
    THEN "ok" ELSE "diverged"

Verdict(pinned) == IF pinned /\ Outcome(live) = Outcome(again) THEN "ok" ELSE "diverged"

-----------------------------------------------------------------------------
\* Books are books of known symbols and ids, and a position never exceeds the
\* number of fills that could have made it.
ReplayTypeOK ==
    \A b \in {live, again} :
        /\ \A i, j \in DOMAIN b.orders : b.orders[i].id = b.orders[j].id => i = j
        /\ \A s \in DOMAIN b.positions : s \in Symbols /\ b.positions[s] \in -b.fees .. b.fees
        /\ b.fees \in 0 .. recorded + 1 /\ b.slippage \in Nat
        /\ {b.inventoryOk, b.cashOk} \subseteq BOOLEAN

\* As long as no id was accepted again after a fill, the position of each symbol
\* is the sum of the fills of its orders, and cash and fees are what they cost:
\* the code checks the sum over all symbols only.
FilledIn(orders, s) ==
    SumFunction([i \in DOMAIN orders |-> IF orders[i].symbol = s THEN FilledOf(orders[i]) ELSE 0])

BooksBalance ==
    replaced = {} =>
        /\ \A s \in Symbols : PositionOf(live, s) = FilledIn(live.orders, s)
        /\ live.cash = Paid(live.orders)

\* The reconciliation raises no false alarm: when it reports the books of a
\* session as inconsistent, an id was accepted again after a fill.
AlarmsExplained == ~(live.inventoryOk /\ live.cashOk) => replaced # {}

\* Orders without an id never take each other's place: only an id that somebody
\* chose can meet the one an order without an id is given.
AnonymousNeverMeet == replaced \subseteq chosen

\* A fill that is missing from the log, or is in it twice, is always told
\* (test_replay_parity_faults.py injects one after the last event only), whatever
\* follows it; a log with nothing wrong is told to be right.
FillFaultTold ==
    held = <<>> =>
        /\ fault \in {"fill lost", "fill twice"} => Verdict(TRUE) = "diverged"
        /\ fault = "none" => Verdict(TRUE) = "ok"

\* The books of a session and their replay tell the truth: they balance, the checks on
\* them report what is wrong and nothing else.
ReplayTells ==
    /\ ReplayTypeOK
    /\ BooksBalance
    /\ AlarmsExplained
    /\ AnonymousNeverMeet
    /\ FillFaultTold
=============================================================================
