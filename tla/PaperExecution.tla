--------------------------- MODULE PaperExecution ---------------------------
(***************************************************************************)
(* PaperExecutionEngine: an order intent is answered with the events of an  *)
(* order and its fills, made up at once and kept under the idempotency key; *)
(* the key answers every later call.  The results live in memory.           *)
(*                                                                          *)
(* Quantities of fills are counted in parts of 1 / Slices.  The engine adds *)
(* up floats: where Slices is not one of Exact the sum of all its fills may *)
(* come out short of the quantity, or not.                                  *)
(***************************************************************************)
EXTENDS Integers, Sequences, FiniteSets, FiniteSetsExt, SequencesExt

CONSTANTS
    PaperKeys,    \* idempotency keys
    OrderSizes,   \* quantities of intents, > 0
    QueueAhead,   \* queue_ahead_qty
    Slices,       \* max_fill_slices, at least 1
    Exact,        \* numbers of slices whose sum of floats is exact
    NeedsLimit,   \* reject_if_missing_limit
    MaxCalls,     \* bound: calls of process_intent
    MaxRestarts   \* bound: restarts of the process the engine lives in

ASSUME PaperConstants ==
    /\ OrderSizes \subseteq Nat \ {0} /\ QueueAhead \in Nat /\ Slices \in Nat \ {0}
    /\ Exact \subseteq Nat /\ NeedsLimit \in BOOLEAN /\ MaxCalls \in Nat /\ MaxRestarts \in Nat

VARIABLES
    intentResults,  \* _intent_results: key -> [order, orderEvents, fills]
    answers,        \* history: [key, intent, result, life]
    life            \* restarts so far

paperVars == <<intentResults, answers, life>>

OrderIntents == [quantity : OrderSizes, limit : BOOLEAN]
PaperStatuses == {"submitted", "ack", "rejected", "canceled"}

PaperInit == intentResults = <<>> /\ answers = <<>> /\ life = 0

-----------------------------------------------------------------------------
Least(x, y) == IF x < y THEN x ELSE y

\* uuid5_from_key: from the key and the number of the fill, the same in every life.
FillId(key, order, n) == <<key, n>>

\* The n-th slice, counted in parts: the same share of the order each time, and
\* not more than what was free before the first.
FillQuantity(total, n) ==
    LET share == Least(total, Slices * (total - QueueAhead))
    IN  Least(share, Slices * total - (n - 1) * share)

FillsOf(key, order, total) ==
    [n \in 1 .. Slices |-> [id |-> FillId(key, order, n), quantity |-> FillQuantity(total, n)]]

FilledParts(fills) == FoldSeq(LAMBDA f, sum : sum + f.quantity, 0, fills)

\* Mutant of Results: the fills are held against what was free, not the order.
ResultsOfFree(key, order, intent) ==
    LET fills == FillsOf(key, order, intent.quantity)
        made(events, f) == [order |-> order, quantity |-> intent.quantity,
                            orderEvents |-> events, fills |-> f]
    IN  IF NeedsLimit /\ ~intent.limit THEN {made(<<"submitted", "rejected">>, <<>>)}
        ELSE IF intent.quantity <= QueueAhead
             THEN {made(<<"submitted", "ack", "canceled">>, <<>>)}
        ELSE IF FilledParts(fills) < Slices * (intent.quantity - QueueAhead)
             THEN {made(<<"submitted", "ack", "canceled">>, fills)}
        ELSE {made(<<"submitted", "ack">>, fills)}
             \cup (IF Slices \in Exact THEN {}
                   ELSE {made(<<"submitted", "ack", "canceled">>, fills)})

\* What process_intent makes for a new key.
Results(key, order, intent) ==
    LET fills == FillsOf(key, order, intent.quantity)
        made(events, f) == [order |-> order, quantity |-> intent.quantity,
                            orderEvents |-> events, fills |-> f]
    IN  IF NeedsLimit /\ ~intent.limit THEN {made(<<"submitted", "rejected">>, <<>>)}
        ELSE IF intent.quantity <= QueueAhead
             THEN {made(<<"submitted", "ack", "canceled">>, <<>>)}
        ELSE IF FilledParts(fills) < Slices * intent.quantity
             THEN {made(<<"submitted", "ack", "canceled">>, fills)}
        ELSE {made(<<"submitted", "ack">>, fills)}
             \cup (IF Slices \in Exact THEN {}
                   ELSE {made(<<"submitted", "ack", "canceled">>, fills)})

Answer(key, intent, result) ==
    answers' = Append(answers, [key |-> key, intent |-> intent, result |-> result, life |-> life])

ProcessIntent(key, intent) ==
    /\ Len(answers) < MaxCalls
    /\ IF key \in DOMAIN intentResults
       THEN Answer(key, intent, intentResults[key]) /\ UNCHANGED intentResults
       ELSE \E r \in Results(key, Len(answers) + 1, intent) :
              /\ Answer(key, intent, r)
              /\ intentResults' = [k \in DOMAIN intentResults \cup {key} |->
                                    IF k = key THEN r ELSE intentResults[k]]
    /\ UNCHANGED life

RestartEngine ==
    /\ life < MaxRestarts /\ life' = life + 1
    /\ intentResults' = <<>>
    /\ UNCHANGED answers

PaperNext ==
    \/ \E key \in PaperKeys, intent \in OrderIntents : ProcessIntent(key, intent)
    \/ RestartEngine

PaperSpec == PaperInit /\ [][PaperNext]_paperVars

-----------------------------------------------------------------------------
\* Between two restarts a key is one order: each call with it is answered with
\* the order, the events and the fills of the first, rejected orders included.
OneOrderPerKey ==
    \A a, b \in ToSet(answers) : a.key = b.key /\ a.life = b.life => a.result = b.result

\* A caller that drops fills whose id it knows books an intent once, also when
\* the call is repeated after a restart has made a second order of it; each key
\* is taken to stand for one intent.
KeyIsOneIntent == \A a, b \in ToSet(answers) : a.key = b.key => a.intent = b.intent

BookedOnce ==
    KeyIsOneIntent =>
        \A a \in ToSet(answers) :
            LET fills == UNION {ToSet(b.result.fills) : b \in {c \in ToSet(answers) : c.key = a.key}}
            IN  MapThenSumSet(LAMBDA f : f.quantity, fills) <= Slices * a.intent.quantity

\* An order that is not filled to the last part is closed by a rejection or a
\* cancellation, and none is filled beyond its quantity.
OrderClosed ==
    \A a \in ToSet(answers) :
        /\ FilledParts(a.result.fills) <= Slices * a.result.quantity
        /\ Last(a.result.orderEvents) = "ack"
           => FilledParts(a.result.fills) = Slices * a.result.quantity
        /\ ToSet(a.result.orderEvents) \subseteq PaperStatuses

\* What a caller of process_intent may rely on through repeated calls and restarts: an
\* intent is one order, booked once, closed by its last event and never overfilled.
OrdersKept ==
    /\ OneOrderPerKey
    /\ BookedOnce
    /\ OrderClosed
=============================================================================
