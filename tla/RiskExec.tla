------------------------------ MODULE RiskExec ------------------------------
(***************************************************************************)
(* Strategy intents and service-risk-exec: publishers put intents on a     *)
(* Redis pub/sub channel; the service checks each one with the risk        *)
(* authority and with the runtime guard of its strategy, and publishes a   *)
(* decision.  Authority and guard live in the memory of the service.       *)
(*                                                                         *)
(* An intent is a strategy, a quantity and whether the authority's other   *)
(* rules (notional, instrument, session, exposures) accept it.             *)
(***************************************************************************)
EXTENDS Integers, Sequences

CONSTANTS
    Strategies,   \* strategy keys, "unknown" for an intent without one among them
    Limited,      \* those with an entry in strategy_risk_limits.json
    MaxTurnover,  \* max_daily_turnover of each of these
    MaxQuantity,  \* max_quantity of the authority
    Quantities,   \* quantities of intents; 0 stands for an intent without one
    MaxIntents,   \* bound on published intents
    MaxStops      \* bound on stops of the service from outside

ASSUME ConstantsAssumption ==
    /\ Limited \subseteq Strategies
    /\ MaxTurnover \in [Limited -> Nat]
    /\ MaxQuantity \in Nat
    /\ Quantities \subseteq Nat
    /\ MaxIntents \in Nat
    /\ MaxStops \in Nat

VARIABLES
    published,  \* number of intents published
    channel,    \* intents delivered to the subscriber and not read
    up,         \* whether the consumer is subscribed
    pending,    \* the decision it is about to publish, if any
    turnover,   \* StrategyGuardState.cumulative_turnover
    audit,      \* decision_audit_trail: intents and whether they were approved
    decisions,  \* history: decisions published by the running service
    approved,   \* history: quantity approved by the running service
    stops       \* stops from outside so far

guard == <<turnover, audit>>
vars == <<published, channel, up, pending, turnover, audit, decisions, approved, stops>>

\* Payloads that parse as a StrategyIntent, and payloads that do not.
Intents == [id : 1 .. MaxIntents, strategy : Strategies, quantity : Quantities,
            otherRules : BOOLEAN]
Malformed == [id : 1 .. MaxIntents]

Decision(m, ok, action) ==
    [id |-> m.id, strategy |-> m.strategy, approved |-> ok, action |-> action]

Init ==
    /\ published = 0
    /\ channel = << >>
    /\ up = FALSE
    /\ pending = << >>
    /\ turnover = [s \in Strategies |-> 0]
    /\ audit = << >>
    /\ decisions = << >>
    /\ approved = [s \in Strategies |-> 0]
    /\ stops = 0

-----------------------------------------------------------------------------
\* Redis delivers to the subscribers there are: without one the intent is gone.
Publish(m) ==
    /\ published < MaxIntents
    /\ m.id = published + 1
    /\ published' = published + 1
    /\ channel' = IF up THEN Append(channel, m) ELSE channel
    /\ UNCHANGED <<up, pending, guard, decisions, approved, stops>>

\* The process starts with an empty authority and guard, and subscribes.
Start ==
    /\ ~up
    /\ up' = TRUE
    /\ turnover' = [s \in Strategies |-> 0]
    /\ audit' = << >>
    /\ decisions' = << >>
    /\ approved' = [s \in Strategies |-> 0]
    /\ UNCHANGED <<published, channel, pending, stops>>

\* consume_intent.
Accepts(m) == m.quantity > 0 /\ m.quantity <= MaxQuantity /\ m.otherRules

\* evaluate: every intent of a limited strategy counts, refused ones too.
Counted(m) ==
    IF m.strategy \in Limited THEN turnover[m.strategy] + m.quantity ELSE turnover[m.strategy]

\* An intent carries no drawdown, concentration or slippage: only the turnover
\* can exceed its limit.
Exceeds(m) == m.strategy \in Limited /\ Counted(m) > MaxTurnover[m.strategy]

\* Mutant of Count: an intent that exceeds the limit is not counted.
CountIfAllowed(m) ==
    turnover' = [turnover EXCEPT ![m.strategy] = IF Exceeds(m) THEN @ ELSE Counted(m)]

Count(m) == turnover' = [turnover EXCEPT ![m.strategy] = Counted(m)]

\* _consume_intent_payload up to the await of the publish.
Consume ==
    /\ up
    /\ pending = << >>
    /\ channel # << >>
    /\ Head(channel) \in Intents
    /\ channel' = Tail(channel)
    /\ LET m == Head(channel)
           ok == Accepts(m) /\ ~Exceeds(m)
       IN
         /\ Count(m)
         /\ audit' = Append(audit, [id |-> m.id, approved |-> Accepts(m)])
         /\ pending' = <<Decision(m, ok, IF Exceeds(m) THEN "block_new_orders" ELSE "none")>>
         /\ approved' = [approved EXCEPT ![m.strategy] = @ + IF ok THEN m.quantity ELSE 0]
    /\ UNCHANGED <<published, up, decisions, stops>>

\* Mutant of PublishDecision: only approvals are published.
PublishApproval ==
    /\ pending # << >>
    /\ decisions' = IF pending[1].approved THEN decisions \o pending ELSE decisions
    /\ pending' = << >>
    /\ UNCHANGED <<published, channel, up, guard, approved, stops>>

PublishDecision ==
    /\ pending # << >>
    /\ decisions' = decisions \o pending
    /\ pending' = << >>
    /\ UNCHANGED <<published, channel, up, guard, approved, stops>>

Halt ==
    /\ up' = FALSE
    /\ channel' = << >>
    /\ pending' = << >>
    /\ UNCHANGED <<published, guard, decisions, approved>>

\* An intent that does not parse raises out of the consumer loop.
Reject ==
    /\ up
    /\ pending = << >>
    /\ channel # << >>
    /\ Head(channel) \in Malformed
    /\ Halt
    /\ UNCHANGED stops

\* The service is stopped, or loses its connection to Redis.
Stop ==
    /\ up
    /\ stops < MaxStops
    /\ stops' = stops + 1
    /\ Halt

Next ==
    \/ \E m \in Intents \cup Malformed : Publish(m)
    \/ Start
    \/ Consume
    \/ PublishDecision
    \/ Reject
    \/ Stop

Spec == Init /\ [][Next]_vars

\* The consumer loop runs on.
LiveSpec == Spec /\ WF_vars(Consume \/ Reject) /\ WF_vars(PublishDecision)

-----------------------------------------------------------------------------
(* Properties. *)

DecisionSet == [id : 1 .. MaxIntents, strategy : Strategies, approved : BOOLEAN,
                action : {"none", "block_new_orders"}]

\* Type invariant.
TypeOK ==
    /\ published \in 0 .. MaxIntents
    /\ channel \in Seq(Intents \cup Malformed)
    /\ up \in BOOLEAN
    /\ pending \in Seq(DecisionSet) /\ Len(pending) <= 1
    /\ turnover \in [Strategies -> Nat]
    /\ audit \in Seq([id : 1 .. MaxIntents, approved : BOOLEAN])
    /\ decisions \in Seq(DecisionSet)
    /\ approved \in [Strategies -> Nat]
    /\ stops \in 0 .. MaxStops

\* As long as the service runs, what it approves for a strategy stays within
\* the strategy's limit, whatever mix of intents it refuses in between.
TurnoverHeld == \A s \in Limited : approved[s] <= MaxTurnover[s]

\* A strategy whose orders are blocked stays blocked until the service starts
\* again: no smaller intent slips through later.
BlockedStays ==
    \A i, k \in DOMAIN decisions :
        /\ i < k
        /\ decisions[i].action = "block_new_orders"
        /\ decisions[k].strategy = decisions[i].strategy
        => ~decisions[k].approved

\* The turnover guard between two starts of the service: what is approved stays within
\* the limit, and what is blocked stays blocked (evaluate_intent of guards.py).
GuardHeld ==
    /\ TurnoverHeld
    /\ BlockedStays

\* Every intent the service received is decided, rejections included, unless
\* the service stops.
Received(n) == \E i \in DOMAIN channel : channel[i].id = n
Decided(n) == \E i \in DOMAIN decisions : decisions[i].id = n

IntentDecided == \A n \in 1 .. MaxIntents : Received(n) ~> (Decided(n) \/ ~up)
=============================================================================
