--------------------------- MODULE RiskExec_proofs ---------------------------
(***************************************************************************)
(* Proofs about RiskExec: its type invariant, that what the running        *)
(* service approves stays within a strategy's limit, and that a blocked    *)
(* strategy stays blocked, for any strategies, limits, quantities and      *)
(* numbers of intents.                                                     *)
(***************************************************************************)
EXTENDS RiskExec, TLAPS

\* The decisions of the running service, the one at hand included.
Made == decisions \o pending

\* What was approved has been counted.
ApprovedCounted == \A s \in Limited : approved[s] <= turnover[s]

\* A strategy that was blocked has been counted beyond its limit, where it stays.
BlockedExceeds ==
    \A i \in DOMAIN Made : Made[i].action = "block_new_orders" =>
        /\ Made[i].strategy \in Limited
        /\ turnover[Made[i].strategy] > MaxTurnover[Made[i].strategy]

\* BlockedStays with the decision at hand.
BlockedRefused ==
    \A i, k \in DOMAIN Made :
        /\ i < k
        /\ Made[i].action = "block_new_orders"
        /\ Made[k].strategy = Made[i].strategy
        => ~Made[k].approved

\* Only a subscribed service has a decision at hand.
PendingIsUp == ~up => pending = << >>

\* The inductive invariant.
IInv == TypeOK /\ PendingIsUp /\ ApprovedCounted /\ TurnoverHeld /\ BlockedExceeds /\ BlockedRefused

-----------------------------------------------------------------------------
LEMMA EmptySeq ==
    ASSUME NEW S
    PROVE  << >> \in Seq(S) /\ Len(<< >>) = 0
  OBVIOUS

\* Every step is one of the operations, or changes nothing.
LEMMA Types ==
    ASSUME TypeOK, [Next]_vars
    PROVE  TypeOK'
  <1> USE ConstantsAssumption DEF TypeOK
  <1>1. ASSUME NEW m \in Intents \cup Malformed, Publish(m) PROVE TypeOK'
    BY <1>1 DEF Publish, guard
  <1>2. CASE Start
    BY <1>2 DEF Start
  <1>3. CASE Consume
    <2> DEFINE m == Head(channel)
    <2>1. m \in Intents
      BY <1>3 DEF Consume
    <2>2. /\ m.id \in 1 .. MaxIntents
          /\ m.strategy \in Strategies
          /\ m.quantity \in Nat
      BY <2>1 DEF Intents
    <2>3. channel' \in Seq(Intents \cup Malformed)
      BY <1>3 DEF Consume
    <2>4. Counted(m) \in Nat
      BY <2>2 DEF Counted
    <2>5. turnover' \in [Strategies -> Nat]
      BY <1>3, <2>2, <2>4 DEF Consume, Count
    <2>6. Accepts(m) \in BOOLEAN /\ Exceeds(m) \in BOOLEAN
      BY DEF Accepts, Exceeds
    <2>7. audit' \in Seq([id : 1 .. MaxIntents, approved : BOOLEAN])
      <3>1. [id |-> m.id, approved |-> Accepts(m)] \in [id : 1 .. MaxIntents, approved : BOOLEAN]
        BY <2>2, <2>6
      <3>2. QED BY <1>3, <3>1 DEF Consume
    <2>8. pending' \in Seq(DecisionSet) /\ Len(pending') <= 1
      <3> DEFINE d == Decision(m, Accepts(m) /\ ~Exceeds(m),
                               IF Exceeds(m) THEN "block_new_orders" ELSE "none")
      <3>1. d \in DecisionSet
        BY <2>2, <2>6 DEF Decision, DecisionSet
      <3>2. pending' = <<d>>
        BY <1>3 DEF Consume
      <3> HIDE DEF d
      <3>3. <<d>> \in Seq(DecisionSet) /\ Len(<<d>>) = 1
        BY <3>1
      <3>4. QED BY <3>2, <3>3
    <2>9. approved' \in [Strategies -> Nat]
      <3> DEFINE q == IF Accepts(m) /\ ~Exceeds(m) THEN m.quantity ELSE 0
      <3>1. q \in Nat
        BY <2>2
      <3>2. approved' = [approved EXCEPT ![m.strategy] = @ + q]
        BY <1>3 DEF Consume
      <3> HIDE DEF q, m
      <3>3. QED BY <3>1, <3>2, <2>2
    <2>10. QED BY <1>3, <2>3, <2>5, <2>7, <2>8, <2>9 DEF Consume
  <1>4. CASE PublishDecision
    BY <1>4 DEF PublishDecision, guard
  <1>5. CASE Reject
    BY <1>5, EmptySeq DEF Reject, Halt, guard
  <1>6. CASE Stop
    <2>1. stops' \in 0 .. MaxStops
      BY <1>6 DEF Stop
    <2>2. /\ up' = FALSE
          /\ channel' = << >>
          /\ pending' = << >>
          /\ UNCHANGED <<published, turnover, audit, decisions, approved>>
      BY <1>6 DEF Stop, Halt, guard
    <2>3. channel' \in Seq(Intents \cup Malformed)
      BY <2>2, EmptySeq
    <2>4. pending' \in Seq(DecisionSet) /\ Len(pending') <= 1
      BY <2>2, EmptySeq
    <2>5. QED BY <2>1, <2>2, <2>3, <2>4
  <1>7. CASE UNCHANGED vars
    BY <1>7 DEF vars
  <1>8. QED BY <1>1, <1>2, <1>3, <1>4, <1>5, <1>6, <1>7 DEF Next

LEMMA InitTypes ==
    ASSUME Init
    PROVE  TypeOK
  <1>1. published \in 0 .. MaxIntents /\ stops \in 0 .. MaxStops
    BY ConstantsAssumption DEF Init
  <1>2. channel \in Seq(Intents \cup Malformed)
    BY EmptySeq DEF Init
  <1>3. /\ pending \in Seq(DecisionSet) /\ Len(pending) <= 1
        /\ decisions \in Seq(DecisionSet)
        /\ audit \in Seq([id : 1 .. MaxIntents, approved : BOOLEAN])
    BY EmptySeq DEF Init
  <1>4. /\ up \in BOOLEAN
        /\ turnover \in [Strategies -> Nat]
        /\ approved \in [Strategies -> Nat]
    BY DEF Init
  <1>5. QED BY <1>1, <1>2, <1>3, <1>4 DEF TypeOK

\* The type invariant holds in every state.
THEOREM TypeCorrect == Spec => []TypeOK
  <1>1. Init => TypeOK
    BY InitTypes
  <1>2. TypeOK /\ [Next]_vars => TypeOK'
    BY Types
  <1>3. QED BY <1>1, <1>2, PTL DEF Spec

-----------------------------------------------------------------------------
\* Steps that neither decide nor start leave the parts of the invariant alone.
LEMMA Quiet ==
    ASSUME IInv, Made' = Made, UNCHANGED <<turnover, approved>>
    PROVE  (ApprovedCounted /\ TurnoverHeld /\ BlockedExceeds /\ BlockedRefused)'
  BY DEF IInv, ApprovedCounted, TurnoverHeld, BlockedExceeds, BlockedRefused

LEMMA HaltInv ==
    ASSUME IInv, Halt
    PROVE  (ApprovedCounted /\ TurnoverHeld /\ BlockedExceeds /\ BlockedRefused)'
  <1>1. decisions \in Seq(DecisionSet) /\ pending \in Seq(DecisionSet)
    BY DEF IInv, TypeOK
  <1>2. Made' = decisions
    BY <1>1 DEF Made, Halt
  <1>3. DOMAIN decisions \subseteq DOMAIN Made /\ \A i \in DOMAIN decisions : Made[i] = decisions[i]
    BY <1>1 DEF Made
  <1>4. UNCHANGED <<turnover, approved>>
    BY DEF Halt, guard
  <1> HIDE DEF Made
  <1>5. (ApprovedCounted /\ TurnoverHeld)'
    BY <1>4 DEF IInv, ApprovedCounted, TurnoverHeld
  <1>6. BlockedExceeds'
    BY <1>2, <1>3, <1>4 DEF IInv, BlockedExceeds
  <1>7. BlockedRefused'
    BY <1>2, <1>3 DEF IInv, BlockedRefused
  <1>8. QED BY <1>5, <1>6, <1>7

\* A decision keeps the limit, and refuses a strategy blocked before.
LEMMA ConsumeInv ==
    ASSUME IInv, Consume
    PROVE  (ApprovedCounted /\ TurnoverHeld /\ BlockedExceeds /\ BlockedRefused)'
  <1> DEFINE m == Head(channel)
             t == m.strategy
             d == Decision(m, Accepts(m) /\ ~Exceeds(m),
                           IF Exceeds(m) THEN "block_new_orders" ELSE "none")
  <1> USE ConstantsAssumption
  <1>1. TypeOK
    BY DEF IInv
  <1>2. t \in Strategies /\ m.quantity \in Nat
    BY <1>1 DEF Consume, TypeOK, Intents
  <1>3. /\ turnover \in [Strategies -> Nat]
        /\ approved \in [Strategies -> Nat]
        /\ decisions \in Seq(DecisionSet)
    BY <1>1 DEF TypeOK
  <1>4. turnover' = [turnover EXCEPT ![t] = Counted(m)]
    BY DEF Consume, Count
  <1>5. approved' = [approved EXCEPT ![t] = @ + IF Accepts(m) /\ ~Exceeds(m) THEN m.quantity ELSE 0]
    BY DEF Consume
  <1>6. pending' = <<d>> /\ decisions' = decisions /\ pending = << >>
    BY DEF Consume
  <1>7. /\ d.strategy = t
        /\ d.approved => ~Exceeds(m)
        /\ d.action = "block_new_orders" => Exceeds(m)
    BY DEF Decision
  <1>8. Made = decisions /\ Made' = Append(decisions, d)
    BY <1>3, <1>6 DEF Made
  <1>9. \A s \in Limited : turnover'[s] >= turnover[s] /\ turnover[s] \in Nat /\ turnover'[s] \in Nat
    BY <1>2, <1>3, <1>4 DEF Counted
  <1>10. ApprovedCounted'
    BY <1>2, <1>3, <1>4, <1>5 DEF IInv, ApprovedCounted, Counted
  <1>11. TurnoverHeld'
    BY <1>2, <1>3, <1>5 DEF IInv, ApprovedCounted, TurnoverHeld, Counted, Exceeds
  <1>12. Exceeds(m) => t \in Limited /\ turnover'[t] > MaxTurnover[t]
    BY <1>2, <1>3, <1>4 DEF Exceeds
  <1>13. \A i \in DOMAIN decisions : decisions[i].action = "block_new_orders" =>
            /\ decisions[i].strategy \in Limited
            /\ turnover[decisions[i].strategy] > MaxTurnover[decisions[i].strategy]
    BY <1>8 DEF IInv, BlockedExceeds
  <1> HIDE DEF m, t, d
  <1>14. \A i \in DOMAIN Made' : Made'[i] = IF i \in DOMAIN decisions THEN decisions[i] ELSE d
    BY <1>3, <1>8
  <1>15. BlockedExceeds'
    BY <1>7, <1>9, <1>12, <1>13, <1>14 DEF BlockedExceeds
  <1>16. d.approved => \A i \in DOMAIN decisions :
            decisions[i].action = "block_new_orders" => decisions[i].strategy # t
    <2> SUFFICES ASSUME d.approved, NEW i \in DOMAIN decisions,
                        decisions[i].action = "block_new_orders", decisions[i].strategy = t
                 PROVE  FALSE
      OBVIOUS
    <2>1. t \in Limited /\ turnover[t] > MaxTurnover[t]
      BY <1>13
    <2>2. Exceeds(m)
      BY <2>1, <1>2, <1>3 DEF Exceeds, Counted, t
    <2>3. QED BY <2>2, <1>7
  <1>17. BlockedRefused'
    <2> SUFFICES ASSUME NEW i \in DOMAIN Made', NEW k \in DOMAIN Made', i < k,
                        Made'[i].action = "block_new_orders", Made'[k].strategy = Made'[i].strategy
                 PROVE  ~Made'[k].approved
      BY DEF BlockedRefused
    <2>1. i \in DOMAIN decisions
      BY <1>3, <1>8
    <2>2. CASE k \in DOMAIN decisions
      BY <2>1, <2>2, <1>8, <1>14 DEF IInv, BlockedRefused
    <2>3. CASE k \notin DOMAIN decisions
      BY <2>1, <2>3, <1>7, <1>14, <1>16
    <2>4. QED BY <2>2, <2>3
  <1>18. QED BY <1>10, <1>11, <1>15, <1>17

\* Every step preserves the invariant.
LEMMA Step ==
    ASSUME IInv, [Next]_vars
    PROVE  IInv'
  <1>1. TypeOK' /\ PendingIsUp'
    BY Types DEF IInv, Next, vars, PendingIsUp, Publish, Start, Consume, PublishDecision,
                 Reject, Stop, Halt, TypeOK
  <1>2. TypeOK
    BY DEF IInv
  <1> SUFFICES (ApprovedCounted /\ TurnoverHeld /\ BlockedExceeds /\ BlockedRefused)'
    BY <1>1 DEF IInv
  <1>3. ASSUME NEW m \in Intents \cup Malformed, Publish(m)
        PROVE  (ApprovedCounted /\ TurnoverHeld /\ BlockedExceeds /\ BlockedRefused)'
    BY <1>3, Quiet DEF Publish, Made, guard
  <1>4. CASE Start
    <2>1. pending' = << >> /\ decisions' = << >>
      BY <1>4 DEF Start, IInv, PendingIsUp
    <2>2. DOMAIN Made' = {}
      BY <2>1 DEF Made
    <2>3. (BlockedExceeds /\ BlockedRefused)'
      BY <2>2 DEF BlockedExceeds, BlockedRefused
    <2>4. (ApprovedCounted /\ TurnoverHeld)'
      BY <1>4, ConstantsAssumption DEF Start, ApprovedCounted, TurnoverHeld
    <2>5. QED BY <2>3, <2>4
  <1>5. CASE Consume
    BY <1>5, ConsumeInv
  <1>6. CASE PublishDecision
    BY <1>2, <1>6, Quiet DEF PublishDecision, Made, TypeOK, guard
  <1>7. CASE Reject
    BY <1>7, HaltInv DEF Reject
  <1>8. CASE Stop
    BY <1>8, HaltInv DEF Stop
  <1>9. CASE UNCHANGED vars
    BY <1>9, Quiet DEF vars, Made
  <1>10. QED BY <1>3, <1>4, <1>5, <1>6, <1>7, <1>8, <1>9 DEF Next

\* The invariant holds in every state.
THEOREM InductiveInvariant == Spec => []IInv
  <1>1. Init => IInv
    <2> SUFFICES ASSUME Init PROVE IInv
      OBVIOUS
    <2>1. DOMAIN Made = {}
      BY DEF Init, Made
    <2>2. BlockedExceeds /\ BlockedRefused
      BY <2>1 DEF BlockedExceeds, BlockedRefused
    <2>3. PendingIsUp /\ ApprovedCounted /\ TurnoverHeld
      BY ConstantsAssumption DEF Init, PendingIsUp, ApprovedCounted, TurnoverHeld
    <2>4. QED BY InitTypes, <2>2, <2>3 DEF IInv
  <1>2. IInv /\ [Next]_vars => IInv'
    BY Step
  <1>3. QED BY <1>1, <1>2, PTL DEF Spec

\* The quantity the running service approves for a limited strategy never
\* exceeds the strategy's limit.
THEOREM LimitKept == Spec => []TurnoverHeld
  <1>1. IInv => TurnoverHeld
    BY DEF IInv
  <1>2. QED BY <1>1, InductiveInvariant, PTL

\* Once the running service has blocked a strategy it approves nothing of it.
THEOREM BlockedIsFinal == Spec => []BlockedStays
  <1>1. IInv => BlockedStays
    <2> SUFFICES ASSUME IInv PROVE BlockedStays
      OBVIOUS
    <2>1. decisions \in Seq(DecisionSet) /\ pending \in Seq(DecisionSet)
      BY DEF IInv, TypeOK
    <2>2. DOMAIN decisions \subseteq DOMAIN Made /\ \A i \in DOMAIN decisions : Made[i] = decisions[i]
      BY <2>1 DEF Made
    <2> HIDE DEF Made
    <2>3. QED BY <2>2 DEF IInv, BlockedRefused, BlockedStays
  <1>2. QED BY <1>1, InductiveInvariant, PTL

\* The turnover guard holds between two starts of the service, for any strategies,
\* limits and sequence of intents.
THEOREM GuardIsHeld == Spec => []GuardHeld
  <1>1. TurnoverHeld /\ BlockedStays => GuardHeld
    BY DEF GuardHeld
  <1>2. QED BY <1>1, LimitKept, BlockedIsFinal, PTL
=============================================================================
