--------------------------- MODULE StrategyControl ---------------------------
(***************************************************************************)
(* Strategy instances and risk overrides of the control plane.  A start is  *)
(* put to the risk authority, which checks the intent the instance was made *)
(* with against the newest matching override and the configured limits.     *)
(* No handler awaits between its check and its change, so each is one step. *)
(***************************************************************************)
EXTENDS Integers, Sequences, FiniteSets

CONSTANTS
    Keys,           \* strategy keys
    Symbols,        \* symbols; NoSymbol is an intent's or override's None
    NoSymbol,
    Sizes,          \* quantities and prices; 0 is None
    Caps,           \* limits an override can carry; 0 is None
    ConfigQuantity, \* RiskConfig.max_quantity
    ConfigNotional, \* RiskConfig.max_notional
    OtherRules,     \* instrument, session, position, exposure and frequency rules
    MaxInstances,   \* bound: instances made
    MaxOverrides,   \* bound: overrides posted
    MaxDecisions    \* bound: decisions taken

ASSUME StrategyConstants ==
    /\ Sizes \subseteq Nat /\ Caps \subseteq Nat /\ NoSymbol \notin Symbols
    /\ ConfigQuantity \in Nat /\ ConfigNotional \in Nat
    /\ {MaxInstances, MaxOverrides, MaxDecisions} \subseteq Nat

VARIABLES
    instances,   \* id -> [key, status, intent]
    overrides,   \* _overrides
    trail,       \* override_audit_trail, in the order posted
    rulings,     \* _decision_events, with the number of overrides posted before
    strategyLog  \* events on topic "strategy", [instance, action]

strategyVars == <<instances, overrides, trail, rulings, strategyLog>>

\* The rules of an intent beside those on its size are judged from what it
\* carries, the hour it was created in among them: "broken" names those it fails.
StrategyIntents ==
    [symbol : Symbols \cup {NoSymbol}, quantity : Sizes, price : Sizes, broken : SUBSET OtherRules]

OverrideRows ==
    [key : Keys \cup {NoSymbol}, symbol : Symbols \cup {NoSymbol}, quantity : Caps, notional : Caps]

StrategyInit ==
    instances = <<>> /\ overrides = <<>> /\ trail = <<>> /\ rulings = <<>> /\ strategyLog = <<>>

-----------------------------------------------------------------------------
Matches(o, key, intent) ==
    (o.key # NoSymbol /\ o.key = key) \/ (o.symbol # NoSymbol /\ o.symbol = intent.symbol)

\* _find_override: the first in the list, which is the newest.
FoundOverride(key, intent) ==
    LET all == {n \in DOMAIN overrides : Matches(overrides[n], key, intent)}
    IN  IF all = {} THEN <<>> ELSE <<overrides[CHOOSE n \in all : \A m \in all : n <= m]>>

CapOf(found, field, default) ==
    IF found # <<>> /\ found[1][field] # 0 THEN found[1][field] ELSE default

FailedRules(key, intent) ==
    LET found == FoundOverride(key, intent)
    IN  IF intent.quantity = 0 \/ intent.symbol = NoSymbol THEN {"required_fields"}
        ELSE (IF intent.quantity > CapOf(found, "quantity", ConfigQuantity)
              THEN {"max_order_size"} ELSE {})
             \cup (IF intent.price # 0 /\ intent.quantity * intent.price
                                          > CapOf(found, "notional", ConfigNotional)
                   THEN {"max_notional"} ELSE {})
             \cup intent.broken

Ruling(i, failed) ==
    [instance |-> i, approved |-> failed = {}, failed |-> failed, posted |-> Len(trail)]

-----------------------------------------------------------------------------
CreateInstance(key, intent) ==
    /\ Len(instances) < MaxInstances
    /\ instances' = Append(instances, [key |-> key, status |-> "created", intent |-> intent])
    /\ strategyLog' = Append(strategyLog, [instance |-> Len(instances) + 1, action |-> "create"])
    /\ UNCHANGED <<overrides, trail, rulings>>

\* A running instance is answered 409 before the authority hears of it; a
\* refused one (403) keeps its status.
StartInstance(i) ==
    LET failed == FailedRules(instances[i].key, instances[i].intent)
    IN  /\ Len(rulings) < MaxDecisions
        /\ instances[i].status # "running"
        /\ rulings' = Append(rulings, Ruling(i, failed))
        /\ IF failed = {}
           THEN /\ instances' = [instances EXCEPT ![i].status = "running"]
                /\ strategyLog' = Append(strategyLog, [instance |-> i, action |-> "start"])
           ELSE UNCHANGED <<instances, strategyLog>>
        /\ UNCHANGED <<overrides, trail>>

StopInstance(i) ==
    /\ instances[i].status = "running"
    /\ instances' = [instances EXCEPT ![i].status = "stopped"]
    /\ strategyLog' = Append(strategyLog, [instance |-> i, action |-> "stop"])
    /\ UNCHANGED <<overrides, trail, rulings>>

\* Mutant of AddOverride: a new override goes to the end of the list.
AddOverrideLast(o) ==
    /\ Len(overrides) < MaxOverrides
    /\ overrides' = Append(overrides, o) /\ trail' = Append(trail, o)
    /\ UNCHANGED <<instances, rulings, strategyLog>>

AddOverride(o) ==
    /\ Len(overrides) < MaxOverrides
    /\ overrides' = <<o>> \o overrides /\ trail' = Append(trail, o)
    /\ UNCHANGED <<instances, rulings, strategyLog>>

StrategyNext ==
    \/ \E key \in Keys, intent \in StrategyIntents : CreateInstance(key, intent)
    \/ \E i \in DOMAIN instances : StartInstance(i) \/ StopInstance(i)
    \/ \E o \in OverrideRows : AddOverride(o)

StrategySpec == StrategyInit /\ [][StrategyNext]_strategyVars

-----------------------------------------------------------------------------
\* What the authority may approve, said from the audit trail alone: the last
\* override posted before the decision that names the strategy or the symbol
\* gives the limits, the configuration those it leaves open.
LastMatching(r) ==
    LET n == {k \in 1 .. r.posted : Matches(trail[k], instances[r.instance].key,
                                            instances[r.instance].intent)}
    IN  IF n = {} THEN <<>> ELSE <<trail[CHOOSE k \in n : \A m \in n : m <= k]>>

\* Every decision follows the newest override posted before it that names the
\* strategy or its symbol, whatever overrides followed or preceded that one.
DecidedByNewest ==
    \A k \in DOMAIN rulings :
        LET r == rulings[k]
            intent == instances[r.instance].intent
            last == LastMatching(r)
            fits == /\ intent.quantity > 0 /\ intent.symbol # NoSymbol /\ intent.broken = {}
                    /\ intent.quantity <= CapOf(last, "quantity", ConfigQuantity)
                    /\ intent.price # 0
                       => intent.quantity * intent.price <= CapOf(last, "notional", ConfigNotional)
        IN  r.approved <=> fits

\* The positions of an instance before the n-th event, and what its last event left it in.
EarlierOn(n) == {m \in 1 .. n - 1 : strategyLog[m].instance = strategyLog[n].instance}
LeftIn(action) ==
    CASE action = "create" -> "created" [] action = "start" -> "running" [] OTHER -> "stopped"

Approvals(i) == {k \in DOMAIN rulings : rulings[k].instance = i /\ rulings[k].approved}
StartsOf(i) ==
    {n \in DOMAIN strategyLog : strategyLog[n].instance = i /\ strategyLog[n].action = "start"}

\* Each start of an instance has an approved decision of its own; it is created,
\* and then started and stopped in turn; and it runs exactly when it was started
\* and not stopped since.
StartsApproved ==
    /\ \A i \in DOMAIN instances : Cardinality(Approvals(i)) = Cardinality(StartsOf(i))
    /\ \A n \in DOMAIN strategyLog :
        LET earlier == EarlierOn(n)
        IN  IF earlier = {} THEN strategyLog[n].action = "create"
            ELSE \E m \in earlier :
                /\ \A l \in earlier : l <= m
                /\ strategyLog[n].action = IF strategyLog[m].action = "start" THEN "stop" ELSE "start"
    /\ \A i \in DOMAIN instances : \E n \in DOMAIN strategyLog :
        /\ strategyLog[n].instance = i
        /\ \A m \in n + 1 .. Len(strategyLog) : strategyLog[m].instance # i
        /\ instances[i].status = LeftIn(strategyLog[n].action)

\* An instance starts on an approval of its own, and every decision is by the newest
\* override that matches (start_instance and RiskAuthority).
StartsGuarded ==
    /\ DecidedByNewest
    /\ StartsApproved
=============================================================================
