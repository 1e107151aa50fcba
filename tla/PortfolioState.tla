--------------------------- MODULE PortfolioState ---------------------------
(***************************************************************************)
(* service-portfolio-state builds a snapshot of the account from Redis read *)
(* by read, publishes it, sleeps and starts again; the control plane keeps  *)
(* the last one it received and answers GET /portfolio/snapshot with it.    *)
(* What the service reads is written by a broker bridge outside this        *)
(* repository, at any moment between two reads.                             *)
(***************************************************************************)
EXTENDS Integers, Sequences, FiniteSets, SequencesExt

CONSTANTS
    Prices,         \* market prices of the one symbol; Missing stands for none
    Missing,
    DefaultCash,    \* cash taken where Redis holds none, or no number
    FillWindow,     \* fills read: 500 (prod path) or 200
    OrderWindow,    \* orders read: 500 or 100
    MaxWrites,      \* bound: writes of the bridge
    MaxLives        \* bound: starts of the control plane

ASSUME PortfolioConstants ==
    /\ Prices \subseteq Nat /\ Missing \notin Prices /\ DefaultCash \in Nat
    /\ {FillWindow, OrderWindow, MaxWrites, MaxLives} \subseteq Nat \ {0}

VARIABLES
    prodSnapshots,  \* PROD_SNAPSHOT_ENABLED
    account,        \* [positions, prices, avg, cash]: the hashes and the cash key
    fillStream,     \* realized_pnl of each fill
    orderStream,    \* notional of each order, 0 for one that is not open
    writes,
    phase,          \* number of the group of reads the build is at
    got,            \* what it has read
    snapshotFeed,   \* messages delivered to the control plane and not read
    cached,         \* _snapshot, <<>> for none
    lives           \* starts of the control plane so far

bridgeVars == <<account, fillStream, orderStream, writes>>
buildVars == <<phase, got>>
cacheVars == <<snapshotFeed, cached, lives>>
portfolioVars == <<prodSnapshots, bridgeVars, buildVars, cacheVars>>

\* The reads of a build, in groups whose members run concurrently.
ReadGroups ==
    IF prodSnapshots
    THEN <<{"fillPin", "orderPin"}, {"positions", "prices", "avg", "cash"}, {"fills"}, {"orders"}>>
    ELSE <<{"positions"}, {"prices"}, {"cash"}, {"fills"}, {"avg"}, {"orders"}>>

Unread == <<>>

PortfolioInit ==
    /\ prodSnapshots \in BOOLEAN
    /\ account = [positions |-> 1, prices |-> Missing, avg |-> 1, cash |-> Missing]
    /\ fillStream = <<>> /\ orderStream = <<>> /\ writes = 0
    /\ phase = 1 /\ got = Unread
    /\ snapshotFeed = <<>> /\ cached = <<>> /\ lives = 0

-----------------------------------------------------------------------------
\* The bridge, external: each of its writes is a command of its own.
Write ==
    /\ writes < MaxWrites /\ writes' = writes + 1
    /\ \/ fillStream' = Append(fillStream, 1) /\ UNCHANGED <<account, orderStream>>
       \/ \E notional \in {0, 1} :
            orderStream' = Append(orderStream, notional) /\ UNCHANGED <<account, fillStream>>
       \/ /\ \/ \E p \in Prices : account' = [account EXCEPT !.prices = p]
             \/ account' = [account EXCEPT !.positions = @ + 1]
             \/ account' = [account EXCEPT !.cash = 1]
          /\ UNCHANGED <<fillStream, orderStream>>
    /\ UNCHANGED <<prodSnapshots, buildVars, cacheVars>>

NumberOr(v, default) == IF v = Missing THEN default ELSE v

\* Mutant of Bounded: the pinned end is not passed on.
BoundedByCount(stream, pin, window) ==
    LET first == Len(stream) - window + 1
    IN  IF prodSnapshots THEN SubSeq(stream, 1, IF Len(stream) < window THEN Len(stream) ELSE window)
        ELSE SubSeq(stream, IF first < 1 THEN 1 ELSE first, Len(stream))

\* xrange from the start up to the pinned id (an empty stream pins "+", 0 here),
\* which keeps the oldest entries; the other path keeps the newest.
Bounded(stream, pin, window) ==
    LET end == IF pin = 0 \/ pin > Len(stream) THEN Len(stream) ELSE pin
        first == Len(stream) - window + 1
    IN  IF prodSnapshots THEN SubSeq(stream, 1, IF end < window THEN end ELSE window)
        ELSE SubSeq(stream, IF first < 1 THEN 1 ELSE first, Len(stream))

PinOf(r) == IF prodSnapshots THEN got[r] ELSE 0
SumOf(s) == FoldSeq(LAMBDA x, y : x + y, 0, s)

ReadOf(r) ==
    CASE r = "fillPin" -> Len(fillStream)
      [] r = "orderPin" -> Len(orderStream)
      [] r = "fills" -> SumOf(Bounded(fillStream, PinOf("fillPin"), FillWindow))
      [] r = "orders" -> SumOf(Bounded(orderStream, PinOf("orderPin"), OrderWindow))
      [] OTHER -> account[r]

ReadNext(r) ==
    /\ phase <= Len(ReadGroups) /\ r \in ReadGroups[phase] \ DOMAIN got
    /\ got' = [x \in DOMAIN got \cup {r} |-> IF x = r THEN ReadOf(r) ELSE got[x]]
    /\ phase' = IF ReadGroups[phase] \subseteq DOMAIN got' THEN phase + 1 ELSE phase
    /\ UNCHANGED <<prodSnapshots, bridgeVars, cacheVars>>

Snapshot ==
    LET cash == NumberOr(got["cash"], DefaultCash)
        free == 2 * cash - got["orders"]
    IN  [equity |-> cash + got["positions"] * NumberOr(got["prices"], got["avg"]),
         buying |-> IF free > 0 THEN free ELSE 0,
         realized |-> got["fills"], pin |-> PinOf("fillPin")]

\* Delivered to the control plane if it is subscribed; what it has not read yet
\* is capped, as publishing takes seconds and reading a twentieth of one.
PublishSnapshot ==
    /\ phase > Len(ReadGroups) /\ Len(snapshotFeed) < 1
    /\ snapshotFeed' = IF lives > 0 THEN Append(snapshotFeed, Snapshot) ELSE snapshotFeed
    /\ phase' = 1 /\ got' = Unread
    /\ UNCHANGED <<prodSnapshots, bridgeVars, cached, lives>>

-----------------------------------------------------------------------------
\* lifespan_portfolio_cache: a start subscribes with an empty cache.
StartControlPlane ==
    /\ lives < MaxLives /\ lives' = lives + 1
    /\ snapshotFeed' = <<>> /\ cached' = <<>>
    /\ UNCHANGED <<prodSnapshots, bridgeVars, buildVars>>

\* Mutant of ReceiveSnapshot: a snapshot that is there is kept.
ReceiveFirst ==
    /\ snapshotFeed # <<>> /\ snapshotFeed' = Tail(snapshotFeed)
    /\ cached' = IF cached = <<>> THEN <<Head(snapshotFeed)>> ELSE cached
    /\ UNCHANGED <<prodSnapshots, bridgeVars, buildVars, lives>>

ReceiveSnapshot ==
    /\ snapshotFeed # <<>> /\ snapshotFeed' = Tail(snapshotFeed)
    /\ cached' = <<Head(snapshotFeed)>>
    /\ UNCHANGED <<prodSnapshots, bridgeVars, buildVars, lives>>

ReadSome == \E r \in {"fillPin", "orderPin", "positions", "prices", "avg", "cash",
                      "fills", "orders"} : ReadNext(r)

PortfolioNext == Write \/ ReadSome \/ PublishSnapshot \/ StartControlPlane \/ ReceiveSnapshot

\* The loop of the service and the control plane's reader task go on; the bridge
\* and the operator who starts the control plane need not.
PortfolioSpec ==
    /\ PortfolioInit /\ [][PortfolioNext]_portfolioVars
    /\ WF_portfolioVars(ReadSome \/ PublishSnapshot) /\ WF_portfolioVars(ReceiveSnapshot)

-----------------------------------------------------------------------------
\* The realized PnL of a snapshot of the prod path is that of the stream up to
\* the offset it names, and of no fill that came later, as far as the window goes.
RealizedAtOffset ==
    \A s \in ToSet(cached) \cup ToSet(snapshotFeed) :
        prodSnapshots /\ s.pin > 0
        => s.realized = SumOf(SubSeq(fillStream, 1, IF s.pin < FillWindow THEN s.pin ELSE FillWindow))

\* Once the bridge is quiet, a control plane that runs ends up with a snapshot of
\* what is in Redis, on either path, however torn the snapshots before it were.
Current ==
    cached # <<>> /\ cached[1].equity = NumberOr(account.cash, DefaultCash)
                       + account.positions * NumberOr(account.prices, account.avg)

CacheCatchesUp == <>[](lives > 0 => Current)
=============================================================================
