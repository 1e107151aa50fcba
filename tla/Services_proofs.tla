-------------------------- MODULE Services_proofs --------------------------
(***************************************************************************)
(* Proofs about the services: fills of the execution engine, the portfolio *)
(* and its streams, the feed, the data requests of the control plane, the  *)
(* bar cache and the event log.  For each, an inductive invariant, the     *)
(* lemmas that one operation needs, and the theorem that its property      *)
(* always holds.                                                           *)
(***************************************************************************)
EXTENDS ExecutionEngine, PortfolioState, FeedIngest, DataRequests, BarCache, EventLog,
        FiniteSetTheorems, SequenceTheorems, TLAPS

-----------------------------------------------------------------------------
(* The execution engine. *)

\* The last call is one of the engine's, with the result it computes.
EngineInv ==
    /\ engine \in Engines
    /\ taken # <<>> =>
        \E o \in Orders, ev \in MarketEvents :
            taken = <<[order |-> o, event |-> ev, result |-> FillResult(o, ev)]>>

\* The book of an event, in numbers.
Book(ev) ==
    /\ ev.displayed \in Nat /\ ev.queue \in Nat /\ ev.traded \in Nat /\ ev.canceled \in Nat
    /\ ev.venue \in Venues

\* What an order gets and on which terms, apart from the conversions to a result.
Wanted(o, ev) == NoLess(0, NoMore(o.qty, MaxFill(o, ev)))
Refused(o, ev) == o.expired \/ (o.cooling /\ ev.deep) \/ RouterRefuses(ev)

\* An event of the market is a book.
LEMMA BookOfEvent ==
    ASSUME NEW ev \in MarketEvents
    PROVE  Book(ev)
  BY EngineConstants DEF EngineConstants, MarketEvents, Book

\* What the result says of what an order gets.
LEMMA ResultFields ==
    ASSUME NEW o, NEW ev
    PROVE  /\ Refused(o, ev) \/ Wanted(o, ev) = 0 => FillResult(o, ev).fill = 0
           /\ ~Refused(o, ev) /\ Wanted(o, ev) # 0 =>
                FillResult(o, ev) =
                    [fill |-> Wanted(o, ev),
                     state |-> IF Wanted(o, ev) >= o.qty THEN "filled" ELSE "partially_filled",
                     queue |-> NoLess(ev.queue - Advanced(ev), 0)]
  BY DEF FillResult, Refused, Wanted

\* A product with a number that is not negative grows with its other factor.
LEMMA ProductGrows ==
    ASSUME NEW q \in Nat, NEW x \in Int, NEW y \in Int, x <= y
    PROVE  q * x <= q * y
  <1>1. PICK k \in Nat : y = x + k
    <2>1. y - x \in Nat /\ y = x + (y - x)
      OBVIOUS
    <2> QED BY <2>1
  <1>2. q * (x + k) = q * x + q * k
    OBVIOUS
  <1>3. q * k >= 0
    OBVIOUS
  <1>4. q * x \in Int /\ q * k \in Int
    OBVIOUS
  <1> QED BY <1>1, <1>2, <1>3, <1>4

\* The smaller and the larger of two numbers.
LEMMA OfTwo ==
    ASSUME NEW x \in Int, NEW y \in Int
    PROVE  /\ NoLess(x, y) \in Int /\ NoLess(x, y) >= x /\ NoLess(x, y) >= y
           /\ NoLess(x, y) = x \/ NoLess(x, y) = y
           /\ NoMore(x, y) \in Int /\ NoMore(x, y) <= x /\ NoMore(x, y) <= y
           /\ NoMore(x, y) = x \/ NoMore(x, y) = y
  BY DEF NoLess, NoMore

\* What the terms of the engine make of a book: a share of what is displayed, and for
\* a passive order under the queue model no more than went past the queue.
LEMMA WantedIs ==
    ASSUME engine \in Engines, NEW o \in Orders, NEW ev, Book(ev), NEW cap, cap = NoLess(engine.cap, 0),
           NEW share, share = ev.displayed * cap,
           NEW past, past = NoLess(Advanced(ev) - ev.queue, 0), NEW w, w = Wanted(o, ev)
    PROVE  /\ cap \in Nat /\ share \in Nat /\ past \in Nat /\ w \in Nat /\ o.qty \in Nat
           /\ engine.queueModel /\ ~o.aggressive => w = NoMore(NoMore(o.qty, share), past)
           /\ ~(engine.queueModel /\ ~o.aggressive) => w = NoMore(o.qty, share)
  <1>1. engine.cap \in Int /\ o.qty \in Nat
    BY EngineConstants DEF EngineConstants, Engines, Orders
  <1>2. cap \in Nat
    BY <1>1 DEF NoLess
  <1>3. share \in Nat
    BY <1>2 DEF Book
  <1>4. past \in Nat
    BY DEF NoLess, Advanced, Book
  <1>5. CASE engine.queueModel /\ ~o.aggressive
    <2>1. MaxFill(o, ev) = NoMore(NoMore(o.qty, share), past)
      BY <1>5 DEF MaxFill
    <2> QED BY <1>1, <1>2, <1>3, <1>4, <1>5, <2>1 DEF Wanted, NoMore, NoLess
  <1>6. CASE ~(engine.queueModel /\ ~o.aggressive)
    <2>1. MaxFill(o, ev) = NoMore(o.qty, share)
      BY <1>6 DEF MaxFill
    <2> QED BY <1>1, <1>2, <1>3, <1>4, <1>6, <2>1 DEF Wanted, NoMore, NoLess
  <1> QED BY <1>5, <1>6

\* The fill of any order against any event, in the order of the queue.
LEMMA ServedWell ==
    ASSUME engine \in Engines, NEW o \in Orders, NEW ev \in MarketEvents, NEW r, r = FillResult(o, ev)
    PROVE  Served(o, ev, r)
  <1>1. CASE Refused(o, ev) \/ Wanted(o, ev) = 0
    <2>1. r.fill = 0
      BY <1>1, ResultFields
    <2> QED BY <2>1 DEF Served
  <1>2. CASE ~Refused(o, ev) /\ Wanted(o, ev) # 0
    <2>1. PICK cap, share, past, w :
              /\ cap = NoLess(engine.cap, 0) /\ share = ev.displayed * cap
              /\ past = NoLess(Advanced(ev) - ev.queue, 0) /\ w = Wanted(o, ev)
      OBVIOUS
    <2>2. Book(ev)
      BY BookOfEvent
    <2>3. /\ cap \in Nat /\ share \in Nat /\ past \in Nat /\ w \in Nat /\ o.qty \in Nat
          /\ engine.queueModel /\ ~o.aggressive => w = NoMore(NoMore(o.qty, share), past)
          /\ ~(engine.queueModel /\ ~o.aggressive) => w = NoMore(o.qty, share)
      BY <2>1, <2>2, WantedIs
    <2>4. /\ r.fill = w /\ r.state = (IF w >= o.qty THEN "filled" ELSE "partially_filled")
          /\ r.queue = NoLess(ev.queue - Advanced(ev), 0)
      BY <1>2, <2>1, ResultFields
    <2>5. w > 0 /\ w <= o.qty /\ w <= share
      BY <1>2, <2>1, <2>3 DEF NoMore
    <2>6. engine.queueModel /\ ~o.aggressive => w <= past
      BY <2>3 DEF NoMore
    <2>7. engine.cap \in Int
      BY EngineConstants DEF EngineConstants, Engines
    <2>8. w <= engine.cap * ev.displayed
      <3>1. CASE engine.cap > 0
        <4>1. share = ev.displayed * engine.cap
          BY <2>1, <2>7, <3>1 DEF NoLess
        <4>2. ev.displayed * engine.cap = engine.cap * ev.displayed
          BY <2>2, <2>7 DEF Book
        <4> QED BY <2>5, <4>1, <4>2
      <3>2. CASE ~(engine.cap > 0)
        <4>1. share = 0
          BY <2>1, <2>2, <2>7, <3>2 DEF NoLess, Book
        <4> QED BY <2>3, <2>5, <4>1
      <3> QED BY <3>1, <3>2
    <2>9. engine.queueModel /\ ~o.aggressive => w + ev.queue <= Advanced(ev) /\ r.queue = 0
      <3>1. Advanced(ev) \in Nat /\ ev.queue \in Nat
        BY <2>2 DEF Advanced, Book
      <3> QED BY <2>1, <2>3, <2>4, <2>5, <2>6, <3>1 DEF NoLess
    <2>10. r.state = "filled" <=> r.fill = o.qty
      BY <2>3, <2>4, <2>5
    <2> QED BY <2>4, <2>5, <2>8, <2>9, <2>10 DEF Served
  <1> QED BY <1>1, <1>2

\* One lot more leaves the rest of the book as it is.
LEMMA BusierBook ==
    ASSUME NEW ev \in MarketEvents, NEW more \in Busier(ev)
    PROVE  /\ Book(ev) /\ Book(more) /\ more.queue = ev.queue /\ more.venue = ev.venue
           /\ more.deep = ev.deep /\ more.displayed >= ev.displayed
           /\ Advanced(more) >= Advanced(ev)
  <1>1. Book(ev)
    BY BookOfEvent
  <1>2. ev = [displayed |-> ev.displayed, queue |-> ev.queue, traded |-> ev.traded,
              canceled |-> ev.canceled, deep |-> ev.deep, venue |-> ev.venue]
    BY DEF MarketEvents
  <1>3. PICK d, q, t, c, dp, v : /\ d = ev.displayed /\ q = ev.queue /\ t = ev.traded
                                 /\ c = ev.canceled /\ dp = ev.deep /\ v = ev.venue
    OBVIOUS
  <1>4. ev = [displayed |-> d, queue |-> q, traded |-> t, canceled |-> c, deep |-> dp, venue |-> v]
    BY <1>2, <1>3
  <1>5. \/ more = [displayed |-> d + 1, queue |-> q, traded |-> t, canceled |-> c, deep |-> dp, venue |-> v]
        \/ more = [displayed |-> d, queue |-> q, traded |-> t + 1, canceled |-> c, deep |-> dp, venue |-> v]
        \/ more = [displayed |-> d, queue |-> q, traded |-> t, canceled |-> c + 1, deep |-> dp, venue |-> v]
    BY <1>4 DEF Busier
  <1>6. d \in Nat /\ q \in Nat /\ t \in Nat /\ c \in Nat /\ v \in Venues
    BY <1>1, <1>3 DEF Book
  <1> QED BY <1>1, <1>3, <1>5, <1>6 DEF Book, Advanced

\* The router refuses no event for a lot more of activity: the edge at a venue that is
\* worth taking grows with the depth, and its penalty with what is queued.
LEMMA RefusesLess ==
    ASSUME NEW ev \in MarketEvents, NEW more \in Busier(ev), RouterRefuses(more)
    PROVE  RouterRefuses(ev)
  <1>1. /\ Book(ev) /\ Book(more) /\ more.queue = ev.queue /\ more.venue = ev.venue
        /\ more.displayed >= ev.displayed /\ Advanced(more) >= Advanced(ev)
    BY BusierBook
  <1>2. PICK q, d, e, x, y :
            /\ q = 100 * FillChance[ev.venue] - NetFeeBps[ev.venue]
            /\ d = NoLess(2 * ev.displayed, 1) /\ e = NoLess(2 * more.displayed, 1)
            /\ x = NoLess(ev.queue - Advanced(ev), 0) /\ y = NoLess(more.queue - Advanced(more), 0)
    OBVIOUS
  <1>3. q \in Int
    BY <1>1, <1>2, EngineConstants DEF EngineConstants, Book
  <1>4. d \in Nat /\ e \in Nat /\ 1 <= d /\ d <= e
    BY <1>1, <1>2 DEF Book, NoLess
  <1>5. x \in Nat /\ y \in Nat /\ y <= x
    BY <1>1, <1>2 DEF Book, NoLess, Advanced
  <1>6. engine.routed /\ q * e < 10000 * NoMore(y, e)
    BY <1>1, <1>2 DEF RouterRefuses
  <1>7. q * d < 10000 * NoMore(x, d)
    <2>1. SUFFICES ASSUME q * d >= 10000 * NoMore(x, d) PROVE FALSE
      BY <1>3, <1>4, <1>5 DEF NoMore
    <2>2. CASE x < d
      <3>1. q * d >= 0
        <4>1. q * d >= 10000 * x
          BY <2>1, <2>2 DEF NoMore
        <4>2. 10000 * x \in Int /\ 10000 * x >= 0 /\ q * d \in Int
          BY <1>3, <1>4, <1>5
        <4> QED BY <4>1, <4>2
      <3>2. q >= 0
        <4>1. ASSUME q < 0 PROVE q * d < 0
          BY <1>3, <1>4, <4>1
        <4>2. q * d \in Int
          BY <1>3, <1>4
        <4> QED BY <1>3, <3>1, <4>1, <4>2
      <3>3. q * d <= q * e
        BY <1>3, <1>4, <3>2, ProductGrows
      <3>4. q * d >= 10000 * x
        BY <2>1, <2>2 DEF NoMore
      <3>5. 10000 * NoMore(y, e) <= 10000 * x
        BY <1>4, <1>5 DEF NoMore
      <3>6. q * d \in Int /\ q * e \in Int /\ 10000 * NoMore(y, e) \in Int /\ 10000 * x \in Int
        BY <1>3, <1>4, <1>5 DEF NoMore
      <3> QED BY <1>6, <3>3, <3>4, <3>5, <3>6
    <2>3. CASE ~(x < d)
      <3>1. q * d >= 10000 * d
        BY <2>1, <2>3 DEF NoMore
      <3>2. q >= 10000
        <4>1. SUFFICES ASSUME q < 10000 PROVE FALSE
          BY <1>3
        <4>2. q <= 9999 /\ d * q <= d * 9999
          BY <1>3, <1>4, <4>1, ProductGrows
        <4>3. d * q = q * d /\ q * d \in Int
          BY <1>3, <1>4
        <4> QED BY <1>4, <3>1, <4>2, <4>3
      <3>3. e * 10000 <= e * q
        BY <1>3, <1>4, <3>2, ProductGrows
      <3>4. e * q = q * e /\ q * e \in Int
        BY <1>3, <1>4
      <3>5. NoMore(y, e) \in Int /\ NoMore(y, e) <= e
        BY <1>4, <1>5 DEF NoMore
      <3> QED BY <1>4, <1>6, <3>3, <3>4, <3>5
    <2> QED BY <2>2, <2>3
  <1> QED BY <1>2, <1>6, <1>7 DEF RouterRefuses

\* What an order gets of a book grows with the book.
LEMMA WantedGrows ==
    ASSUME engine \in Engines, NEW o \in Orders, NEW ev \in MarketEvents, NEW more \in Busier(ev)
    PROVE  Wanted(o, ev) \in Nat /\ Wanted(o, more) \in Nat /\ Wanted(o, ev) <= Wanted(o, more)
  <1>1. /\ Book(ev) /\ Book(more) /\ more.queue = ev.queue
        /\ more.displayed >= ev.displayed /\ Advanced(more) >= Advanced(ev)
    BY BusierBook
  <1>2. PICK cap, s, t, p, q, v, w :
            /\ cap = NoLess(engine.cap, 0) /\ s = ev.displayed * cap /\ t = more.displayed * cap
            /\ p = NoLess(Advanced(ev) - ev.queue, 0) /\ q = NoLess(Advanced(more) - more.queue, 0)
            /\ v = Wanted(o, ev) /\ w = Wanted(o, more)
    OBVIOUS
  <1>3. /\ cap \in Nat /\ s \in Nat /\ p \in Nat /\ v \in Nat /\ o.qty \in Nat
        /\ engine.queueModel /\ ~o.aggressive => v = NoMore(NoMore(o.qty, s), p)
        /\ ~(engine.queueModel /\ ~o.aggressive) => v = NoMore(o.qty, s)
    BY <1>1, <1>2, WantedIs
  <1>4. /\ t \in Nat /\ q \in Nat /\ w \in Nat
        /\ engine.queueModel /\ ~o.aggressive => w = NoMore(NoMore(o.qty, t), q)
        /\ ~(engine.queueModel /\ ~o.aggressive) => w = NoMore(o.qty, t)
    BY <1>1, <1>2, WantedIs
  <1>5. s <= t
    <2>1. cap * ev.displayed <= cap * more.displayed
      BY <1>1, <1>3, ProductGrows DEF Book
    <2> QED BY <1>1, <1>2, <1>3, <2>1 DEF Book
  <1>6. p <= q
    BY <1>1, <1>2 DEF Book, Advanced, NoLess
  <1>7. NoMore(o.qty, s) <= NoMore(o.qty, t)
    BY <1>3, <1>4, <1>5 DEF NoMore
  <1>8. NoMore(NoMore(o.qty, s), p) <= NoMore(NoMore(o.qty, t), q)
    BY <1>3, <1>4, <1>5, <1>6 DEF NoMore
  <1> QED BY <1>2, <1>3, <1>4, <1>7, <1>8

\* No path through the router and the fill models takes from a fill for a lot more.
LEMMA MoreHelps ==
    ASSUME engine \in Engines, NEW o \in Orders, NEW ev \in MarketEvents, NEW more \in Busier(ev)
    PROVE  FillResult(o, more).fill >= FillResult(o, ev).fill
  <1>1. PICK v, w : v = Wanted(o, ev) /\ w = Wanted(o, more)
    OBVIOUS
  <1>2. v \in Nat /\ w \in Nat /\ v <= w
    BY <1>1, WantedGrows
  <1>3. Refused(o, more) => Refused(o, ev)
    BY BusierBook, RefusesLess DEF Refused
  <1>4. /\ Refused(o, ev) \/ v = 0 => FillResult(o, ev).fill = 0
        /\ ~Refused(o, ev) /\ v # 0 => FillResult(o, ev).fill = v
    BY <1>1, ResultFields
  <1>5. /\ Refused(o, more) \/ w = 0 => FillResult(o, more).fill = 0
        /\ ~Refused(o, more) /\ w # 0 => FillResult(o, more).fill = w
    BY <1>1, ResultFields
  <1> QED BY <1>2, <1>3, <1>4, <1>5

\* For any venues, caps and quantities: the queue is served first, nobody gets more than
\* asked for or than the cap allows, and no fill shrinks for more activity.
THEOREM FillsStayFair == EngineSpec => []FillsFair
  <1>1. EngineInit => EngineInv
    BY DEF EngineInit, EngineInv
  <1>2. EngineInv /\ [EngineNext]_engineVars => EngineInv'
    <2>1. ASSUME EngineInv, NEW o \in Orders, NEW ev \in MarketEvents, ProcessFill(o, ev)
          PROVE  EngineInv'
      <3>1. engine' = engine /\ taken' = <<[order |-> o, event |-> ev, result |-> FillResult(o, ev)]>>
        BY <2>1 DEF ProcessFill
      <3>2. PICK r : r = FillResult(o, ev)
        OBVIOUS
      <3>3. FillResult(o, ev)' = r
        BY <3>1, <3>2 DEF FillResult, MaxFill, RouterRefuses
      <3> QED BY <2>1, <3>1, <3>2, <3>3 DEF EngineInv
    <2>2. ASSUME EngineInv, UNCHANGED engineVars PROVE EngineInv'
      BY <2>2 DEF EngineInv, engineVars, FillResult, MaxFill, RouterRefuses
    <2> QED BY <2>1, <2>2 DEF EngineNext
  <1>3. EngineInv => FillsFair
    <2>1. ASSUME EngineInv, taken # <<>>
          PROVE  /\ Served(taken[1].order, taken[1].event, taken[1].result)
                 /\ \A ev \in Busier(taken[1].event) :
                        FillResult(taken[1].order, ev).fill >= taken[1].result.fill
      <3>1. PICK o \in Orders, ev \in MarketEvents :
                taken = <<[order |-> o, event |-> ev, result |-> FillResult(o, ev)]>>
        BY <2>1 DEF EngineInv
      <3>2. taken[1].order = o /\ taken[1].event = ev /\ taken[1].result = FillResult(o, ev)
        BY <3>1
      <3>3. engine \in Engines
        BY <2>1 DEF EngineInv
      <3> QED BY <3>2, <3>3, ServedWell, MoreHelps
    <2> QED BY <2>1 DEF FillsFair, QueueServedFirst, ActivityHelps
  <1> QED BY <1>1, <1>2, <1>3, PTL DEF EngineSpec

-----------------------------------------------------------------------------
(* The portfolio snapshot. *)

\* What a build knows: the pinned offset is one of the stream, and the fills are those up
\* to it, once both are read.
RealizedIs(pin, realized) ==
    pin > 0 => /\ pin <= Len(fillStream)
               /\ realized = SumOf(SubSeq(fillStream, 1, IF pin < FillWindow THEN pin ELSE FillWindow))

BuildTrue ==
    /\ phase \in Nat /\ phase >= 1 /\ fillStream \in Seq(Int)
    /\ prodSnapshots =>
        /\ phase > 1 => "fillPin" \in DOMAIN got
        /\ phase > 3 => "fills" \in DOMAIN got
        /\ "fillPin" \in DOMAIN got => got["fillPin"] \in 0 .. Len(fillStream)
        /\ "fills" \in DOMAIN got => phase > 2 /\ RealizedIs(got["fillPin"], got["fills"])

\* A snapshot that was sent keeps what it said of the stream, which only grows.
SnapshotTrue(s) == prodSnapshots => s.pin \in Nat /\ RealizedIs(s.pin, s.realized)

\* The inductive invariant.
PortfolioInv ==
    /\ BuildTrue
    /\ \A i \in DOMAIN snapshotFeed : SnapshotTrue(snapshotFeed[i])
    /\ snapshotFeed = <<>> \/ snapshotFeed = <<snapshotFeed[1]>>
    /\ cached = <<>> \/ cached = <<cached[1]>>
    /\ \A i \in DOMAIN cached : SnapshotTrue(cached[i])

\* What is said of a stream stands when it grows.
LEMMA RealizedStands ==
    ASSUME fillStream \in Seq(Int), NEW x \in Int,
           fillStream' = fillStream \/ fillStream' = Append(fillStream, x),
           NEW pin \in Nat, NEW realized, RealizedIs(pin, realized)
    PROVE  RealizedIs(pin, realized)'
  <1>1. CASE fillStream' = fillStream
    BY <1>1 DEF RealizedIs
  <1>2. CASE fillStream' = Append(fillStream, x)
    <2>1. SUFFICES ASSUME pin > 0 PROVE RealizedIs(pin, realized)'
      BY DEF RealizedIs
    <2>2. PICK k : k = IF pin < FillWindow THEN pin ELSE FillWindow
      OBVIOUS
    <2>3. k \in Nat /\ k <= pin /\ pin <= Len(fillStream) /\ realized = SumOf(SubSeq(fillStream, 1, k))
      BY <2>1, <2>2, PortfolioConstants DEF PortfolioConstants, RealizedIs
    <2>4. SubSeq(Append(fillStream, x), 1, k) = SubSeq(fillStream, 1, k)
      BY <2>3
    <2>5. Len(fillStream') = Len(fillStream) + 1
      BY <1>2
    <2>6. Len(fillStream) \in Nat
      OBVIOUS
    <2>7. pin <= Len(fillStream')
      BY <2>3, <2>5, <2>6
    <2>8. realized = SumOf(SubSeq(fillStream', 1, k))
      BY <1>2, <2>3, <2>4
    <2> QED BY <2>2, <2>7, <2>8 DEF RealizedIs
  <1> QED BY <1>1, <1>2

\* Nothing of it changes with the stream.
LEMMA SnapshotStands ==
    ASSUME fillStream \in Seq(Int), NEW x \in Int, prodSnapshots' = prodSnapshots,
           fillStream' = fillStream \/ fillStream' = Append(fillStream, x),
           NEW s, SnapshotTrue(s)
    PROVE  SnapshotTrue(s)'
  BY RealizedStands DEF SnapshotTrue

\* A write of the bridge adds at most to the end of the stream of fills.
LEMMA WriteKeeps ==
    ASSUME PortfolioInv, Write
    PROVE  PortfolioInv'
  <1>1. /\ fillStream' = fillStream \/ fillStream' = Append(fillStream, 1)
        /\ UNCHANGED <<prodSnapshots, phase, got, snapshotFeed, cached>>
    BY DEF Write, buildVars, cacheVars
  <1>2. fillStream \in Seq(Int) /\ 1 \in Int
    BY DEF PortfolioInv, BuildTrue
  <1>3. fillStream' \in Seq(Int) /\ Len(fillStream) \in Nat /\ Len(fillStream) <= Len(fillStream')
    BY <1>1, <1>2
  <1>4. BuildTrue'
    <2>1. SUFFICES ASSUME prodSnapshots
          PROVE  /\ phase > 1 => "fillPin" \in DOMAIN got
                 /\ phase > 3 => "fills" \in DOMAIN got
                 /\ "fillPin" \in DOMAIN got => got["fillPin"] \in 0 .. Len(fillStream')
                 /\ "fills" \in DOMAIN got => phase > 2 /\ RealizedIs(got["fillPin"], got["fills"])'
      BY <1>1, <1>3 DEF PortfolioInv, BuildTrue, RealizedIs
    <2>2. "fillPin" \in DOMAIN got => got["fillPin"] \in 0 .. Len(fillStream')
      BY <1>1, <1>3, <2>1 DEF PortfolioInv, BuildTrue
    <2>3. ASSUME "fills" \in DOMAIN got
          PROVE  phase > 2 /\ RealizedIs(got["fillPin"], got["fills"])'
      <3>1. PICK pin, realized : pin = got["fillPin"] /\ realized = got["fills"]
        OBVIOUS
      <3>2. phase > 2 /\ pin \in Nat /\ RealizedIs(pin, realized)
        BY <2>1, <2>3, <3>1 DEF PortfolioInv, BuildTrue
      <3>3. RealizedIs(pin, realized)'
        BY <1>1, <1>2, <3>2, RealizedStands
      <3> QED BY <1>1, <3>1, <3>2, <3>3 DEF RealizedIs
    <2> QED BY <2>1, <2>2, <2>3 DEF PortfolioInv, BuildTrue
  <1>5. ASSUME NEW s, SnapshotTrue(s) PROVE SnapshotTrue(s)'
    BY <1>1, <1>2, <1>5, SnapshotStands
  <1> QED BY <1>1, <1>4, <1>5 DEF PortfolioInv

\* A read of a build: the fills are read after the pin, and no further than it.
LEMMA ReadKeeps ==
    ASSUME PortfolioInv, NEW r, ReadNext(r)
    PROVE  PortfolioInv'
  <1>1. /\ phase <= Len(ReadGroups) /\ r \in ReadGroups[phase] \ DOMAIN got
        /\ got' = [x \in DOMAIN got \cup {r} |-> IF x = r THEN ReadOf(r) ELSE got[x]]
        /\ phase' = IF ReadGroups[phase] \subseteq DOMAIN got' THEN phase + 1 ELSE phase
        /\ UNCHANGED <<prodSnapshots, fillStream, snapshotFeed, cached>>
    BY DEF ReadNext, bridgeVars, cacheVars
  <1>2. /\ DOMAIN got' = DOMAIN got \cup {r} /\ got'[r] = ReadOf(r) /\ r \notin DOMAIN got
        /\ \A x \in DOMAIN got : got'[x] = got[x]
    BY <1>1
  <1>3. phase \in Nat /\ phase' \in Nat /\ phase <= phase' /\ phase' <= phase + 1
    BY <1>1 DEF PortfolioInv, BuildTrue
  <1>4. BuildTrue'
    <2>1. SUFFICES ASSUME prodSnapshots
          PROVE  /\ phase' > 1 => "fillPin" \in DOMAIN got'
                 /\ phase' > 3 => "fills" \in DOMAIN got'
                 /\ "fillPin" \in DOMAIN got' => got'["fillPin"] \in 0 .. Len(fillStream)
                 /\ "fills" \in DOMAIN got' => phase' > 2 /\ RealizedIs(got'["fillPin"], got'["fills"])
      BY <1>1, <1>3 DEF PortfolioInv, BuildTrue, RealizedIs
    <2>2. ReadGroups = <<{"fillPin", "orderPin"}, {"positions", "prices", "avg", "cash"},
                         {"fills"}, {"orders"}>>
      BY <2>1 DEF ReadGroups
    <2>3. /\ phase \in {1, 2, 3, 4} /\ ReadGroups[1] = {"fillPin", "orderPin"}
          /\ ReadGroups[2] = {"positions", "prices", "avg", "cash"}
          /\ ReadGroups[3] = {"fills"} /\ ReadGroups[4] = {"orders"}
      <3>1. Len(ReadGroups) = 4
        BY <2>2
      <3>2. phase >= 1 /\ phase <= 4
        BY <1>1, <3>1 DEF PortfolioInv, BuildTrue
      <3> QED BY <1>3, <2>2, <3>2
    <2>4. /\ phase > 1 => "fillPin" \in DOMAIN got
          /\ phase > 3 => "fills" \in DOMAIN got
          /\ "fillPin" \in DOMAIN got => got["fillPin"] \in 0 .. Len(fillStream)
          /\ "fills" \in DOMAIN got => phase > 2 /\ RealizedIs(got["fillPin"], got["fills"])
          /\ fillStream \in Seq(Int)
      BY <2>1 DEF PortfolioInv, BuildTrue
    <2>5. phase' > 1 => "fillPin" \in DOMAIN got'
      BY <1>1, <1>2, <2>3, <2>4
    <2>6. phase' > 3 => "fills" \in DOMAIN got'
      BY <1>1, <1>2, <2>3, <2>4
    <2>7. ASSUME "fillPin" \in DOMAIN got' PROVE got'["fillPin"] \in 0 .. Len(fillStream)
      <3>1. CASE r = "fillPin"
        <4>1. ReadOf(r) = Len(fillStream)
          BY <3>1 DEF ReadOf
        <4> QED BY <1>2, <2>4, <3>1, <4>1
      <3>2. CASE r # "fillPin"
        BY <1>2, <2>4, <2>7, <3>2
      <3> QED BY <3>1, <3>2
    <2>8. ASSUME "fills" \in DOMAIN got'
          PROVE  phase' > 2 /\ RealizedIs(got'["fillPin"], got'["fills"])
      <3>1. CASE r # "fills"
        <4>1. "fills" \in DOMAIN got /\ "fillPin" \in DOMAIN got
          BY <1>2, <1>3, <2>4, <2>8, <3>1
        <4>2. got'["fills"] = got["fills"] /\ got'["fillPin"] = got["fillPin"]
          BY <1>2, <4>1
        <4> QED BY <1>3, <2>4, <4>1, <4>2
      <3>2. CASE r = "fills"
        <4>2. phase = 3
          BY <1>1, <2>3, <3>2
        <4>3. "fillPin" \in DOMAIN got /\ got'["fillPin"] = got["fillPin"]
          BY <1>2, <2>4, <4>2
        <4>4. PICK pin : pin = got["fillPin"]
          OBVIOUS
        <4>5. ReadOf(r) = SumOf(Bounded(fillStream, pin, FillWindow))
          BY <2>1, <3>2, <4>4 DEF ReadOf, PinOf
        <4>6. pin \in Nat /\ pin <= Len(fillStream) /\ Len(fillStream) \in Nat
          BY <2>4, <4>3, <4>4
        <4>7. pin > 0 => Bounded(fillStream, pin, FillWindow)
                         = SubSeq(fillStream, 1, IF pin < FillWindow THEN pin ELSE FillWindow)
          <5>1. SUFFICES ASSUME pin > 0
                PROVE  Bounded(fillStream, pin, FillWindow)
                       = SubSeq(fillStream, 1, IF pin < FillWindow THEN pin ELSE FillWindow)
            OBVIOUS
          <5>2. ~(pin = 0 \/ pin > Len(fillStream))
            BY <4>6, <5>1
          <5> QED BY <2>1, <5>2 DEF Bounded
        <4>8. RealizedIs(pin, ReadOf(r))
          BY <4>5, <4>6, <4>7 DEF RealizedIs
        <4> QED BY <1>2, <1>3, <3>2, <4>2, <4>3, <4>4, <4>8
      <3> QED BY <3>1, <3>2
    <2> QED BY <2>5, <2>6, <2>7, <2>8
  <1>5. ASSUME NEW s, SnapshotTrue(s) PROVE SnapshotTrue(s)'
    BY <1>1, <1>5 DEF SnapshotTrue, RealizedIs
  <1> QED BY <1>1, <1>4, <1>5 DEF PortfolioInv

\* What is sent is what was built.
LEMMA PublishKeeps ==
    ASSUME PortfolioInv, PublishSnapshot
    PROVE  PortfolioInv'
  <1>1. /\ phase > Len(ReadGroups) /\ Len(snapshotFeed) < 1
        /\ snapshotFeed' = IF lives > 0 THEN Append(snapshotFeed, Snapshot) ELSE snapshotFeed
        /\ phase' = 1 /\ got' = Unread
        /\ UNCHANGED <<prodSnapshots, fillStream, cached>>
    BY DEF PublishSnapshot, bridgeVars
  <1>2. PICK s : s = Snapshot
    OBVIOUS
  <1>3. SnapshotTrue(s)
    <2>1. SUFFICES ASSUME prodSnapshots PROVE s.pin \in Nat /\ RealizedIs(s.pin, s.realized)
      BY DEF SnapshotTrue
    <2>2. Len(ReadGroups) = 4
      BY <2>1 DEF ReadGroups
    <2>3. phase > 3 /\ phase > 1
      BY <1>1, <2>2 DEF PortfolioInv, BuildTrue
    <2>4. /\ got["fillPin"] \in 0 .. Len(fillStream) /\ RealizedIs(got["fillPin"], got["fills"])
      BY <2>1, <2>3 DEF PortfolioInv, BuildTrue
    <2>5. s.pin = got["fillPin"] /\ s.realized = got["fills"]
      BY <1>2, <2>1 DEF Snapshot, PinOf
    <2> QED BY <2>4, <2>5
  <1>4. SnapshotTrue(s)'
    BY <1>1, <1>3 DEF SnapshotTrue, RealizedIs
  <1>5. snapshotFeed = <<>>
    BY <1>1 DEF PortfolioInv
  <1>6. snapshotFeed' = <<>> \/ snapshotFeed' = <<s>>
    BY <1>1, <1>2, <1>5
  <1>7. BuildTrue'
    BY <1>1 DEF PortfolioInv, BuildTrue, Unread
  <1>8. \A i \in DOMAIN cached' : SnapshotTrue(cached[i])'
    BY <1>1 DEF PortfolioInv, SnapshotTrue, RealizedIs
  <1>9. \A i \in DOMAIN snapshotFeed' : SnapshotTrue(snapshotFeed[i])'
    BY <1>4, <1>6
  <1>10. cached' = <<>> \/ cached' = <<cached'[1]>>
    BY <1>1 DEF PortfolioInv
  <1>11. snapshotFeed' = <<>> \/ snapshotFeed' = <<snapshotFeed'[1]>>
    BY <1>6
  <1> QED BY <1>11, <1>7, <1>8, <1>9, <1>10 DEF PortfolioInv

\* Whatever the bridge writes and whenever the control plane starts and reads.
LEMMA PortfolioInvStep ==
    ASSUME PortfolioInv, [PortfolioNext]_portfolioVars
    PROVE  PortfolioInv'
  <1>1. ASSUME UNCHANGED <<prodSnapshots, fillStream, phase, got>>
        PROVE  BuildTrue' /\ \A s : SnapshotTrue(s) => SnapshotTrue(s)'
    BY <1>1 DEF PortfolioInv, BuildTrue, SnapshotTrue, RealizedIs
  <1>2. CASE Write
    BY <1>2, WriteKeeps
  <1>3. CASE ReadSome
    BY <1>3, ReadKeeps DEF ReadSome
  <1>4. CASE PublishSnapshot
    BY <1>4, PublishKeeps
  <1>5. CASE StartControlPlane
    <2>1. /\ UNCHANGED <<prodSnapshots, fillStream, phase, got>>
          /\ snapshotFeed' = <<>> /\ cached' = <<>>
      BY <1>5 DEF StartControlPlane, bridgeVars, buildVars
    <2> QED BY <1>1, <2>1 DEF PortfolioInv
  <1>6. CASE ReceiveSnapshot
    <2>1. /\ UNCHANGED <<prodSnapshots, fillStream, phase, got>>
          /\ snapshotFeed # <<>> /\ snapshotFeed' = Tail(snapshotFeed)
          /\ cached' = <<Head(snapshotFeed)>>
      BY <1>6 DEF ReceiveSnapshot, bridgeVars, buildVars
    <2>2. PICK s : snapshotFeed = <<s>>
      BY <2>1 DEF PortfolioInv
    <2>3. SnapshotTrue(s)
      BY <2>2 DEF PortfolioInv
    <2>4. snapshotFeed' = <<>> /\ cached' = <<s>>
      BY <2>1, <2>2
    <2> QED BY <1>1, <2>1, <2>3, <2>4 DEF PortfolioInv
  <1>7. CASE UNCHANGED portfolioVars
    <2>1. UNCHANGED <<prodSnapshots, fillStream, phase, got, snapshotFeed, cached>>
      BY <1>7 DEF portfolioVars, bridgeVars, buildVars, cacheVars
    <2> QED BY <1>1, <2>1 DEF PortfolioInv
  <1> QED BY <1>2, <1>3, <1>4, <1>5, <1>6, <1>7 DEF PortfolioNext

\* Whatever the bridge writes between two reads, on the prod path the realized profit of
\* a snapshot that was sent or is kept is that of the fills up to the offset it names.
THEOREM RealizedStaysAtOffset == PortfolioSpec => []RealizedAtOffset
  <1>1. PortfolioInit => PortfolioInv
    BY DEF PortfolioInit, PortfolioInv, BuildTrue, Unread
  <1>2. PortfolioInv /\ [PortfolioNext]_portfolioVars => PortfolioInv'
    BY PortfolioInvStep
  <1>3. PortfolioInv => RealizedAtOffset
    <2>1. SUFFICES ASSUME PortfolioInv, NEW s \in ToSet(cached) \cup ToSet(snapshotFeed),
                          prodSnapshots, s.pin > 0
          PROVE  s.realized =
                   SumOf(SubSeq(fillStream, 1, IF s.pin < FillWindow THEN s.pin ELSE FillWindow))
      BY DEF RealizedAtOffset
    <2>2. SnapshotTrue(s)
      BY <2>1 DEF PortfolioInv, ToSet
    <2> QED BY <2>1, <2>2 DEF SnapshotTrue, RealizedIs
  <1> QED BY <1>1, <1>2, <1>3, PTL DEF PortfolioSpec

-----------------------------------------------------------------------------
(* The feed ingest. *)

FeedStates == [last : Nat \cup {NoTime}, seen : SUBSET (Nat \X Nat)]

\* What a stream remembers it accepted, and it forgot only what was more than it may keep.
MemoryTrue(s) ==
    /\ IsFiniteSet(keyed[s])
    /\ feed[s].seen \subseteq keyed[s]
    /\ keyed[s] \subseteq feed[s].seen \/ Cardinality(keyed[s]) > SeenLimit

\* The events without an alert come no further than the highest sequence.
CalmBelow(s) == \A i \in DOMAIN calm[s] : calm[s][i].seq <= feed[s].last

\* The last heartbeat, while ticks are answered.
HeartbeatsKept ==
    /\ heartbeat # NoTime => heartbeat <= feedNow
    /\ lastIngest # NoTime => lastIngest <= feedNow

\* The inductive invariant.
FeedInv ==
    /\ FeedTypeOK
    /\ NoDoubleEvent
    /\ CalmInOrder
    /\ HeartbeatFresh
    /\ HeartbeatsKept
    /\ \A s \in FeedStreams : MemoryTrue(s) /\ CalmBelow(s)

\* The state of a stream is a record of two fields.
LEMMA StateOfStream ==
    ASSUME FeedInv, NEW s \in FeedStreams
    PROVE  /\ feed[s] \in FeedStates
           /\ feed[s].last \in Nat \cup {NoTime} /\ feed[s].seen \in SUBSET (Nat \X Nat)
           /\ keyed[s] \in SUBSET (Nat \X Nat) /\ doubled[s] \in SUBSET (Nat \X Nat)
           /\ calm[s] \in Seq(Ticks)
  BY DEF FeedInv, FeedTypeOK, FeedStates

\* A key is a sequence and a time.
LEMMA KeyOfTick ==
    ASSUME feedNow \in Nat, NEW p \in Ticks
    PROVE  /\ TickKey(p) \in Nat \X Nat /\ TickKey(p)[1] = p.seq
           /\ p.at \in {TickKey(p)[2], NoTime}
  BY FeedConstants DEF FeedConstants, TickKey, EventTime

\* What is remembered of a set of keys that may have grown over the limit.
LEMMA TrimKeeps ==
    ASSUME NEW keys, IsFiniteSet(keys), NEW kept \in SeenAfter(keys)
    PROVE  kept \subseteq keys /\ (kept = keys \/ Cardinality(keys) > SeenLimit)
  <1>1. Cardinality(keys) \in Nat /\ SeenLimit \in Nat
    BY FS_CardinalityType, FeedConstants DEF FeedConstants
  <1>2. CASE Cardinality(keys) <= SeenLimit
    BY <1>2 DEF SeenAfter
  <1>3. CASE ~(Cardinality(keys) <= SeenLimit)
    BY <1>1, <1>3 DEF SeenAfter
  <1> QED BY <1>2, <1>3

\* A heartbeat is noted when it is due.
LEMMA Beats ==
    ASSUME FeedInv, MaybeHeartbeat, lastIngest' = feedNow, feedNow' = feedNow
    PROVE  /\ HeartbeatFresh' /\ HeartbeatsKept'
           /\ heartbeat' \in Nat \cup {NoTime} /\ lastIngest' \in Nat \cup {NoTime}
  <1>1. feedNow \in Nat /\ heartbeat \in Nat \cup {NoTime} /\ HeartbeatEvery \in Nat \ {0}
    BY FeedConstants DEF FeedInv, FeedTypeOK, FeedConstants
  <1>2. CASE HeartbeatDue
    BY <1>1, <1>2 DEF MaybeHeartbeat, HeartbeatFresh, HeartbeatsKept, NoTime
  <1>3. CASE ~HeartbeatDue
    <2>1. heartbeat' = heartbeat /\ heartbeat # NoTime /\ ~(feedNow - heartbeat >= HeartbeatEvery)
      BY <1>3 DEF MaybeHeartbeat, HeartbeatDue
    <2> QED BY <1>1, <2>1 DEF FeedInv, HeartbeatFresh, HeartbeatsKept, NoTime
  <1> QED BY <1>2, <1>3

\* What does not concern the heartbeat, for a step that leaves the streams alone.
LEMMA StreamsStand ==
    ASSUME FeedInv, UNCHANGED <<feed, keyed, doubled, calm>>
    PROVE  /\ NoDoubleEvent' /\ CalmInOrder'
           /\ \A s \in FeedStreams : MemoryTrue(s)' /\ CalmBelow(s)'
  BY DEF FeedInv, NoDoubleEvent, CalmInOrder, MemoryTrue, CalmBelow

\* A tick that was seen is answered with a heartbeat at most.
LEMMA DuplicateKeeps ==
    ASSUME FeedInv, NEW p \in Ticks, IngestDuplicate(p)
    PROVE  FeedInv'
  <1>1. MaybeHeartbeat /\ lastIngest' = feedNow /\ UNCHANGED <<feedNow, feed, keyed, doubled, calm>>
    BY DEF IngestDuplicate
  <1>2. /\ HeartbeatFresh' /\ HeartbeatsKept'
        /\ heartbeat' \in Nat \cup {NoTime} /\ lastIngest' \in Nat \cup {NoTime}
    BY <1>1, Beats
  <1>3. FeedTypeOK'
    BY <1>1, <1>2 DEF FeedInv, FeedTypeOK
  <1> QED BY <1>1, <1>2, <1>3, StreamsStand DEF FeedInv

\* A new tick is remembered with its key, and the highest sequence with it.
LEMMA NewKeeps ==
    ASSUME FeedInv, NEW p \in Ticks, IngestNew(p)
    PROVE  FeedInv'
  <1>1. PICK s, st, key : s = p.stream /\ st = feed[s] /\ key = TickKey(p)
    OBVIOUS
  <1>2. s \in FeedStreams
    BY <1>1 DEF FeedStreams
  <1>3. PICK kept \in SeenAfter(st.seen \cup {key}) :
            feed' = [feed EXCEPT ![s] = [last |-> LastAfter(st.last, p.seq), seen |-> kept]]
    BY <1>1 DEF IngestNew, AcceptTick
  <1>4. /\ keyed' = [keyed EXCEPT ![s] = @ \cup {key}] /\ p.valid /\ key \notin st.seen
        /\ doubled' = [doubled EXCEPT ![s] = @ \cup (keyed[s] \cap {key})]
        /\ calm' = IF FeedAlerts(st, p) = {} THEN [calm EXCEPT ![s] = Append(@, p)] ELSE calm
        /\ MaybeHeartbeat /\ lastIngest' = feedNow /\ feedNow' = feedNow
    BY <1>1 DEF IngestNew, AcceptTick
  <1>5. /\ p.seq \in Nat /\ st.last \in Nat \cup {NoTime}
        /\ st.seen \in SUBSET (Nat \X Nat) /\ calm[s] \in Seq(Ticks)
        /\ key \in Nat \X Nat /\ key[1] = p.seq /\ p.at \in {key[2], NoTime}
    <2>1. feedNow \in Nat
      BY DEF FeedInv, FeedTypeOK
    <2>2. key \in Nat \X Nat /\ key[1] = p.seq /\ p.at \in {key[2], NoTime}
      BY <1>1, <2>1, KeyOfTick
    <2> QED BY <1>1, <1>2, <2>2, StateOfStream, FeedConstants DEF FeedConstants
  <1>6. PICK top : top = LastAfter(st.last, p.seq)
    OBVIOUS
  <1>7. top \in Nat /\ top >= st.last /\ top >= p.seq
    BY <1>5, <1>6 DEF LastAfter, NoTime
  <1>8. /\ keyed \in [FeedStreams -> SUBSET (Nat \X Nat)] /\ keyed' \in [FeedStreams -> SUBSET (Nat \X Nat)]
        /\ doubled \in [FeedStreams -> SUBSET (Nat \X Nat)] /\ doubled' \in [FeedStreams -> SUBSET (Nat \X Nat)]
        /\ keyed'[s] = keyed[s] \cup {key} /\ doubled'[s] = doubled[s] \cup (keyed[s] \cap {key})
        /\ \A x \in FeedStreams : x # s => keyed'[x] = keyed[x] /\ doubled'[x] = doubled[x]
    BY <1>2, <1>4, <1>5 DEF FeedInv, FeedTypeOK
  <1>9. /\ HeartbeatFresh' /\ HeartbeatsKept'
        /\ heartbeat' \in Nat \cup {NoTime} /\ lastIngest' \in Nat \cup {NoTime}
    BY <1>4, Beats
  <1>10. PICK before, after : before = keyed[s] /\ after = keyed'[s]
    OBVIOUS
  <1>11. after = before \cup {key}
    BY <1>8, <1>10
  <1>12. PICK keys : keys = st.seen \cup {key}
    OBVIOUS
  <1>13. /\ st.seen \subseteq before /\ (before \subseteq st.seen \/ Cardinality(before) > SeenLimit)
    BY <1>1, <1>2, <1>10 DEF FeedInv, MemoryTrue
  <1>14. IsFiniteSet(before) /\ IsFiniteSet(after) /\ IsFiniteSet(keys)
    <2>1. IsFiniteSet(before)
      BY <1>2, <1>10 DEF FeedInv, MemoryTrue
    <2>2. IsFiniteSet(after)
      BY <1>11, <2>1, FS_AddElement
    <2>3. keys \subseteq after
      BY <1>11, <1>12, <1>13
    <2> QED BY <2>1, <2>2, <2>3, FS_Subset
  <1>15. /\ Cardinality(after) > SeenLimit \/ ~(Cardinality(before) > SeenLimit)
         /\ Cardinality(after) > SeenLimit \/ ~(Cardinality(keys) > SeenLimit)
    <2>1. before \subseteq after /\ keys \subseteq after
      BY <1>11, <1>12, <1>13
    <2>2. /\ Cardinality(before) \in Nat /\ Cardinality(after) \in Nat /\ Cardinality(keys) \in Nat
          /\ SeenLimit \in Nat
      BY <1>14, FS_CardinalityType, FeedConstants DEF FeedConstants
    <2>3. Cardinality(before) <= Cardinality(after) /\ Cardinality(keys) <= Cardinality(after)
      BY <1>14, <2>1, FS_Subset
    <2> QED BY <2>2, <2>3
  <1>16. kept \subseteq keys /\ (kept = keys \/ Cardinality(keys) > SeenLimit)
    BY <1>3, <1>12, <1>14, TrimKeeps
  <1>17. /\ feed'[s].last = top /\ feed'[s].seen = kept
         /\ \A x \in FeedStreams : x # s => feed'[x] = feed[x]
         /\ feed' \in [FeedStreams -> FeedStates]
    <2>1. PICK new : new = [last |-> top, seen |-> kept]
      OBVIOUS
    <2>2. new \in FeedStates /\ new.last = top /\ new.seen = kept
      <3>1. kept \in SUBSET (Nat \X Nat)
        BY <1>5, <1>12, <1>16
      <3> QED BY <1>7, <2>1, <3>1 DEF FeedStates
    <2>3. feed' = [feed EXCEPT ![s] = new] /\ feed \in [FeedStreams -> FeedStates]
      BY <1>3, <1>6, <2>1 DEF FeedInv, FeedTypeOK, FeedStates
    <2> QED BY <1>2, <2>2, <2>3
  <1>19. ASSUME NEW x \in FeedStreams PROVE MemoryTrue(x)'
    <2>1. CASE x = s
      <3>1. kept \subseteq after /\ (after \subseteq kept \/ Cardinality(after) > SeenLimit)
        BY <1>11, <1>12, <1>13, <1>15, <1>16
      <3> QED BY <1>10, <1>14, <1>17, <2>1, <3>1 DEF MemoryTrue
    <2>2. CASE x # s
      <3>1. keyed'[x] = keyed[x] /\ feed'[x] = feed[x]
        BY <1>8, <1>17, <2>2
      <3> QED BY <3>1 DEF FeedInv, MemoryTrue
    <2> QED BY <2>1, <2>2
  <1>20. NoDoubleEvent'
    <2>1. ASSUME NEW x \in FeedStreams, doubled'[x] # {}
          PROVE  Cardinality(keyed'[x]) > SeenLimit
      <3>1. CASE x # s
        BY <1>8, <2>1, <3>1 DEF FeedInv, NoDoubleEvent
      <3>2. CASE x = s
        <4>1. CASE doubled[s] # {}
          <5>1. Cardinality(before) > SeenLimit
            BY <1>2, <1>10, <4>1 DEF FeedInv, NoDoubleEvent
          <5> QED BY <1>10, <1>15, <3>2, <5>1
        <4>2. CASE doubled[s] = {}
          <5>1. key \in before
            BY <1>8, <1>10, <2>1, <3>2, <4>2
          <5>2. Cardinality(before) > SeenLimit
            BY <1>4, <1>13, <5>1
          <5> QED BY <1>10, <1>15, <3>2, <5>2
        <4> QED BY <4>1, <4>2
      <3> QED BY <3>1, <3>2
    <2> QED BY <2>1 DEF NoDoubleEvent
  <1>21. /\ calm' \in [FeedStreams -> Seq(Ticks)]
         /\ \A x \in FeedStreams : CalmBelow(x)'
         /\ \A x \in FeedStreams : \A i, j \in DOMAIN calm'[x] :
                i < j => calm'[x][i].seq < calm'[x][j].seq
    <2>1. CASE FeedAlerts(st, p) # {}
      <3>1. calm' = calm
        BY <1>4, <2>1
      <3>2. ASSUME NEW x \in FeedStreams PROVE CalmBelow(x)'
        <4>1. feed'[x].last >= feed[x].last /\ feed[x].last \in Int /\ feed'[x].last \in Int
          BY <1>1, <1>2, <1>5, <1>7, <1>17, StateOfStream DEF NoTime
        <4>2. \A i \in DOMAIN calm[x] : calm[x][i].seq \in Nat
          BY StateOfStream, FeedConstants DEF FeedConstants
        <4> QED BY <3>1, <4>1, <4>2 DEF FeedInv, CalmBelow
      <3> QED BY <3>1, <3>2 DEF FeedInv, FeedTypeOK, CalmInOrder
    <2>2. CASE FeedAlerts(st, p) = {}
      <3>1. PICK old, new : old = calm[s] /\ new = Append(calm[s], p)
        OBVIOUS
      <3>2. /\ calm' = [calm EXCEPT ![s] = new] /\ calm \in [FeedStreams -> Seq(Ticks)]
            /\ old \in Seq(Ticks)
        BY <1>4, <1>5, <2>2, <3>1 DEF FeedInv, FeedTypeOK
      <3>3. /\ new \in Seq(Ticks) /\ Len(old) \in Nat /\ DOMAIN old = 1 .. Len(old)
            /\ DOMAIN new = 1 .. Len(old) + 1
            /\ new[Len(old) + 1] = p /\ \A i \in DOMAIN old : new[i] = old[i]
        BY <3>1, <3>2
      <3>4. /\ calm' \in [FeedStreams -> Seq(Ticks)] /\ calm'[s] = new
            /\ \A x \in FeedStreams : x # s => calm'[x] = calm[x]
        BY <1>2, <3>2, <3>3
      <3>5. st.last = NoTime \/ p.seq > st.last
        BY <2>2 DEF FeedAlerts, SequenceAlert
      <3>6. \A i \in DOMAIN old : old[i].seq \in Nat /\ old[i].seq <= st.last
        <4>1. \A i \in DOMAIN old : old[i].seq \in Nat
          BY <3>2, FeedConstants DEF FeedConstants
        <4> QED BY <1>1, <1>2, <3>1, <4>1 DEF FeedInv, CalmBelow
      <3>7. \A i \in DOMAIN old : old[i].seq < p.seq
        BY <1>5, <3>5, <3>6 DEF NoTime
      <3>8. \A i \in DOMAIN new : new[i].seq \in Nat /\ new[i].seq <= top
        <4>1. \A i \in DOMAIN old : new[i].seq \in Nat /\ new[i].seq <= top
          BY <1>5, <1>7, <3>3, <3>6, <3>7
        <4>2. new[Len(old) + 1].seq \in Nat /\ new[Len(old) + 1].seq <= top
          BY <1>5, <1>7, <3>3
        <4>3. \A i \in DOMAIN new : i = Len(old) + 1 \/ i \in DOMAIN old
          BY <3>3
        <4> QED BY <4>1, <4>2, <4>3
      <3>9. ASSUME NEW x \in FeedStreams
            PROVE  /\ CalmBelow(x)'
                   /\ \A i, j \in DOMAIN calm'[x] : i < j => calm'[x][i].seq < calm'[x][j].seq
        <4>1. CASE x = s
          <5>1. CalmBelow(x)'
            BY <1>17, <3>4, <3>8, <4>1 DEF CalmBelow
          <5>2. \A i, j \in DOMAIN old : i < j => old[i].seq < old[j].seq
            BY <1>2, <3>1 DEF FeedInv, CalmInOrder
          <5>3. ASSUME NEW i \in DOMAIN new, NEW j \in DOMAIN new, i < j
                PROVE  new[i].seq < new[j].seq
            <6>1. CASE j = Len(old) + 1
              BY <3>3, <3>7, <5>3, <6>1
            <6>2. CASE j # Len(old) + 1
              <7>1. i \in DOMAIN old /\ j \in DOMAIN old
                BY <3>3, <5>3, <6>2
              <7> QED BY <3>3, <5>2, <5>3, <7>1
            <6> QED BY <6>1, <6>2
          <5> QED BY <3>4, <4>1, <5>1, <5>3
        <4>2. CASE x # s
          BY <1>17, <3>4, <4>2 DEF FeedInv, CalmBelow, CalmInOrder
        <4> QED BY <4>1, <4>2
      <3> QED BY <3>4, <3>9
    <2> QED BY <2>1, <2>2
  <1>22. FeedTypeOK'
    <2>1. ASSUME NEW x \in FeedStreams, NEW k \in keyed'[x]
          PROVE  \E q \in Ticks : q.valid /\ q.stream = x /\ q.seq = k[1] /\ q.at \in {k[2], NoTime}
      <3>1. CASE x = s /\ k = key
        BY <1>1, <1>4, <1>5, <3>1
      <3>2. CASE ~(x = s /\ k = key)
        <4>1. k \in keyed[x]
          BY <1>8, <2>1, <3>2
        <4> QED BY <4>1 DEF FeedInv, FeedTypeOK
      <3> QED BY <3>1, <3>2
    <2> QED BY <1>4, <1>8, <1>9, <1>17, <1>21, <2>1 DEF FeedInv, FeedTypeOK, FeedStates
  <1>23. CalmInOrder'
    BY <1>21 DEF CalmInOrder
  <1> QED BY <1>9, <1>19, <1>20, <1>21, <1>22, <1>23 DEF FeedInv

\* Ticks and time.
LEMMA FeedInvStep ==
    ASSUME FeedInv, [FeedNext]_feedVars
    PROVE  FeedInv'
  <1>1. CASE UNCHANGED feedVars
    <2>1. UNCHANGED <<feedNow, feed, heartbeat, lastIngest, keyed, doubled, calm>>
      BY <1>1 DEF feedVars
    <2>2. FeedTypeOK' /\ HeartbeatFresh' /\ HeartbeatsKept'
      BY <2>1 DEF FeedInv, FeedTypeOK, HeartbeatFresh, HeartbeatsKept
    <2> QED BY <2>1, <2>2, StreamsStand DEF FeedInv
  <1>2. ASSUME NEW p \in Ticks, IngestInvalid(p) PROVE FeedInv'
    BY <1>1, <1>2 DEF IngestInvalid
  <1>3. CASE FeedTick
    <2>1. feedNow' = feedNow + 1 /\ UNCHANGED <<feed, heartbeat, lastIngest, keyed, doubled, calm>>
      BY <1>3 DEF FeedTick
    <2>2. feedNow \in Nat /\ feedNow + 1 \in Nat /\ heartbeat \in Nat \cup {NoTime}
          /\ lastIngest \in Nat \cup {NoTime}
      BY DEF FeedInv, FeedTypeOK
    <2>3. FeedTypeOK'
      BY <2>1, <2>2 DEF FeedInv, FeedTypeOK
    <2>4. HeartbeatFresh' /\ HeartbeatsKept'
      BY <2>1, <2>2 DEF FeedInv, HeartbeatFresh, HeartbeatsKept, NoTime
    <2> QED BY <2>1, <2>3, <2>4, StreamsStand DEF FeedInv
  <1> QED BY <1>1, <1>2, <1>3, DuplicateKeeps, NewKeeps DEF FeedNext

\* For any ticks, in any order and any number of times: no sequence and time becomes a second event before
\* its stream had more keys than the limit, the events without an alert are in order, and
\* heartbeats go on while ticks are answered.
THEOREM FeedStaysTrusted == FeedSpec => []FeedTrusted
  <1>1. FeedInit => FeedInv
    <2>1. SUFFICES ASSUME FeedInit PROVE FeedInv
      OBVIOUS
    <2>2. /\ feedNow = 0 /\ heartbeat = NoTime /\ lastIngest = NoTime
          /\ keyed = [s \in FeedStreams |-> {}] /\ doubled = [s \in FeedStreams |-> {}]
          /\ \A s \in FeedStreams : feed[s].seen = {} /\ calm[s] = <<>>
      BY <2>1 DEF FeedInit
    <2>3. feed \in [FeedStreams -> FeedStates] /\ calm \in [FeedStreams -> Seq(Ticks)]
      BY <2>1 DEF FeedInit, FeedStates
    <2>4. FeedTypeOK
      BY <2>1, <2>3 DEF FeedInit, FeedTypeOK, FeedStates
    <2>5. NoDoubleEvent /\ CalmInOrder /\ HeartbeatFresh /\ HeartbeatsKept
      BY <2>2 DEF NoDoubleEvent, CalmInOrder, HeartbeatFresh, HeartbeatsKept
    <2>6. \A s \in FeedStreams : MemoryTrue(s) /\ CalmBelow(s)
      <3>1. \A s \in FeedStreams : keyed[s] = {} /\ IsFiniteSet({})
        BY <2>2, FS_EmptySet
      <3> QED BY <2>2, <3>1 DEF MemoryTrue, CalmBelow
    <2> QED BY <2>4, <2>5, <2>6 DEF FeedInv
  <1>2. FeedInv /\ [FeedNext]_feedVars => FeedInv'
    BY FeedInvStep
  <1>3. FeedInv => FeedTrusted
    BY DEF FeedInv, FeedTrusted
  <1> QED BY <1>1, <1>2, <1>3, PTL DEF FeedSpec

-----------------------------------------------------------------------------
(* The ingest requests. *)

\* A row names what it was asked for; a request without symbols is one for "UNKNOWN".
RowTrue(row) ==
    /\ row = [version |-> row.version, symbols |-> row.symbols, timeframe |-> Head(row.resolutions),
              resolutions |-> row.resolutions, start |-> row.start, end |-> row.end]
    /\ Dated(row) /\ row.symbols # <<>> /\ row.resolutions # <<>>
    /\ \E named \in {{}, ToSet(row.symbols)} :
         /\ row.version = [spec |-> <<named, ToSet(row.resolutions), row.start, row.end>>]
         /\ ToSet(row.symbols) = IF named = {} THEN {UnknownSymbol} ELSE named

\* Somebody asked for the data set of a row under the primary key it stands under.
PlaceTrue(id) == \E e \in asked : e.id = id /\ e.dataset = catalog[id].version

CatalogTrue == \A id \in DOMAIN catalog : RowTrue(catalog[id]) /\ PlaceTrue(id)

\* One partition for each symbol of each row.
PartitionsTrue ==
    partitions = UNION {{PartitionRow(id, catalog[id], s) : s \in ToSet(catalog[id].symbols)} :
                         id \in DOMAIN catalog}

\* The data set of an item of a batch, which its key tells.
OfPreset(preset) ==
    DatasetId(Resolve(Normalize(PayloadOf(NoKey, preset, <<>>, <<>>, NoDate, NoDate))))
OfBatch(id, dataset) == \E i, x : id = [batch |-> <<i, x>>] /\ dataset = OfPreset(x)

\* A primary key is a client's, or the data set's own, or one of a batch, which tells
\* the data set.
Told(id, dataset) == id \in ClientKeys \/ id = dataset \/ OfBatch(id, dataset)
AskedTrue == \A e \in asked : Told(e.id, e.dataset)

\* A request is well formed, and its key is a client's or made up by the batch endpoint.
Posted(p) ==
    /\ Dated(p) /\ p = PayloadOf(p.key, p.preset, p.symbols, p.resolutions, p.start, p.end)
    /\ \/ p.key = NoKey \/ p.key \in ClientKeys
       \/ \E i, x : p = PayloadOf([batch |-> <<i, x>>], x, <<>>, <<>>, NoDate, NoDate)

CallerTrue(w) ==
    /\ w = [at |-> w.at, todo |-> w.todo]
    /\ w.at \in {"rest", "look", "insert"}
    /\ IsList(w.todo) /\ \A p \in ToSet(w.todo) : Posted(p)
    /\ w.at = "insert" => /\ w.todo # <<>> /\ Resolvable(Normalize(Head(w.todo)))
                          /\ LET p == Resolve(Normalize(Head(w.todo)))
                             IN  [id |-> LookupId(p), dataset |-> DatasetId(p)] \in asked

RepliesTrue == \A a \in replies : IsList(a.payload.symbols) /\ a.dataset = DatasetId(a.payload)

\* An answer names a data set that some row is of.
AnswersTrue ==
    \A a \in replies : Clashes(a) \/ \E id \in DOMAIN catalog : catalog[id].version = a.dataset

\* A sequence over any set is a list.
LEMMA SeqIsList ==
    ASSUME NEW S, NEW s \in Seq(S)
    PROVE  IsList(s) /\ ToSet(s) \subseteq S
  <1>1. s \in [1 .. Len(s) -> S] /\ Len(s) \in Nat /\ DOMAIN s = 1 .. Len(s)
    OBVIOUS
  <1>2. s \in [1 .. Len(s) -> ToSet(s)]
    BY <1>1 DEF ToSet
  <1>3. s \in Seq(ToSet(s))
    BY <1>1, <1>2, SeqDef
  <1> QED BY <1>1, <1>3 DEF ToSet, IsList

\* The first element and the rest of a list.
LEMMA HeadAndTail ==
    ASSUME NEW s, IsList(s), s # <<>>
    PROVE  /\ Head(s) \in ToSet(s) /\ IsList(Tail(s)) /\ ToSet(Tail(s)) \subseteq ToSet(s)
           /\ \A x \in ToSet(s) : x = Head(s) \/ x \in ToSet(Tail(s))
  <1>1. PICK S : S = ToSet(s)
    OBVIOUS
  <1>2. s \in Seq(S)
    BY <1>1 DEF IsList
  <1>3. Head(s) \in S /\ Tail(s) \in Seq(S)
    BY <1>2
  <1>4. ASSUME NEW x \in S, x # Head(s) PROVE x \in ToSet(Tail(s))
    <2>1. PICK i \in DOMAIN s : s[i] = x
      BY <1>1, <1>4 DEF ToSet
    <2>2. i \in 2 .. Len(s)
      BY <1>2, <1>4, <2>1
    <2>3. i - 1 \in DOMAIN Tail(s) /\ Tail(s)[i - 1] = x
      BY <1>2, <2>1, <2>2
    <2> QED BY <2>3 DEF ToSet
  <1> QED BY <1>1, <1>3, <1>4, SeqIsList

\* The id of a data set and the key of an item of a batch do not meet as primary keys.
LEMMA PlacesApart ==
    ASSUME NEW key, NEW spec
    PROVE  [batch |-> key] # [spec |-> spec]
  <1>1. DOMAIN [batch |-> key] = {"batch"} /\ DOMAIN [spec |-> spec] = {"spec"}
    OBVIOUS
  <1> QED BY <1>1

\* Normalize fills the resolutions in.
LEMMA NormalizedIs ==
    ASSUME NEW p, p = PayloadOf(p.key, p.preset, p.symbols, p.resolutions, p.start, p.end)
    PROVE  Normalize(p) = PayloadOf(p.key, p.preset, p.symbols,
                                    Or(p.resolutions, <<>>, <<Daily>>), p.start, p.end)
  <1>1. CASE p.resolutions = <<>>
    BY <1>1 DEF Normalize, PayloadOf, Or
  <1>2. CASE p.resolutions # <<>>
    BY <1>2 DEF Normalize, Or
  <1> QED BY <1>1, <1>2

\* Resolve replaces what is absent by what the preset has.
LEMMA ResolvedIs ==
    ASSUME NEW key, NEW preset, NEW symbols, NEW resolutions, NEW start, NEW end, preset # NoPreset
    PROVE  Resolve(PayloadOf(key, preset, symbols, resolutions, start, end))
           = PayloadOf(key, preset, Or(symbols, <<>>, Presets[preset].symbols),
                       Or(resolutions, <<>>, Presets[preset].resolutions),
                       Or(start, NoDate, Presets[preset].start), Or(end, NoDate, Presets[preset].end))
  BY DEF Resolve, PayloadOf

\* A request stays well formed, and it has a resolution.
LEMMA ResolvedWell ==
    ASSUME NEW p, Posted(p), Resolvable(Normalize(p)), NEW q, q = Resolve(Normalize(p))
    PROVE  q.key = p.key /\ Dated(q) /\ q.resolutions # <<>>
  <1>1. PICK n, some : n = Normalize(p) /\ some = Or(p.resolutions, <<>>, <<Daily>>)
    OBVIOUS
  <1>2. n = PayloadOf(p.key, p.preset, p.symbols, some, p.start, p.end) /\ Dated(p)
    BY <1>1, NormalizedIs DEF Posted
  <1>3. IsList(some) /\ some # <<>>
    <2>1. <<Daily>> \in Seq({Daily}) /\ <<Daily>> # <<>>
      OBVIOUS
    <2>2. IsList(<<Daily>>)
      BY <2>1, SeqIsList
    <2> QED BY <1>1, <1>2, <2>1, <2>2 DEF Or, Dated
  <1>4. CASE p.preset = NoPreset
    <2>1. q = n
      BY <1>1, <1>2, <1>4 DEF Resolve, PayloadOf
    <2> QED BY <1>2, <1>3, <2>1 DEF PayloadOf, Dated
  <1>5. CASE p.preset # NoPreset
    <2>1. PICK pre : pre = Presets[p.preset]
      OBVIOUS
    <2>2. Dated(pre)
      <3>1. p.preset \in DOMAIN Presets
        BY <1>1, <1>2, <1>5 DEF Resolvable, PayloadOf
      <3> QED BY <2>1, <3>1, RequestConstants DEF RequestConstants
    <2>3. q = PayloadOf(p.key, p.preset, Or(p.symbols, <<>>, pre.symbols), Or(some, <<>>, pre.resolutions),
                        Or(p.start, NoDate, pre.start), Or(p.end, NoDate, pre.end))
      BY <1>1, <1>2, <1>5, <2>1, ResolvedIs
    <2>4. /\ q.key = p.key /\ q.symbols = Or(p.symbols, <<>>, pre.symbols) /\ q.resolutions = some
          /\ q.start = Or(p.start, NoDate, pre.start) /\ q.end = Or(p.end, NoDate, pre.end)
      BY <1>3, <2>3 DEF PayloadOf, Or
    <2> QED BY <1>2, <1>3, <2>2, <2>4 DEF Dated, Or
  <1> QED BY <1>4, <1>5

\* The items of batches with one key are for one data set.
LEMMA PresetTold ==
    ASSUME NEW p, NEW x, p = PayloadOf(p.key, x, <<>>, <<>>, NoDate, NoDate)
    PROVE  DatasetId(Resolve(Normalize(p))) = OfPreset(x)
  <1>1. PICK plain : plain = PayloadOf(NoKey, x, <<>>, <<>>, NoDate, NoDate)
    OBVIOUS
  <1>2. /\ Normalize(p) = PayloadOf(p.key, x, <<>>, <<Daily>>, NoDate, NoDate)
        /\ Normalize(plain) = PayloadOf(NoKey, x, <<>>, <<Daily>>, NoDate, NoDate)
    <2>1. /\ p = PayloadOf(p.key, p.preset, p.symbols, p.resolutions, p.start, p.end)
          /\ plain = PayloadOf(plain.key, plain.preset, plain.symbols, plain.resolutions,
                               plain.start, plain.end)
          /\ p.preset = x /\ p.symbols = <<>> /\ p.resolutions = <<>> /\ p.start = NoDate /\ p.end = NoDate
          /\ plain.key = NoKey /\ plain.preset = x /\ plain.symbols = <<>> /\ plain.resolutions = <<>>
          /\ plain.start = NoDate /\ plain.end = NoDate
      BY <1>1 DEF PayloadOf
    <2> QED BY <2>1, NormalizedIs DEF Or
  <1>3. CASE x = NoPreset
    BY <1>1, <1>2, <1>3 DEF Resolve, DatasetId, OfPreset, PayloadOf
  <1>4. CASE x # NoPreset
    <2>1. PICK s, r, b, e : /\ s = Or(<<>>, <<>>, Presets[x].symbols)
                            /\ r = Or(<<Daily>>, <<>>, Presets[x].resolutions)
                            /\ b = Or(NoDate, NoDate, Presets[x].start)
                            /\ e = Or(NoDate, NoDate, Presets[x].end)
      OBVIOUS
    <2>2. /\ Resolve(Normalize(p)) = PayloadOf(p.key, x, s, r, b, e)
          /\ Resolve(Normalize(plain)) = PayloadOf(NoKey, x, s, r, b, e)
      BY <1>2, <1>4, <2>1, ResolvedIs
    <2>3. DatasetId(Resolve(Normalize(p))) = DatasetId(Resolve(Normalize(plain)))
      BY <2>2 DEF DatasetId, PayloadOf
    <2> QED BY <1>1, <2>3 DEF OfPreset
  <1> QED BY <1>3, <1>4

\* The row of a request tells the truth about it.
LEMMA RowOfRequest ==
    ASSUME NEW q, Dated(q), q.resolutions # <<>>
    PROVE  RowTrue(Row(q)) /\ Row(q).version = DatasetId(q)
  <1>1. PICK row, stored : row = Row(q) /\ stored = StoredSymbols(q)
    OBVIOUS
  <1>2. row = [version |-> DatasetId(q), symbols |-> stored, timeframe |-> Head(q.resolutions),
               resolutions |-> q.resolutions, start |-> q.start, end |-> q.end]
    BY <1>1 DEF Row
  <1>3. /\ IsList(stored) /\ stored # <<>>
        /\ ToSet(stored) = IF ToSet(q.symbols) = {} THEN {UnknownSymbol} ELSE ToSet(q.symbols)
        /\ ToSet(q.symbols) \in {{}, ToSet(stored)}
    <2>1. /\ <<UnknownSymbol>> \in Seq({UnknownSymbol}) /\ <<UnknownSymbol>> # <<>>
          /\ ToSet(<<UnknownSymbol>>) = {UnknownSymbol} /\ ToSet(<<>>) = {}
      BY DEF ToSet
    <2>2. CASE q.symbols = <<>>
      BY <1>1, <2>1, <2>2, SeqIsList DEF StoredSymbols, Or
    <2>3. CASE q.symbols # <<>>
      <3>1. stored = q.symbols /\ IsList(q.symbols)
        BY <1>1, <2>3 DEF StoredSymbols, Or, Dated
      <3>2. ToSet(q.symbols) # {}
        BY <2>3, <3>1, HeadAndTail
      <3> QED BY <2>3, <3>1, <3>2
    <2> QED BY <2>2, <2>3
  <1>4. /\ row.version = DatasetId(q) /\ row.symbols = stored /\ row.timeframe = Head(q.resolutions)
        /\ row.resolutions = q.resolutions /\ row.start = q.start /\ row.end = q.end
    BY <1>2
  <1>5. row.version = [spec |-> <<ToSet(q.symbols), ToSet(row.resolutions), row.start, row.end>>]
    BY <1>4 DEF DatasetId
  <1> QED BY <1>1, <1>2, <1>3, <1>4, <1>5 DEF RowTrue, Dated

\* What a row of the data set of a request has.
LEMMA RowOfDataset ==
    ASSUME NEW row, RowTrue(row), NEW q, IsList(q.symbols), row.version = DatasetId(q)
    PROVE  /\ ToSet(row.symbols) = ToSet(StoredSymbols(q)) /\ ToSet(row.resolutions) = ToSet(q.resolutions)
           /\ row.start = q.start /\ row.end = q.end
  <1>1. PICK named : /\ row.version = [spec |-> <<named, ToSet(row.resolutions), row.start, row.end>>]
                     /\ ToSet(row.symbols) = IF named = {} THEN {UnknownSymbol} ELSE named
    BY DEF RowTrue
  <1>2. <<named, ToSet(row.resolutions), row.start, row.end>>
        = <<ToSet(q.symbols), ToSet(q.resolutions), q.start, q.end>>
    <2>1. PICK x, y : /\ x = <<named, ToSet(row.resolutions), row.start, row.end>>
                      /\ y = <<ToSet(q.symbols), ToSet(q.resolutions), q.start, q.end>>
      OBVIOUS
    <2>2. [spec |-> x] = [spec |-> y]
      BY <1>1, <2>1 DEF DatasetId
    <2>3. [spec |-> x].spec = [spec |-> y].spec
      BY <2>2
    <2> QED BY <2>1, <2>3
  <1>3. /\ named = ToSet(q.symbols) /\ ToSet(row.resolutions) = ToSet(q.resolutions)
        /\ row.start = q.start /\ row.end = q.end
    BY <1>2
  <1>4. ToSet(StoredSymbols(q)) = IF ToSet(q.symbols) = {} THEN {UnknownSymbol} ELSE ToSet(q.symbols)
    <2>1. ToSet(<<UnknownSymbol>>) = {UnknownSymbol} /\ ToSet(<<>>) = {}
      BY DEF ToSet
    <2>2. CASE q.symbols = <<>>
      BY <2>1, <2>2 DEF StoredSymbols, Or
    <2>3. CASE q.symbols # <<>>
      <3>1. ToSet(q.symbols) # {}
        BY <2>3, HeadAndTail
      <3> QED BY <2>3, <3>1 DEF StoredSymbols, Or
    <2> QED BY <2>2, <2>3
  <1> QED BY <1>1, <1>3, <1>4

\* A look-up gives rows of the data set it names, unless its id is a shared key.
LEMMA LookupTrue ==
    ASSUME CatalogTrue, AskedTrue, NEW q, NEW row \in Lookup(DatasetId(q)),
           ~Shared(DatasetId(q), DatasetId(q))
    PROVE  RowTrue(row) /\ row.version = DatasetId(q)
  <1>1. CASE Stored(DatasetId(q))
    <2>1. PICK id : id = DatasetId(q)
      OBVIOUS
    <2>2. row = catalog[id] /\ id \in DOMAIN catalog
      BY <1>1, <2>1 DEF Lookup, Stored
    <2>3. PICK e \in asked : e.id = id /\ e.dataset = row.version
      BY <2>2 DEF CatalogTrue, PlaceTrue
    <2>4. CASE e.id \in ClientKeys
      BY <2>1, <2>2, <2>3, <2>4 DEF Shared, CatalogTrue
    <2>5. CASE e.id = e.dataset
      BY <2>1, <2>2, <2>3, <2>5 DEF CatalogTrue
    <2>6. ~OfBatch(id, row.version)
      BY <2>1, PlacesApart DEF OfBatch, DatasetId
    <2> QED BY <2>3, <2>4, <2>5, <2>6 DEF AskedTrue, Told
  <1>2. CASE ~Stored(DatasetId(q))
    BY <1>2 DEF Lookup, CatalogTrue
  <1> QED BY <1>1, <1>2

\* What has been asked stays asked: a request and a clash are judged as before.
LEMMA GrowthKeeps ==
    ASSUME asked \subseteq asked'
    PROVE  /\ \A w : CallerTrue(w) => CallerTrue(w)'
           /\ \A a : Clashes(a) => Clashes(a)'
  <1>1. ASSUME NEW w, CallerTrue(w) PROVE CallerTrue(w)'
    BY <1>1 DEF CallerTrue
  <1>2. \A id, d : Shared(id, d) => Shared(id, d)'
    BY DEF Shared, ClientKeys
  <1> QED BY <1>1, <1>2 DEF Clashes

\* What the steps of one caller mean for all of them.
CallersTrue ==
    /\ caller = [c \in Callers |-> caller[c]]
    /\ \A c \in Callers : CallerTrue(caller[c])

\* Callers stay true when one of them becomes w and more is asked.
LEMMA CallersKeep ==
    ASSUME CallersTrue, asked \subseteq asked',
           NEW c \in Callers, NEW w, caller' = [caller EXCEPT ![c] = w], CallerTrue(w)'
    PROVE  CallersTrue'
  <1>1. /\ caller' = [x \in Callers |-> IF x = c THEN w ELSE caller[x]]
    BY DEF CallersTrue
  <1>2. \A x \in Callers : caller'[x] = IF x = c THEN w ELSE caller[x]
    BY <1>1
  <1>3. \A x \in Callers : CallerTrue(caller[x])'
    <2>1. ASSUME NEW x \in Callers PROVE CallerTrue(caller[x])'
      <3>1. PICK v : v = caller[x]
        OBVIOUS
      <3>2. CallerTrue(v)'
        BY <3>1, GrowthKeeps DEF CallersTrue
      <3>3. caller'[x] = w \/ caller'[x] = v
        BY <1>2, <3>1
      <3> QED BY <3>2, <3>3
    <2> QED BY <2>1
  <1> QED BY <1>1, <1>2, <1>3 DEF CallersTrue

\* What a step that only moves a caller leaves alone.
StoreTrue == CatalogTrue /\ PartitionsTrue /\ AskedTrue /\ RepliesTrue /\ AnswersTrue

\* What the stores hold stays true where a step leaves them alone.
LEMMA StoreStands ==
    ASSUME StoreTrue, StoreUnchanged
    PROVE  StoreTrue' /\ asked \subseteq asked'
  <1>1. UNCHANGED <<catalog, partitions, replies, asked>>
    BY DEF StoreUnchanged
  <1>2. AskedTrue'
    BY <1>1 DEF StoreTrue, AskedTrue, ClientKeys
  <1>3. CatalogTrue' /\ PartitionsTrue'
    BY <1>1 DEF StoreTrue, CatalogTrue, PartitionsTrue, PlaceTrue
  <1>4. RepliesTrue' /\ AnswersTrue'
    BY <1>1 DEF StoreTrue, RepliesTrue, AnswersTrue, Clashes, Shared
  <1> QED BY <1>1, <1>2, <1>3, <1>4 DEF StoreTrue

\* A single request.
LEMMA PostIngestionKeeps ==
    ASSUME CallersTrue, StoreTrue, NEW c \in Callers, PostIngestion(c)
    PROVE  CallersTrue' /\ StoreTrue'
  <1>1. PICK p \in IngestPayloads :
            /\ caller' = [caller EXCEPT ![c] = [Rest EXCEPT !.at = "look", !.todo = <<p>>]]
            /\ StoreUnchanged
    BY DEF PostIngestion
  <1>2. PICK w : w = [at |-> "look", todo |-> <<p>>]
    OBVIOUS
  <1>3. caller' = [caller EXCEPT ![c] = w]
    <2>1. PICK r, v : r = Rest /\ v = [r EXCEPT !.at = "look", !.todo = <<p>>]
      OBVIOUS
    <2>2. v = w
      <3>1. r = [at |-> "rest", todo |-> <<>>]
        BY <2>1 DEF Rest
      <3>2. v = [r EXCEPT !.at = "look", !.todo = <<p>>]
        BY <2>1
      <3>3. v = [at |-> "look", todo |-> <<p>>]
        BY <3>1, <3>2
      <3> QED BY <1>2, <3>3
    <2> QED BY <1>1, <2>1, <2>2
  <1>4. Posted(p)
    BY RequestConstants DEF RequestConstants, Posted, ClientKeys
  <1>5. CallerTrue(w)'
    <2>1. <<p>> \in Seq({p}) /\ ToSet(<<p>>) = {p}
      BY DEF ToSet
    <2>2. IsList(<<p>>)
      BY <2>1, SeqIsList
    <2>3. w.at = "look" /\ w.todo = <<p>>
      BY <1>2
    <2> QED BY <1>2, <1>4, <2>1, <2>2, <2>3 DEF CallerTrue
  <1> QED BY <1>1, <1>3, <1>5, StoreStands, CallersKeep

\* The items of a batch.
LEMMA PostBatchKeeps ==
    ASSUME CallersTrue, StoreTrue, NEW c \in Callers, PostBatch(c)
    PROVE  CallersTrue' /\ StoreTrue'
  <1>1. PICK presets \in Batches :
            /\ caller' = [caller EXCEPT ![c] = [Rest EXCEPT !.at = "look",
                             !.todo = [i \in DOMAIN presets |-> BatchItem(presets, i)]]]
            /\ StoreUnchanged
    BY DEF PostBatch
  <1>2. PICK items, w : /\ items = [i \in DOMAIN presets |-> BatchItem(presets, i)]
                        /\ w = [at |-> "look", todo |-> items]
    OBVIOUS
  <1>3. caller' = [caller EXCEPT ![c] = w]
    <2>1. PICK r, v : r = Rest /\ v = [r EXCEPT !.at = "look", !.todo = items]
      OBVIOUS
    <2>2. v = w
      <3>1. r = [at |-> "rest", todo |-> <<>>]
        BY <2>1 DEF Rest
      <3>2. v = [r EXCEPT !.at = "look", !.todo = items]
        BY <2>1
      <3>3. v = [at |-> "look", todo |-> items]
        BY <3>1, <3>2
      <3> QED BY <1>2, <3>3
    <2> QED BY <1>1, <1>2, <2>1, <2>2
  <1>4. ASSUME NEW i \in DOMAIN presets PROVE Posted(items[i])
    <2>1. PICK p : p = BatchItem(presets, i)
      OBVIOUS
    <2>2. PICK key : key = [batch |-> <<i, presets[i]>>]
      OBVIOUS
    <2>3. /\ p = [key |-> key, preset |-> presets[i], symbols |-> <<>>, resolutions |-> <<>>,
                  start |-> NoDate, end |-> NoDate]
          /\ items[i] = p /\ p.symbols = <<>> /\ p.resolutions = <<>>
          /\ p.start = NoDate /\ p.end = NoDate
      BY <1>2, <2>1, <2>2 DEF BatchItem, PayloadOf
    <2>4. Dated(p)
      <3>1. <<>> \in Seq({})
        OBVIOUS
      <3>2. IsList(<<>>)
        BY <3>1, SeqIsList
      <3> QED BY <2>3, <3>2 DEF Dated, NoDate
    <2>5. /\ p = PayloadOf(p.key, p.preset, p.symbols, p.resolutions, p.start, p.end)
          /\ p = PayloadOf(key, presets[i], <<>>, <<>>, NoDate, NoDate)
      BY <2>3 DEF PayloadOf
    <2> QED BY <2>2, <2>3, <2>4, <2>5 DEF Posted
  <1>5. IsList(items) /\ \A p \in ToSet(items) : Posted(p)
    <2>1. presets \in Seq(ToSet(presets))
      BY RequestConstants DEF RequestConstants, IsList
    <2>2. DOMAIN presets = 1 .. Len(presets) /\ Len(presets) \in Nat
      BY <2>1
    <2>3. PICK S : S = {items[i] : i \in DOMAIN presets}
      OBVIOUS
    <2>4. items \in [1 .. Len(presets) -> S] /\ DOMAIN items = DOMAIN presets
      BY <1>2, <2>2, <2>3
    <2>5. items \in Seq(S)
      BY <2>2, <2>4, SeqDef
    <2> QED BY <1>4, <2>4, <2>5, SeqIsList DEF ToSet
  <1>6. CallerTrue(w)'
    <2>1. w.at = "look" /\ w.todo = items
      BY <1>2
    <2> QED BY <1>2, <1>5, <2>1 DEF CallerTrue
  <1> QED BY <1>1, <1>3, <1>6, StoreStands, CallersKeep

\* A caller that is done, or was refused, rests.
LEMMA RestKeeps ==
    ASSUME CallersTrue, StoreTrue, NEW c \in Callers, caller' = [caller EXCEPT ![c] = Rest], StoreUnchanged
    PROVE  CallersTrue' /\ StoreTrue'
  <1>1. /\ Rest = [at |-> "rest", todo |-> <<>>]
        /\ Rest.at = "rest" /\ Rest.todo = <<>>
    BY DEF Rest
  <1>2. CallerTrue(Rest)'
    <2>1. <<>> \in Seq({}) /\ ToSet(<<>>) = {}
      BY DEF ToSet
    <2>2. IsList(<<>>)
      BY <2>1, SeqIsList
    <2> QED BY <1>1, <2>1, <2>2 DEF CallerTrue
  <1> QED BY <1>2, StoreStands, CallersKeep

\* What the request at the head of a caller's list becomes.
LEMMA HeadRequest ==
    ASSUME CallersTrue, NEW c \in Callers, caller[c].todo # <<>>,
           Resolvable(Normalize(Head(caller[c].todo))), NEW q, q = ToInsert(c)
    PROVE  /\ Dated(q) /\ q.resolutions # <<>>
           /\ Told(LookupId(q), DatasetId(q))
  <1>1. PICK p : p = Head(caller[c].todo)
    OBVIOUS
  <1>2. p \in ToSet(caller[c].todo)
    BY <1>1, HeadAndTail DEF CallersTrue, CallerTrue
  <1>3. Posted(p)
    BY <1>2 DEF CallersTrue, CallerTrue
  <1>4. q = Resolve(Normalize(p)) /\ Resolvable(Normalize(p))
    BY <1>1 DEF ToInsert
  <1>5. q.key = p.key /\ Dated(q) /\ q.resolutions # <<>>
    BY <1>3, <1>4, ResolvedWell
  <1>6. ASSUME NEW i, NEW x, p = PayloadOf([batch |-> <<i, x>>], x, <<>>, <<>>, NoDate, NoDate)
        PROVE  DatasetId(q) = OfPreset(x) /\ p.key = [batch |-> <<i, x>>]
    <2>1. PICK key : key = [batch |-> <<i, x>>]
      OBVIOUS
    <2>2. p = PayloadOf(key, x, <<>>, <<>>, NoDate, NoDate)
      BY <1>6, <2>1
    <2>3. p.key = key
      BY <2>2 DEF PayloadOf
    <2>4. DatasetId(q) = OfPreset(x)
      BY <1>4, <2>2, <2>3, PresetTold
    <2> QED BY <2>1, <2>3, <2>4
  <1>7. CASE p.key = NoKey
    BY <1>5, <1>7 DEF Told, LookupId
  <1>8. CASE p.key # NoKey
    <2>0. PICK at, d, key : at = LookupId(q) /\ d = DatasetId(q) /\ key = p.key
      OBVIOUS
    <2>1. at = key
      BY <1>5, <1>8, <2>0 DEF LookupId
    <2>2. CASE key \in ClientKeys
      <3>1. Told(at, d)
        BY <2>1, <2>2 DEF Told
      <3> QED BY <1>5, <2>0, <3>1
    <2>3. CASE key \notin ClientKeys
      <3>1. PICK i, x : p = PayloadOf([batch |-> <<i, x>>], x, <<>>, <<>>, NoDate, NoDate)
        BY <1>3, <1>8, <2>0, <2>3 DEF Posted
      <3>2. d = OfPreset(x) /\ at = [batch |-> <<i, x>>]
        BY <1>6, <2>0, <2>1, <3>1
      <3>3. Told(at, d)
        BY <3>2 DEF Told, OfBatch
      <3> QED BY <1>5, <2>0, <3>3
    <2> QED BY <2>2, <2>3
  <1> QED BY <1>5, <1>7, <1>8

\* A caller goes on to its next request.
LEMMA NextIsTrue ==
    ASSUME CallersTrue, asked \subseteq asked', NEW c \in Callers, caller[c].todo # <<>>,
           caller' = [caller EXCEPT ![c] = Next1(c)]
    PROVE  CallersTrue'
  <1>1. PICK w, v : w = caller[c] /\ v = Next1(c)
    OBVIOUS
  <1>2. CallerTrue(w)' /\ CallerTrue(w)
    BY <1>1, GrowthKeeps DEF CallersTrue
  <1>3. v = [at |-> "look", todo |-> Tail(w.todo)]
    <2>1. w = [at |-> w.at, todo |-> w.todo]
      BY <1>2 DEF CallerTrue
    <2>2. v = [w EXCEPT !.at = "look", !.todo = Tail(@)]
      BY <1>1 DEF Next1
    <2> QED BY <2>1, <2>2
  <1>4. v.at = "look" /\ v.todo = Tail(w.todo)
    BY <1>3
  <1>5. IsList(v.todo) /\ ToSet(v.todo) \subseteq ToSet(w.todo)
    BY <1>1, <1>2, <1>4, HeadAndTail DEF CallerTrue
  <1>6. CallerTrue(v)'
    BY <1>2, <1>3, <1>4, <1>5 DEF CallerTrue
  <1> QED BY <1>1, <1>6, CallersKeep

\* Under a primary key stands the data set, or the request clashes.
LEMMA FoundOrClash ==
    ASSUME StoreTrue, NEW q, NEW e, e = [id |-> LookupId(q), dataset |-> DatasetId(q)],
           Told(LookupId(q), DatasetId(q)), NEW id \in Existing(q)
    PROVE  \/ \E x \in DOMAIN catalog : catalog[x].version = DatasetId(q)
           \/ Shared(LookupId(q), DatasetId(q)) \/ Shared(DatasetId(q), DatasetId(q))
  <1>1. id \in {LookupId(q), DatasetId(q)} /\ id \in DOMAIN catalog
    BY DEF Existing, Stored
  <1>2. PICK d : d = catalog[id].version
    OBVIOUS
  <1>3. PICK x \in asked : x.id = id /\ x.dataset = d
    BY <1>1, <1>2 DEF StoreTrue, CatalogTrue, PlaceTrue
  <1>4. CASE d = DatasetId(q)
    BY <1>1, <1>2, <1>4
  <1>5. CASE d # DatasetId(q)
    <2>1. PICK spec, own : d = [spec |-> spec] /\ DatasetId(q) = [spec |-> own]
      BY <1>1, <1>2 DEF StoreTrue, CatalogTrue, RowTrue, DatasetId
    <2>2. CASE id \in ClientKeys
      BY <1>1, <1>3, <1>5, <2>2 DEF Shared
    <2>3. CASE id = d /\ id \notin ClientKeys
      <3>1. id = LookupId(q)
        BY <1>1, <1>5, <2>3
      <3>2. ~OfBatch(id, DatasetId(q))
        BY <2>1, <2>3, PlacesApart DEF OfBatch
      <3> QED BY <1>5, <2>3, <3>1, <3>2 DEF Told
    <2>4. CASE OfBatch(id, d) /\ id \notin ClientKeys
      <3>1. PICK i, y : id = [batch |-> <<i, y>>] /\ d = OfPreset(y)
        BY <2>4 DEF OfBatch
      <3>2. id # DatasetId(q)
        BY <2>1, <3>1, PlacesApart
      <3>3. OfBatch(id, DatasetId(q))
        BY <1>1, <2>4, <3>2 DEF Told
      <3>4. PICK j, z : id = [batch |-> <<j, z>>] /\ DatasetId(q) = OfPreset(z)
        BY <3>3 DEF OfBatch
      <3>5. y = z
        <4>1. [batch |-> <<i, y>>].batch = [batch |-> <<j, z>>].batch
          BY <3>1, <3>4
        <4>2. <<i, y>> = <<j, z>>
          BY <4>1
        <4> QED BY <4>2
      <3> QED BY <1>5, <3>1, <3>4, <3>5
    <2> QED BY <1>3, <2>2, <2>3, <2>4 DEF StoreTrue, AskedTrue, Told
  <1> QED BY <1>4, <1>5

\* A look that finds the data set answers; one that does not goes on to insert.
LEMMA LookUpKeeps ==
    ASSUME CallersTrue, StoreTrue, NEW c \in Callers, LookUp(c)
    PROVE  CallersTrue' /\ StoreTrue'
  <1>1. PICK q : q = ToInsert(c)
    OBVIOUS
  <1>2. PICK e : e = [id |-> LookupId(q), dataset |-> DatasetId(q)]
    OBVIOUS
  <1>3. /\ caller[c].at = "look" /\ caller[c].todo # <<>>
        /\ Resolvable(Normalize(Head(caller[c].todo)))
        /\ asked' = asked \cup {e} /\ UNCHANGED <<catalog, partitions>>
        /\ IF Existing(q) = {}
           THEN caller' = [caller EXCEPT ![c].at = "insert"] /\ UNCHANGED replies
           ELSE /\ replies' = replies \cup {Reply(q, id, "already_exists") : id \in Existing(q)}
                /\ caller' = [caller EXCEPT ![c] = Next1(c)]
    BY <1>1, <1>2 DEF LookUp
  <1>4. /\ Dated(q) /\ q.resolutions # <<>> /\ e.id = LookupId(q) /\ e.dataset = DatasetId(q)
        /\ Told(LookupId(q), DatasetId(q))
    BY <1>1, <1>2, <1>3, HeadRequest
  <1>5. asked \subseteq asked'
    BY <1>3
  <1>6. AskedTrue' /\ CatalogTrue' /\ PartitionsTrue'
    <2>1. AskedTrue'
      BY <1>3, <1>4 DEF StoreTrue, AskedTrue, Told, ClientKeys
    <2>2. ASSUME NEW id, PlaceTrue(id) PROVE PlaceTrue(id)'
      BY <1>3, <2>2 DEF PlaceTrue
    <2>3. CatalogTrue'
      BY <1>3, <2>2 DEF StoreTrue, CatalogTrue
    <2> QED BY <1>3, <2>1, <2>3 DEF StoreTrue, PartitionsTrue
  <1>7. ASSUME NEW a \in replies
        PROVE  Clashes(a)' \/ \E id \in DOMAIN catalog : catalog[id].version = a.dataset
    BY <1>5, GrowthKeeps DEF StoreTrue, AnswersTrue
  <1>8. CASE Existing(q) = {}
    <2>1. PICK w, v : w = caller[c] /\ v = [caller[c] EXCEPT !.at = "insert"]
      OBVIOUS
    <2>2. caller' = [caller EXCEPT ![c] = v] /\ UNCHANGED replies
      BY <1>3, <1>8, <2>1
    <2>3. CallerTrue(w) /\ CallerTrue(w)'
      BY <1>5, <2>1, GrowthKeeps DEF CallersTrue
    <2>4. v = [at |-> "insert", todo |-> w.todo]
      <3>1. w = [at |-> w.at, todo |-> w.todo]
        BY <2>3 DEF CallerTrue
      <3>2. v = [w EXCEPT !.at = "insert"]
        BY <2>1
      <3> QED BY <3>1, <3>2
    <2>5. v.at = "insert" /\ v.todo = w.todo
      BY <2>4
    <2>6. CallerTrue(v)'
      <3>1. e = [id |-> LookupId(q), dataset |-> DatasetId(q)] /\ q = Resolve(Normalize(Head(v.todo)))
            /\ e \in asked'
        BY <1>1, <1>2, <1>3, <2>1, <2>5 DEF ToInsert
      <3>2. v.todo # <<>> /\ Resolvable(Normalize(Head(v.todo)))
        BY <1>3, <2>1, <2>5
      <3> QED BY <2>3, <2>4, <2>5, <3>1, <3>2 DEF CallerTrue
    <2>7. RepliesTrue' /\ AnswersTrue'
      BY <1>3, <1>7, <2>2 DEF StoreTrue, RepliesTrue, AnswersTrue
    <2> QED BY <1>5, <1>6, <2>2, <2>6, <2>7, CallersKeep DEF StoreTrue
  <1>9. CASE Existing(q) # {}
    <2>1. /\ replies' = replies \cup {Reply(q, id, "already_exists") : id \in Existing(q)}
          /\ caller' = [caller EXCEPT ![c] = Next1(c)]
      BY <1>3, <1>9
    <2>2. \A id : /\ Reply(q, id, "already_exists").payload = q
                  /\ Reply(q, id, "already_exists").dataset = DatasetId(q)
      BY DEF Reply
    <2>3. ASSUME NEW a, a.payload = q, a.dataset = DatasetId(q)
          PROVE  Clashes(a)' \/ \E id \in DOMAIN catalog : catalog[id].version = a.dataset
      BY <1>2, <1>4, <1>5, <1>9, <2>3, FoundOrClash, GrowthKeeps DEF Clashes
    <2>4. RepliesTrue'
      BY <1>4, <2>1, <2>2 DEF StoreTrue, RepliesTrue, Dated
    <2>5. AnswersTrue'
      <3>1. ASSUME NEW a \in replies'
            PROVE  Clashes(a)' \/ \E id \in DOMAIN catalog : catalog[id].version = a.dataset
        <4>1. CASE a \in replies
          BY <1>7, <4>1
        <4>2. CASE a \notin replies
          <5>1. a.payload = q /\ a.dataset = DatasetId(q)
            BY <2>1, <2>2, <3>1, <4>2
          <5> QED BY <2>3, <5>1
        <4> QED BY <4>1, <4>2
      <3> QED BY <1>3, <3>1 DEF AnswersTrue
    <2>6. CallersTrue'
      BY <1>3, <1>5, <2>1, NextIsTrue
    <2> QED BY <1>6, <2>4, <2>5, <2>6 DEF StoreTrue
  <1> QED BY <1>8, <1>9

\* The row and its partitions come in one commit.
LEMMA InsertKeeps ==
    ASSUME CallersTrue, StoreTrue, NEW c \in Callers, Insert(c)
    PROVE  CallersTrue' /\ StoreTrue'
  <1>1. PICK q, id, new : q = ToInsert(c) /\ id = LookupId(q) /\ new = Row(q)
    OBVIOUS
  <1>2. /\ id \notin DOMAIN catalog
        /\ catalog' = [x \in DOMAIN catalog \cup {id} |-> IF x = id THEN new ELSE catalog[x]]
        /\ partitions' = partitions \cup PartitionsOf(id, q)
        /\ replies' = replies \cup {Reply(q, id, "accepted")}
        /\ caller' = [caller EXCEPT ![c] = Next1(c)] /\ UNCHANGED asked
    BY <1>1 DEF Insert, Put, Stored
  <1>3. caller[c].at = "insert"
    BY DEF Insert
  <1>4. /\ caller[c].todo # <<>> /\ Resolvable(Normalize(Head(caller[c].todo)))
        /\ [id |-> LookupId(q), dataset |-> DatasetId(q)] \in asked
    BY <1>1, <1>3 DEF CallersTrue, CallerTrue, ToInsert
  <1>5. Dated(q) /\ q.resolutions # <<>>
    BY <1>1, <1>4, HeadRequest
  <1>6. RowTrue(new) /\ new.version = DatasetId(q)
    BY <1>1, <1>5, RowOfRequest
  <1>7. /\ DOMAIN catalog' = DOMAIN catalog \cup {id} /\ catalog'[id] = new
        /\ \A x \in DOMAIN catalog : catalog'[x] = catalog[x]
    BY <1>2
  <1>8. asked \subseteq asked'
    BY <1>2
  <1>9. CatalogTrue' /\ AskedTrue'
    <2>1. PlaceTrue(id)'
      <3>1. PICK e \in asked : e = [id |-> id, dataset |-> DatasetId(q)]
        BY <1>1, <1>4
      <3>2. e.id = id /\ e.dataset = DatasetId(q)
        BY <3>1
      <3> QED BY <1>2, <1>6, <1>7, <3>2 DEF PlaceTrue
    <2>2. ASSUME NEW x \in DOMAIN catalog PROVE RowTrue(catalog[x])' /\ PlaceTrue(x)'
      <3>1. RowTrue(catalog[x]) /\ PlaceTrue(x) /\ catalog'[x] = catalog[x]
        BY <1>7 DEF StoreTrue, CatalogTrue
      <3> QED BY <1>2, <3>1 DEF PlaceTrue
    <2>3. CatalogTrue'
      BY <1>6, <1>7, <2>1, <2>2 DEF CatalogTrue
    <2> QED BY <1>2, <2>3 DEF StoreTrue, AskedTrue, Told, ClientKeys
  <1>10. PartitionsTrue'
    <2>1. PartitionsOf(id, q) = {PartitionRow(id, new, s) : s \in ToSet(new.symbols)}
      <3>1. /\ new.symbols = StoredSymbols(q) /\ new.timeframe = Head(q.resolutions)
            /\ new.start = q.start /\ new.end = q.end
        BY <1>1 DEF Row
      <3> QED BY <3>1 DEF PartitionsOf, PartitionRow
    <2>2. \A y : y \in partitions <=>
                   \E x \in DOMAIN catalog : \E s \in ToSet(catalog[x].symbols) : y = PartitionRow(x, catalog[x], s)
      BY DEF StoreTrue, PartitionsTrue
    <2>3. \A y : y \in PartitionsOf(id, q) <=> \E s \in ToSet(new.symbols) : y = PartitionRow(id, new, s)
      BY <2>1
    <2>4. ASSUME NEW y
          PROVE  y \in partitions' <=> \E x \in DOMAIN catalog' : \E s \in ToSet(catalog'[x].symbols) :
                                         y = PartitionRow(x, catalog'[x], s)
      <3>1. y \in partitions' <=> y \in partitions \/ y \in PartitionsOf(id, q)
        BY <1>2
      <3>2. CASE y \in partitions
        <4>1. PICK x \in DOMAIN catalog : \E s \in ToSet(catalog[x].symbols) : y = PartitionRow(x, catalog[x], s)
          BY <2>2, <3>2
        <4>2. x \in DOMAIN catalog' /\ catalog'[x] = catalog[x]
          BY <1>7, <4>1
        <4> QED BY <3>1, <3>2, <4>1, <4>2
      <3>3. CASE y \in PartitionsOf(id, q)
        BY <1>7, <2>3, <3>1, <3>3
      <3>4. ASSUME NEW x \in DOMAIN catalog', NEW s \in ToSet(catalog'[x].symbols),
                   y = PartitionRow(x, catalog'[x], s)
            PROVE  y \in partitions'
        <4>1. CASE x = id
          BY <1>7, <2>3, <3>1, <3>4, <4>1
        <4>2. CASE x # id
          <5>1. x \in DOMAIN catalog /\ catalog'[x] = catalog[x]
            BY <1>7, <4>2
          <5> QED BY <2>2, <3>1, <3>4, <5>1
        <4> QED BY <4>1, <4>2
      <3> QED BY <3>1, <3>2, <3>3, <3>4
    <2>5. partitions' = UNION {{PartitionRow(x, catalog'[x], s) : s \in ToSet(catalog'[x].symbols)} :
                                 x \in DOMAIN catalog'}
      BY <2>4
    <2> QED BY <2>5 DEF PartitionsTrue
  <1>11. RepliesTrue' /\ AnswersTrue'
    <2>1. PICK new1 : new1 = Reply(q, id, "accepted")
      OBVIOUS
    <2>2. new1.payload = q /\ new1.dataset = DatasetId(q) /\ replies' = replies \cup {new1}
      BY <1>2, <2>1 DEF Reply
    <2>3. RepliesTrue'
      BY <1>5, <2>2 DEF StoreTrue, RepliesTrue, Dated
    <2>4. \E x \in DOMAIN catalog' : catalog'[x].version = new1.dataset
      BY <1>6, <1>7, <2>2
    <2>5. ASSUME NEW a \in replies
          PROVE  Clashes(a)' \/ \E x \in DOMAIN catalog' : catalog'[x].version = a.dataset
      BY <1>7, <1>8, GrowthKeeps DEF StoreTrue, AnswersTrue
    <2> QED BY <2>2, <2>3, <2>4, <2>5 DEF AnswersTrue
  <1>12. CallersTrue'
    BY <1>2, <1>4, <1>8, NextIsTrue
  <1> QED BY <1>9, <1>10, <1>11, <1>12 DEF StoreTrue

\* Every step keeps the two parts of the invariant.
LEMMA RequestsInvStep ==
    ASSUME CallersTrue, StoreTrue, [RequestsNext]_requestVars
    PROVE  CallersTrue' /\ StoreTrue'
  <1>1. CASE UNCHANGED requestVars
    <2>1. UNCHANGED <<catalog, partitions, caller, replies, asked>>
      BY <1>1 DEF requestVars
    <2>2. StoreTrue' /\ asked \subseteq asked'
      BY <2>1, StoreStands DEF StoreUnchanged
    <2>3. CallersTrue'
      BY <2>1, <2>2, GrowthKeeps DEF CallersTrue
    <2> QED BY <2>2, <2>3
  <1>2. ASSUME NEW c \in Callers, Refuse(c) \/ InsertConflict(c) \/ Finish(c)
        PROVE  CallersTrue' /\ StoreTrue'
    <2>1. caller' = [caller EXCEPT ![c] = Rest] /\ StoreUnchanged
      BY <1>2 DEF Refuse, InsertConflict, Finish
    <2> QED BY <2>1, RestKeeps
  <1> QED BY <1>1, <1>2, PostIngestionKeeps, PostBatchKeeps, LookUpKeeps, InsertKeeps
      DEF RequestsNext

\* The window of a stored data set is covered in the first resolution of its row.
LEMMA StoredIsCovered ==
    ASSUME CatalogTrue, PartitionsTrue, NEW q, IsList(q.symbols), NEW id \in DOMAIN catalog,
           catalog[id].version = DatasetId(q)
    PROVE  \E r \in ToSet(q.resolutions) : \A s \in ToSet(StoredSymbols(q)) :
             Available(s, r, q.start, q.end)
  <1>1. PICK row, r : row = catalog[id] /\ r = row.timeframe
    OBVIOUS
  <1>2. RowTrue(row) /\ row.version = DatasetId(q)
    BY <1>1 DEF CatalogTrue
  <1>3. /\ ToSet(row.symbols) = ToSet(StoredSymbols(q)) /\ ToSet(row.resolutions) = ToSet(q.resolutions)
        /\ row.start = q.start /\ row.end = q.end
    BY <1>2, RowOfDataset
  <1>4. r \in ToSet(q.resolutions)
    <2>1. row.timeframe = Head(row.resolutions) /\ IsList(row.resolutions) /\ row.resolutions # <<>>
      BY <1>2 DEF RowTrue, Dated
    <2> QED BY <1>1, <1>3, <2>1, HeadAndTail
  <1>5. ASSUME NEW s \in ToSet(StoredSymbols(q)) PROVE Available(s, r, q.start, q.end)
    <2>1. PICK x : x = PartitionRow(id, row, s)
      OBVIOUS
    <2>2. x \in partitions
      BY <1>1, <1>3, <2>1 DEF PartitionsTrue
    <2>3. x.symbol = s /\ x.timeframe = r /\ x.start = q.start /\ x.end = q.end
      BY <1>1, <1>3, <2>1 DEF PartitionRow
    <2>4. q.start <= q.start /\ q.end >= q.end
      BY <1>2, <1>3 DEF RowTrue, Dated
    <2> QED BY <2>2, <2>3, <2>4 DEF Available, Chunks
  <1> QED BY <1>4, <1>5

\* What the invariant says of the property.
LEMMA StoreKeepsRequests ==
    ASSUME CallersTrue, StoreTrue
    PROVE  RequestsKept
  <1>1. RequestsTypeOK
    BY DEF CallersTrue, CallerTrue, StoreTrue, CatalogTrue, PartitionsTrue, RowTrue, RequestsTypeOK
  <1>2. ASSUME NEW a \in replies, ~Clashes(a)
        PROVE  /\ Lookup(a.dataset) # {}
               /\ \A row \in Lookup(a.dataset) : ToSet(row.symbols) = ToSet(StoredSymbols(a.payload))
               /\ \E r \in ToSet(a.payload.resolutions) : \A s \in ToSet(StoredSymbols(a.payload)) :
                    Available(s, r, a.payload.start, a.payload.end)
    <2>1. PICK id \in DOMAIN catalog : catalog[id].version = a.dataset
      BY <1>2 DEF StoreTrue, AnswersTrue
    <2>2. a.dataset = DatasetId(a.payload) /\ IsList(a.payload.symbols)
      BY DEF StoreTrue, RepliesTrue
    <2>3. Lookup(a.dataset) # {}
      BY <2>1 DEF Lookup
    <2>4. ASSUME NEW row \in Lookup(a.dataset)
          PROVE  ToSet(row.symbols) = ToSet(StoredSymbols(a.payload))
      <3>1. RowTrue(row) /\ row.version = DatasetId(a.payload)
        BY <1>2, <2>2, LookupTrue DEF StoreTrue, Clashes
      <3> QED BY <2>2, <3>1, RowOfDataset
    <2>5. \E r \in ToSet(a.payload.resolutions) : \A s \in ToSet(StoredSymbols(a.payload)) :
            Available(s, r, a.payload.start, a.payload.end)
      BY <2>1, <2>2, StoredIsCovered DEF StoreTrue
    <2> QED BY <2>3, <2>4, <2>5
  <1> QED BY <1>1, <1>2 DEF RequestsKept, AnsweredIsFound, AnsweredIsCovered

\* Whatever the callers post, in any interleaving of looks and inserts: an answered data
\* set is found with the symbols asked for and its window is covered, unless a client's
\* key stood for two data sets, and partitions come with their row.
THEOREM RequestsAlwaysKept == RequestsSpec => []RequestsKept
  <1>1. RequestsInit => CallersTrue /\ StoreTrue
    <2>1. SUFFICES ASSUME RequestsInit PROVE CallersTrue /\ StoreTrue
      OBVIOUS
    <2>2. /\ DOMAIN catalog = {} /\ partitions = {} /\ caller = [c \in Callers |-> Rest]
          /\ replies = {} /\ asked = {}
      BY <2>1 DEF RequestsInit
    <2>3. StoreTrue
      <3>1. CatalogTrue /\ PartitionsTrue
        BY <2>2 DEF CatalogTrue, PartitionsTrue
      <3>2. AskedTrue /\ RepliesTrue /\ AnswersTrue
        BY <2>2 DEF AskedTrue, RepliesTrue, AnswersTrue
      <3> QED BY <3>1, <3>2 DEF StoreTrue
    <2>4. CallersTrue
      <3>1. Rest = [at |-> "rest", todo |-> <<>>] /\ Rest.at = "rest" /\ Rest.todo = <<>>
        BY DEF Rest
      <3>2. <<>> \in Seq({}) /\ ToSet(<<>>) = {}
        BY DEF ToSet
      <3>3. IsList(<<>>)
        BY <3>2, SeqIsList
      <3>4. CallerTrue(Rest)
        BY <3>1, <3>2, <3>3 DEF CallerTrue
      <3> QED BY <2>2, <3>4 DEF CallersTrue
    <2> QED BY <2>3, <2>4
  <1>2. CallersTrue /\ StoreTrue /\ [RequestsNext]_requestVars => CallersTrue' /\ StoreTrue'
    BY RequestsInvStep
  <1>3. CallersTrue /\ StoreTrue => RequestsKept
    BY StoreKeepsRequests
  <1> QED BY <1>1, <1>2, <1>3, PTL DEF RequestsSpec

-----------------------------------------------------------------------------
(* The bar cache. *)

JobStates == [phase : Phases, start : Times, end : Times, cursor : Times, attempt : 0..FetchRetries,
              bars : SUBSET BarRows, seen : SUBSET [job : BarJobs, day : Nat], todo : SUBSET Nat,
              mixed : BOOLEAN]

\* A chunk of a request starts a number of chunk lengths after the request.
ChunkOf(w, c) == w.start <= c /\ \E n \in 0 .. c : c = w.start + n * ChunkLength

\* A bar came with a chunk it lies in.
BarTrue(w, b) ==
    /\ ChunkOf(w, b.chunk) /\ b.chunk < w.end /\ b.chunk < w.cursor
    /\ b.chunk <= b.at /\ b.at <= b.chunk + ChunkLength /\ b.at <= w.end
    /\ b.chunk + ChunkLength <= w.cursor \/ w.cursor = w.end

\* Chunks do not overlap but at their ends.
Spaced(w) == \A x, y \in w.bars : x.chunk < y.chunk => x.chunk + ChunkLength <= y.chunk

Going == {"fetching", "fetched", "writing", "publishing", "written", "done"}

\* What a fetch has, as far as it got.
FetchTrue(w) ==
    /\ w.start <= w.cursor
    /\ w.phase = "idle" => w.bars = {} /\ w.cursor = w.end
    /\ w.phase = "fetching" => w.cursor < w.end /\ ChunkOf(w, w.cursor)
    /\ w.phase \in Going \ {"fetching"} => w.end <= w.cursor
    /\ \A b \in w.bars : BarTrue(w, b)
    /\ Spaced(w)
    /\ w.phase \in Going =>
         \A t \in Traded : w.start <= t /\ t < w.cursor /\ t < w.end => \E b \in w.bars : b.at = t

\* What write_bars has left in the files, as far as it got.
PartFor(j, w, d) == [job |-> j, day |-> d, bars |-> {b \in w.bars : Day(b.at) = d}]

PartsTrue(j, w) ==
    /\ \A p \in parts : p.job = j =>
         /\ p = PartFor(j, w, p.day) /\ w.end <= w.cursor
         /\ w.phase \in {"writing", "publishing", "written", "done", "dead"}
    /\ w.phase = "writing" =>
         /\ w.bars # {} /\ w.todo \subseteq DaysOf(w.bars)
         /\ \A d \in DaysOf(w.bars) \ w.todo : PartFor(j, w, d) \in parts
    /\ w.phase = "publishing" => w.todo = {} /\ w.bars # {}
    /\ w.phase \in {"publishing", "written", "done"} =>
         \A d \in DaysOf(w.bars) : PartFor(j, w, d) \in parts

\* What a job has told the catalog.
RefsTrue(j, w) ==
    /\ \A r \in refs : r.job = j => w.phase \in {"written", "done", "dead"} /\ w.end <= w.cursor
    /\ w.phase = "written" => \A d \in DaysOf(w.bars) \ w.todo : [job |-> j, day |-> d] \in refs
    /\ w.phase = "done" => /\ w.start < w.end
                           /\ \A d \in DaysOf(w.bars) : [job |-> j, day |-> d] \in refs
                           /\ \E c \in coverage : c.start <= w.start /\ c.end >= w.end

JobTrue(j, w) == w \in JobStates /\ FetchTrue(w) /\ PartsTrue(j, w) /\ RefsTrue(j, w)
JobsTrue == jobs = [j \in BarJobs |-> jobs[j]] /\ \A j \in BarJobs : JobTrue(j, jobs[j])

Files == {[job |-> p.job, day |-> p.day] : p \in parts}

\* Who reads the manifest while nobody else is between a read and a write of it has all of it.
ManifestTrue ==
    /\ manifest \subseteq Files /\ \A k \in BarJobs : jobs[k].seen \subseteq Files
    /\ ManifestComplete
    /\ \A k \in Writing : \A j \in Returned \ overlapped : Listed(j) \subseteq jobs[k].seen
    /\ \A j, k \in Writing : j # k => j \in overlapped

\* A torn manifest has a cause.
TornTrue ==
    /\ \A j \in BarJobs : jobs[j].mixed => overlapped # {}
    /\ torn => \/ overlapped # {}
               \/ \E j \in BarJobs : jobs[j].phase = "publishing"
               \/ \E j \in BarJobs : jobs[j].phase = "dead" /\ jobs[j].todo = {} /\ parts # {}

StoresTrue ==
    /\ parts \subseteq Parts /\ torn \in BOOLEAN /\ missing \subseteq MissingRanges /\ refs \subseteq DatasetRefs
    /\ overlapped \subseteq BarJobs
    /\ coverage = {} \/ \E c \in Ranges : coverage = {c}

\* The inductive invariant.
BarInv == JobsTrue /\ ManifestTrue /\ TornTrue /\ StoresTrue

\* A day is a number, and later times are on no earlier day.
LEMMA DayIsNat ==
    ASSUME NEW t \in Nat
    PROVE  Day(t) \in Nat
  BY BarConstants DEF BarConstants, Day

\* A later time is on the same day or on a later one.
LEMMA DaysGrow ==
    ASSUME NEW s \in Nat, NEW t \in Nat, s <= t
    PROVE  Day(s) <= Day(t)
  <1>1. DayLength \in Nat \ {0}
    BY BarConstants DEF BarConstants
  <1> QED BY <1>1 DEF Day

\* What is known of the numbers of a job.
LEMMA JobNumbers ==
    ASSUME NEW w \in JobStates
    PROVE  /\ w.start \in Nat /\ w.end \in Nat /\ w.cursor \in Nat
           /\ w.start <= Horizon /\ w.end <= Horizon /\ w.cursor <= Horizon /\ Horizon \in Nat
           /\ ChunkLength \in Nat \ {0}
           /\ \A b \in w.bars : b.chunk \in Nat /\ b.at \in Nat /\ b.at \in Traded
  <1>1. /\ Horizon \in Nat /\ Traded \subseteq 0 .. Horizon /\ ChunkLength \in Nat \ {0}
    BY BarConstants DEF BarConstants, Times
  <1>2. w.start \in 0 .. Horizon /\ w.end \in 0 .. Horizon /\ w.cursor \in 0 .. Horizon
    BY DEF JobStates, Times
  <1>3. ASSUME NEW b \in w.bars PROVE b.chunk \in 0 .. Horizon /\ b.at \in Traded
    <2>1. b \in BarRows
      BY DEF JobStates
    <2> QED BY <2>1 DEF BarRows, Times
  <1>4. \A b \in w.bars : b.chunk \in Nat /\ b.at \in Nat /\ b.at \in Traded
    <2>1. \A x \in 0 .. Horizon : x \in Nat
      BY <1>1
    <2> QED BY <1>1, <1>3, <2>1
  <1> QED BY <1>1, <1>2, <1>4

SameFetch(v, w) == v.start = w.start /\ v.end = w.end /\ v.cursor = w.cursor /\ v.bars = w.bars

\* Once the fetch is over, no later phase changes what it has.
LEMMA FetchStands ==
    ASSUME NEW v, NEW w, FetchTrue(w), SameFetch(v, w),
           v.phase = w.phase \/ (v.phase \notin {"idle", "fetching"}
                                  /\ (v.phase \in Going => w.phase \in Going \ {"fetching"}))
    PROVE  FetchTrue(v)
  <1>1. \A b : BarTrue(v, b) <=> BarTrue(w, b)
    BY DEF BarTrue, ChunkOf, SameFetch
  <1>2. Spaced(v)
    BY DEF FetchTrue, Spaced, SameFetch
  <1>3. ChunkOf(v, v.cursor) <=> ChunkOf(w, w.cursor)
    BY DEF ChunkOf, SameFetch
  <1> QED BY <1>1, <1>2, <1>3 DEF FetchTrue, SameFetch, Going

\* Files and references of others, and coverage, stay or grow.
Grown(j) ==
    /\ parts \subseteq parts' /\ \A p \in parts' : p \in parts \/ p.job = j
    /\ refs \subseteq refs' /\ \A r \in refs' : r \in refs \/ r.job = j
    /\ \A c \in coverage : \E x \in coverage' : x.start <= c.start /\ x.end >= c.end

SameJob(v, w) == SameFetch(v, w) /\ v.phase = w.phase /\ v.todo = w.todo /\ v.seen = w.seen

\* So a job that does not move stays as true as it was.
LEMMA OthersStand ==
    ASSUME NEW j, Grown(j), NEW k, k # j, NEW v \in JobStates, NEW w, SameJob(v, w), JobTrue(k, w),
           StoresTrue, StoresTrue'
    PROVE  JobTrue(k, v)'
  <1>1. FetchTrue(v)
    BY FetchStands DEF JobTrue, SameJob
  <1>2. \A d : PartFor(k, v, d) = PartFor(k, w, d)
    BY DEF PartFor, SameJob, SameFetch
  <1>3. PartsTrue(k, v)'
    <2>1. PartsTrue(k, w)'
      <3>1. \A p \in parts' : p.job = k => p \in parts
        BY DEF Grown
      <3>2. parts \subseteq parts'
        BY DEF Grown
      <3> QED BY <3>1, <3>2 DEF JobTrue, PartsTrue
    <2> QED BY <1>2, <2>1 DEF PartsTrue, SameJob, SameFetch
  <1>4. RefsTrue(k, v)'
    <2>1. \A r \in refs' : r.job = k => r \in refs
      BY DEF Grown
    <2>2. refs \subseteq refs'
      BY DEF Grown
    <2>3. ASSUME \E c \in coverage : c.start <= w.start /\ c.end >= w.end
          PROVE  \E c \in coverage' : c.start <= v.start /\ c.end >= v.end
      <3>1. PICK c \in coverage : c.start <= w.start /\ c.end >= w.end
        BY <2>3
      <3>2. PICK x \in coverage' : x.start <= c.start /\ x.end >= c.end
        BY DEF Grown
      <3>3. /\ c.start \in Nat /\ c.end \in Nat /\ x.start \in Nat /\ x.end \in Nat
        BY BarConstants DEF StoresTrue, Ranges, Times, BarConstants
      <3>4. v.start = w.start /\ v.end = w.end /\ v.start \in Nat /\ v.end \in Nat
        BY JobNumbers DEF SameJob, SameFetch
      <3> QED BY <3>1, <3>2, <3>3, <3>4
    <2> QED BY <2>1, <2>2, <2>3 DEF JobTrue, RefsTrue, SameJob, SameFetch
  <1> QED BY <1>1, <1>3, <1>4 DEF JobTrue

\* One job moves.
LEMMA JobsMove ==
    ASSUME JobsTrue, StoresTrue, StoresTrue', NEW j \in BarJobs, NEW v, Grown(j),
           jobs' = [jobs EXCEPT ![j] = v], JobTrue(j, v)'
    PROVE  JobsTrue'
  <1>1. jobs' = [x \in BarJobs |-> IF x = j THEN v ELSE jobs[x]]
    BY DEF JobsTrue
  <1>2. \A x \in BarJobs : jobs'[x] = IF x = j THEN v ELSE jobs[x]
    BY <1>1
  <1>3. ASSUME NEW x \in BarJobs PROVE JobTrue(x, jobs[x])'
    <2>1. CASE x = j
      BY <1>2, <2>1
    <2>2. CASE x # j
      <3>1. PICK w : w = jobs[x] /\ JobTrue(x, w)
        BY DEF JobsTrue
      <3>2. w \in JobStates /\ SameJob(w, w)
        BY <3>1 DEF JobTrue, SameJob, SameFetch
      <3>3. JobTrue(x, w)'
        BY <2>2, <3>1, <3>2, OthersStand
      <3> QED BY <1>2, <2>2, <3>1, <3>3
    <2> QED BY <2>1, <2>2
  <1> QED BY <1>1, <1>2, <1>3 DEF JobsTrue

\* What the manifest tells stays while nobody comes to write it or is done with it.
LEMMA ManifestStands ==
    ASSUME ManifestTrue, manifest' = manifest, parts \subseteq parts', overlapped \subseteq overlapped',
           \A k \in BarJobs : jobs'[k].seen = jobs[k].seen \/ jobs'[k].seen = {},
           \A k \in Writing' : k \in Writing /\ jobs'[k].seen = jobs[k].seen,
           \A k \in Returned' : (k \in Returned /\ jobs'[k].bars = jobs[k].bars) \/ jobs'[k].bars = {}
    PROVE  ManifestTrue'
  <1>1. Files \subseteq Files'
    BY DEF Files
  <1>2. manifest' \subseteq Files' /\ \A k \in BarJobs : jobs'[k].seen \subseteq Files'
    BY <1>1 DEF ManifestTrue
  <1>3. ASSUME NEW k \in Returned'
        PROVE  Listed(k)' = {} \/ (k \in Returned /\ Listed(k)' = Listed(k))
    BY <1>3 DEF Listed, DaysOf
  <1>4. ManifestComplete'
    BY <1>3 DEF ManifestTrue, ManifestComplete
  <1>5. ASSUME NEW k \in Writing', NEW j \in Returned' \ overlapped'
        PROVE  Listed(j)' \subseteq jobs'[k].seen
    BY <1>3 DEF ManifestTrue
  <1>6. \A j, k \in Writing' : j # k => j \in overlapped'
    BY DEF ManifestTrue
  <1> QED BY <1>2, <1>4, <1>5, <1>6 DEF ManifestTrue

\* What tore the manifest stays.
LEMMA TornStands ==
    ASSUME TornTrue, torn' = torn, parts \subseteq parts', overlapped \subseteq overlapped',
           \A k \in BarJobs : jobs'[k].mixed => jobs[k].mixed,
           \A k \in BarJobs : jobs[k].phase \in {"publishing", "dead"}
                                => jobs'[k].phase = jobs[k].phase /\ jobs'[k].todo = jobs[k].todo
    PROVE  TornTrue'
  BY DEF TornTrue

\* One job has become v.
Moved(j, v) ==
    /\ jobs' = [jobs EXCEPT ![j] = v]
    /\ \A k \in BarJobs : jobs'[k] = IF k = j THEN v ELSE jobs[k]

\* One job becoming v, read job by job.
LEMMA MoveIs ==
    ASSUME JobsTrue, NEW j \in BarJobs, NEW v, jobs' = [jobs EXCEPT ![j] = v]
    PROVE  Moved(j, v)
  <1>1. jobs' = [x \in BarJobs |-> IF x = j THEN v ELSE jobs[x]]
    BY DEF JobsTrue
  <1> QED BY <1>1 DEF Moved

\* A job that only goes to another phase.
LEMMA Goes ==
    ASSUME JobsTrue, NEW j \in BarJobs, NEW reached \in Phases, Goto(j, reached), NEW w, w = jobs[j]
    PROVE  \E v \in JobStates : /\ Moved(j, v) /\ v.phase = reached /\ SameFetch(v, w)
                                /\ v.todo = w.todo /\ v.seen = w.seen /\ v.mixed = w.mixed
  <1>1. w \in JobStates
    BY DEF JobsTrue, JobTrue
  <1>2. PICK v : v = [w EXCEPT !.phase = reached]
    OBVIOUS
  <1>3. v \in JobStates /\ v.phase = reached /\ SameFetch(v, w)
        /\ v.todo = w.todo /\ v.seen = w.seen /\ v.mixed = w.mixed
    BY <1>1, <1>2 DEF JobStates, SameFetch
  <1>4. jobs' = [jobs EXCEPT ![j] = v]
    BY <1>2 DEF Goto
  <1> QED BY <1>3, <1>4, MoveIs

\* The two shared conjuncts, for a job that moves.
LEMMA ManifestMoves ==
    ASSUME ManifestTrue, manifest' = manifest, parts \subseteq parts', overlapped' = overlapped,
           NEW j \in BarJobs, NEW v, NEW w, w = jobs[j], Moved(j, v),
           v.seen = w.seen \/ v.seen = {},
           v.phase \in {"writing", "publishing"} => w.phase \in {"writing", "publishing"} /\ v.seen = w.seen,
           v.phase \in {"written", "done"} => (w.phase \in {"written", "done"} /\ v.bars = w.bars) \/ v.bars = {}
    PROVE  ManifestTrue'
  <1>1. \A k \in BarJobs : jobs'[k] = IF k = j THEN v ELSE jobs[k]
    BY DEF Moved
  <1>2. \A k \in BarJobs : jobs'[k].seen = jobs[k].seen \/ jobs'[k].seen = {}
    BY <1>1
  <1>3. \A k \in Writing' : k \in Writing /\ jobs'[k].seen = jobs[k].seen
    BY <1>1 DEF Writing
  <1>4. \A k \in Returned' : (k \in Returned /\ jobs'[k].bars = jobs[k].bars) \/ jobs'[k].bars = {}
    BY <1>1 DEF Returned
  <1> QED BY <1>2, <1>3, <1>4, ManifestStands

\* What tore the manifest is still known when a job moves.
LEMMA TornMoves ==
    ASSUME TornTrue, torn' = torn, parts \subseteq parts', overlapped \subseteq overlapped',
           NEW j \in BarJobs, NEW v, NEW w, w = jobs[j], Moved(j, v), v.mixed => w.mixed,
           w.phase \in {"publishing", "dead"} => v.phase = w.phase /\ v.todo = w.todo
    PROVE  TornTrue'
  <1>1. \A k \in BarJobs : jobs'[k] = IF k = j THEN v ELSE jobs[k]
    BY DEF Moved
  <1>2. \A k \in BarJobs : jobs'[k].mixed => jobs[k].mixed
    BY <1>1
  <1>3. \A k \in BarJobs : jobs[k].phase \in {"publishing", "dead"}
                             => jobs'[k].phase = jobs[k].phase /\ jobs'[k].todo = jobs[k].todo
    BY <1>1
  <1> QED BY <1>2, <1>3, TornStands

\* Where only a job moves, nothing is lost.
LEMMA StoresStand ==
    ASSUME StoresTrue, CacheUnchanged, CatalogUnchanged, NEW j
    PROVE  /\ StoresTrue' /\ Grown(j) /\ UNCHANGED <<parts, manifest, torn, overlapped, refs, coverage>>
  <1>1. UNCHANGED <<parts, manifest, torn, overlapped, refs, coverage, missing>>
    BY DEF CacheUnchanged, CatalogUnchanged
  <1>2. \A c \in coverage : c.start <= c.start /\ c.end >= c.end
    BY BarConstants DEF StoresTrue, Ranges, Times, BarConstants
  <1> QED BY <1>1, <1>2 DEF StoresTrue, Grown

\* For a job that has no file and no reference yet, and will not write in this step.
LEMMA NothingWritten ==
    ASSUME NEW j, NEW w, JobTrue(j, w), w.phase \in {"idle", "fetching", "fetched", "failed", "noted"},
           NEW v, v.phase \notin {"writing", "publishing", "written", "done"},
           parts' = parts, refs' = refs
    PROVE  PartsTrue(j, v)' /\ RefsTrue(j, v)'
  <1>1. /\ \A p \in parts : p.job # j
        /\ \A r \in refs : r.job # j
    BY DEF JobTrue, PartsTrue, RefsTrue
  <1> QED BY <1>1 DEF PartsTrue, RefsTrue

\* A request is split into chunks, or is empty.
LEMMA FetchBarsKeeps ==
    ASSUME BarInv, NEW j \in BarJobs, NEW s \in Times, NEW e \in Times, FetchBars(j, s, e)
    PROVE  BarInv'
  <1>1. PICK w, f, reached : /\ w = jobs[j] /\ f = Fresh
                           /\ reached = IF e <= s THEN "fetched" ELSE "fetching"
    OBVIOUS
  <1>2. PICK v : v = [f EXCEPT !.phase = reached, !.start = s, !.end = e, !.cursor = s]
    OBVIOUS
  <1>3. /\ w.phase = "idle" /\ jobs' = [jobs EXCEPT ![j] = v] /\ CacheUnchanged /\ CatalogUnchanged
    BY <1>1, <1>2 DEF FetchBars
  <1>4. f = [phase |-> "idle", start |-> 0, end |-> 0, cursor |-> 0, attempt |-> 0,
             bars |-> {}, seen |-> {}, todo |-> {}, mixed |-> FALSE]
    BY <1>1 DEF Fresh
  <1>5. v = [phase |-> reached, start |-> s, end |-> e, cursor |-> s, attempt |-> 0,
             bars |-> {}, seen |-> {}, todo |-> {}, mixed |-> FALSE]
    BY <1>2, <1>4
  <1>6. /\ v.phase = reached /\ v.start = s /\ v.end = e /\ v.cursor = s /\ v.bars = {}
        /\ v.seen = {} /\ v.mixed = FALSE
    BY <1>5
  <1>7. s \in Nat /\ e \in Nat /\ reached \in {"fetched", "fetching"} /\ (reached = "fetched" <=> e <= s)
    BY <1>1, BarConstants DEF Times, BarConstants
  <1>8. v \in JobStates
    BY <1>5, <1>7, BarConstants DEF JobStates, BarConstants, Phases
  <1>9. FetchTrue(v)
    <2>1. ChunkOf(v, v.cursor)
      <3>1. 0 \in 0 .. s /\ s = s + 0 * ChunkLength /\ s <= s
        BY <1>7, BarConstants DEF BarConstants
      <3>2. v.start <= v.cursor /\ \E n \in 0 .. v.cursor : v.cursor = v.start + n * ChunkLength
        BY <1>6, <3>1
      <3> QED BY <3>2 DEF ChunkOf
    <2>2. \A t \in Traded : ~(v.start <= t /\ t < v.cursor)
      <3>1. \A t \in Traded : t \in Nat
        BY BarConstants DEF BarConstants, Times
      <3> QED BY <1>6, <1>7, <3>1
    <2>3. Spaced(v) /\ \A b \in v.bars : BarTrue(v, b)
      BY <1>6 DEF Spaced
    <2>4. /\ v.start <= v.cursor /\ v.phase # "idle" /\ (v.phase = "fetching" => v.cursor < v.end)
          /\ (v.phase # "fetching" => v.end <= v.cursor)
      BY <1>6, <1>7
    <2> QED BY <2>1, <2>2, <2>3, <2>4 DEF FetchTrue
  <1>10. JobTrue(j, w) /\ StoresTrue' /\ Grown(j) /\ Moved(j, v)
         /\ UNCHANGED <<parts, manifest, torn, overlapped, refs, coverage>>
    BY <1>1, <1>3, StoresStand, MoveIs DEF BarInv, JobsTrue
  <1>11. JobTrue(j, v)'
    BY <1>3, <1>6, <1>7, <1>8, <1>9, <1>10, NothingWritten DEF JobTrue
  <1>12. JobsTrue'
    BY <1>3, <1>10, <1>11, JobsMove DEF BarInv
  <1>13. ManifestTrue' /\ TornTrue'
    BY <1>1, <1>3, <1>6, <1>7, <1>10, ManifestMoves, TornMoves DEF BarInv
  <1> QED BY <1>10, <1>12, <1>13 DEF BarInv

\* Every bar of the part of a chunk that is not its end comes in the answer.
LEMMA ChunkAnswered ==
    ASSUME NEW from \in Nat, NEW to \in Nat, to <= from + ChunkLength, NEW inclusive,
           NEW t \in Traded, from <= t, t < to
    PROVE  [chunk |-> from, at |-> t] \in BarsAnswered(from, to, inclusive)
  <1>1. t \in Nat /\ Traded \subseteq Nat /\ ChunkLength \in Nat /\ RowLimit \in Nat
        /\ ChunkLength + 1 <= RowLimit
    BY BarConstants, ChunkFits DEF BarConstants, ChunkFits, Times
  <1>2. PICK times : times = ProviderTimes(from, to, inclusive)
    OBVIOUS
  <1>3. t \in times /\ times \subseteq Nat /\ \A x \in times : from <= x
    BY <1>1, <1>2 DEF ProviderTimes
  <1>4. PICK earlier : earlier = {x \in times : x < t}
    OBVIOUS
  <1>5. earlier \subseteq from .. (t - 1)
    <2>1. ASSUME NEW x \in earlier PROVE x \in from .. (t - 1)
      <3>1. x \in Nat /\ from <= x /\ x < t
        BY <1>3, <1>4
      <3> QED BY <1>1, <3>1
    <2> QED BY <2>1
  <1>6. IsFiniteSet(from .. (t - 1)) /\ Cardinality(from .. (t - 1)) <= t - from
    <2>1. from \in Int /\ t - 1 \in Int
      BY <1>1
    <2>2. /\ IsFiniteSet(from .. (t - 1))
          /\ Cardinality(from .. (t - 1)) = IF from > t - 1 THEN 0 ELSE (t - 1) - from + 1
      BY <2>1, FS_Interval
    <2> QED BY <1>1, <2>2
  <1>7. Cardinality(earlier) <= Cardinality(from .. (t - 1)) /\ Cardinality(earlier) \in Nat
        /\ Cardinality(from .. (t - 1)) \in Nat
    BY <1>5, <1>6, FS_Subset, FS_CardinalityType
  <1>8. Cardinality(earlier) < RowLimit
    BY <1>1, <1>6, <1>7
  <1> QED BY <1>2, <1>3, <1>4, <1>8 DEF BarsAnswered

\* A chunk comes: its bars are those up to its end.
LEMMA ChunkOkKeeps ==
    ASSUME BarInv, NEW j \in BarJobs, NEW inclusive \in BOOLEAN, ChunkOk(j, inclusive)
    PROVE  BarInv'
  <1>1. PICK w, to, new, reached :
            /\ w = jobs[j] /\ to = ChunkEnd(j) /\ new = BarsAnswered(w.cursor, to, inclusive)
            /\ reached = IF to < w.end THEN "fetching" ELSE "fetched"
    OBVIOUS
  <1>2. PICK v : v = [w EXCEPT !.bars = @ \cup new, !.cursor = to, !.attempt = 0, !.phase = reached]
    OBVIOUS
  <1>3. JobTrue(j, w) /\ w \in JobStates /\ FetchTrue(w) /\ w.phase = "fetching"
    BY <1>1 DEF BarInv, JobsTrue, JobTrue, ChunkOk
  <1>4. jobs' = [jobs EXCEPT ![j] = v] /\ CacheUnchanged /\ CatalogUnchanged
    BY <1>1, <1>2 DEF ChunkOk
  <1>5. /\ w.start \in Nat /\ w.end \in Nat /\ w.cursor \in Nat /\ ChunkLength \in Nat \ {0}
        /\ w.end <= Horizon /\ Horizon \in Nat
        /\ \A b \in w.bars : b.chunk \in Nat /\ b.at \in Nat
    BY <1>3, JobNumbers
  <1>6. w.cursor < w.end /\ w.start <= w.cursor
    BY <1>3 DEF FetchTrue
  <1>7. /\ to \in Nat /\ w.cursor < to /\ to <= w.end /\ to <= w.cursor + ChunkLength
        /\ to = w.cursor + ChunkLength \/ to = w.end
    <2>1. to = IF w.cursor + ChunkLength < w.end THEN w.cursor + ChunkLength ELSE w.end
      BY <1>1 DEF ChunkEnd, Lower
    <2> QED BY <1>5, <1>6, <2>1
  <1>8. \A b \in new : /\ b \in BarRows /\ b.chunk = w.cursor /\ b.at \in Nat
                       /\ w.cursor <= b.at /\ b.at <= to
    <2>1. ASSUME NEW b \in new
          PROVE  /\ b \in BarRows /\ b.chunk = w.cursor /\ b.at \in Nat /\ w.cursor <= b.at /\ b.at <= to
      <3>1. PICK t \in Traded : b = [chunk |-> w.cursor, at |-> t] /\ w.cursor <= t /\ (t < to \/ t = to)
        BY <1>1 DEF BarsAnswered, ProviderTimes
      <3>2. w.cursor \in Times /\ t \in Nat
        BY <1>3, BarConstants DEF JobStates, BarConstants, Times
      <3>3. b.chunk = w.cursor /\ b.at = t /\ b \in BarRows
        BY <3>1, <3>2 DEF BarRows
      <3> QED BY <1>7, <3>1, <3>2, <3>3
    <2> QED BY <2>1
  <1>9. /\ v.phase = reached /\ v.start = w.start /\ v.end = w.end /\ v.cursor = to
        /\ v.bars = w.bars \cup new /\ v.seen = w.seen /\ v.todo = w.todo /\ v.mixed = w.mixed
        /\ v \in JobStates
    <2>1. to \in Times
      BY <1>5, <1>7 DEF Times
    <2>2. reached \in Phases /\ w.bars \cup new \in SUBSET BarRows /\ 0 \in 0 .. FetchRetries
      BY <1>1, <1>3, <1>8, BarConstants DEF Phases, JobStates, BarConstants
    <2> QED BY <1>2, <1>3, <2>1, <2>2 DEF JobStates
  <1>10. FetchTrue(v)
    <2>1. ChunkOf(w, w.cursor)
      BY <1>3 DEF FetchTrue
    <2>2. v.phase = "fetching" => v.cursor < v.end /\ ChunkOf(v, v.cursor)
      <3>1. SUFFICES ASSUME to < w.end PROVE ChunkOf(v, v.cursor)
        BY <1>1, <1>9
      <3>2. PICK n \in 0 .. w.cursor : w.cursor = w.start + n * ChunkLength
        BY <2>1 DEF ChunkOf
      <3>3. to = w.start + (n + 1) * ChunkLength
        BY <1>5, <1>7, <3>1, <3>2
      <3>4. PICK m : m = n + 1
        OBVIOUS
      <3>5. m \in 0 .. to /\ to = w.start + m * ChunkLength /\ w.start <= to
        BY <1>5, <1>6, <1>7, <3>2, <3>3, <3>4
      <3>6. w.start <= to /\ \E x \in 0 .. to : to = w.start + x * ChunkLength
        BY <3>5
      <3> QED BY <1>9, <3>6 DEF ChunkOf
    <2>3. \A b \in v.bars : BarTrue(v, b)
      <3>1. \A c : ChunkOf(v, c) <=> ChunkOf(w, c)
        BY <1>9 DEF ChunkOf
      <3>2. ASSUME NEW b \in w.bars PROVE BarTrue(v, b)
        <4>1. BarTrue(w, b) /\ b.chunk \in Nat
          BY <1>3, <1>5 DEF FetchTrue
        <4> QED BY <1>5, <1>6, <1>7, <1>9, <3>1, <4>1 DEF BarTrue
      <3>3. ASSUME NEW b \in new PROVE BarTrue(v, b)
        BY <1>5, <1>6, <1>7, <1>8, <1>9, <2>1, <3>1 DEF BarTrue
      <3> QED BY <1>9, <3>2, <3>3
    <2>4. Spaced(v)
      <3>1. SUFFICES ASSUME NEW x \in v.bars, NEW y \in v.bars, x.chunk < y.chunk
            PROVE  x.chunk + ChunkLength <= y.chunk
        BY DEF Spaced
      <3>2. CASE x \in w.bars /\ y \in w.bars
        BY <1>3, <3>1, <3>2 DEF FetchTrue, Spaced
      <3>3. CASE x \in w.bars /\ y \in new
        <4>1. BarTrue(w, x)
          BY <1>3, <3>3 DEF FetchTrue
        <4> QED BY <1>5, <1>6, <1>8, <3>3, <4>1 DEF BarTrue
      <3>4. CASE x \in new
        <4>1. x.chunk = w.cursor
          BY <1>8, <3>4
        <4>2. y \in new => y.chunk = w.cursor
          BY <1>8
        <4>3. y \in w.bars => y.chunk < w.cursor /\ y.chunk \in Nat
          BY <1>3, <1>5 DEF FetchTrue, BarTrue
        <4> QED BY <1>5, <1>9, <3>1, <4>1, <4>2, <4>3
      <3> QED BY <1>9, <3>2, <3>3, <3>4
    <2>5. ASSUME NEW t \in Traded, w.start <= t, t < to PROVE \E b \in v.bars : b.at = t
      <3>1. t \in Nat
        BY BarConstants DEF BarConstants, Times
      <3>2. CASE t < w.cursor
        <4>1. \E b \in w.bars : b.at = t
          BY <1>3, <1>5, <1>6, <2>5, <3>1, <3>2 DEF FetchTrue, Going
        <4> QED BY <1>9, <4>1
      <3>3. CASE ~(t < w.cursor)
        <4>1. [chunk |-> w.cursor, at |-> t] \in new
          BY <1>1, <1>5, <1>7, <2>5, <3>1, <3>3, ChunkAnswered
        <4>2. [chunk |-> w.cursor, at |-> t].at = t
          OBVIOUS
        <4> QED BY <1>9, <4>1, <4>2
      <3> QED BY <3>2, <3>3
    <2>6. reached \in {"fetching", "fetched"} /\ (reached = "fetched" => w.end <= to)
      BY <1>1, <1>5, <1>7
    <2> QED BY <1>5, <1>6, <1>7, <1>9, <2>2, <2>3, <2>4, <2>5, <2>6 DEF FetchTrue, Going
  <1>11. StoresTrue' /\ Grown(j) /\ Moved(j, v) /\ UNCHANGED <<parts, manifest, torn, overlapped, refs, coverage>>
    BY <1>4, StoresStand, MoveIs DEF BarInv
  <1>12. reached \in {"fetching", "fetched"}
    BY <1>1
  <1>13. JobTrue(j, v)'
    BY <1>3, <1>9, <1>10, <1>11, <1>12, NothingWritten DEF JobTrue
  <1>14. JobsTrue'
    BY <1>4, <1>11, <1>13, JobsMove DEF BarInv
  <1>15. ManifestTrue' /\ TornTrue'
    BY <1>1, <1>3, <1>9, <1>11, <1>12, ManifestMoves, TornMoves DEF BarInv
  <1> QED BY <1>11, <1>14, <1>15 DEF BarInv

\* A job that has written nothing and does not write in this step.
LEMMA StillNothing ==
    ASSUME BarInv, NEW j \in BarJobs, NEW w, w = jobs[j], CacheUnchanged, CatalogUnchanged,
           w.phase \in {"idle", "fetching", "fetched", "failed", "noted"},
           NEW v \in JobStates, FetchTrue(v), v.phase \notin {"writing", "publishing", "written", "done"},
           jobs' = [jobs EXCEPT ![j] = v], v.seen = w.seen, v.mixed = w.mixed
    PROVE  BarInv'
  <1>1. JobTrue(j, w) /\ StoresTrue' /\ Grown(j) /\ Moved(j, v)
        /\ UNCHANGED <<parts, manifest, torn, overlapped, refs, coverage>>
    BY StoresStand, MoveIs DEF BarInv, JobsTrue
  <1>2. JobTrue(j, v)'
    BY <1>1, NothingWritten DEF JobTrue
  <1>3. JobsTrue'
    BY <1>1, <1>2, JobsMove DEF BarInv
  <1>4. ManifestTrue'
    BY <1>1, ManifestMoves DEF BarInv
  <1>5. TornTrue'
    BY <1>1, TornMoves DEF BarInv
  <1> QED BY <1>1, <1>3, <1>4, <1>5 DEF BarInv

\* A retry counts an attempt, no more.
LEMMA ChunkRetryKeeps ==
    ASSUME BarInv, NEW j \in BarJobs, ChunkRetry(j)
    PROVE  BarInv'
  <1>1. PICK w : w = jobs[j]
    OBVIOUS
  <1>2. JobTrue(j, w) /\ w \in JobStates /\ w.phase = "fetching" /\ w.attempt < FetchRetries
    BY <1>1 DEF BarInv, JobsTrue, JobTrue, ChunkRetry
  <1>3. PICK v : v = [w EXCEPT !.attempt = @ + 1]
    OBVIOUS
  <1>4. w.attempt + 1 \in 0 .. FetchRetries
    <2>1. w.attempt \in 0 .. FetchRetries /\ FetchRetries \in Nat
      BY <1>2, BarConstants DEF JobStates, BarConstants
    <2> QED BY <1>2, <2>1
  <1>5. /\ v \in JobStates /\ v.phase = w.phase /\ SameFetch(v, w) /\ v.seen = w.seen /\ v.mixed = w.mixed
    BY <1>2, <1>3, <1>4 DEF JobStates, SameFetch
  <1>6. FetchTrue(v)
    BY <1>2, <1>5, FetchStands DEF JobTrue
  <1>7. jobs' = [jobs EXCEPT ![j] = v] /\ CacheUnchanged /\ CatalogUnchanged
    BY <1>1, <1>3 DEF ChunkRetry
  <1> QED BY <1>1, <1>2, <1>5, <1>6, <1>7, StillNothing

\* A fetch that fails has no bar.
LEMMA ChunkFailKeeps ==
    ASSUME BarInv, NEW j \in BarJobs, ChunkFail(j)
    PROVE  BarInv'
  <1>1. PICK w : w = jobs[j]
    OBVIOUS
  <1>2. JobTrue(j, w) /\ w \in JobStates /\ w.phase = "fetching"
    BY <1>1 DEF BarInv, JobsTrue, JobTrue, ChunkFail
  <1>3. PICK v : v = [w EXCEPT !.phase = "failed", !.bars = {}]
    OBVIOUS
  <1>4. /\ v \in JobStates /\ v.phase = "failed" /\ v.bars = {} /\ v.seen = w.seen /\ v.mixed = w.mixed
        /\ v.start = w.start /\ v.cursor = w.cursor
    BY <1>2, <1>3 DEF JobStates, Phases
  <1>5. FetchTrue(v)
    <2>1. w.start <= w.cursor
      BY <1>2 DEF JobTrue, FetchTrue
    <2> QED BY <1>4, <2>1 DEF FetchTrue, Spaced, Going
  <1>6. jobs' = [jobs EXCEPT ![j] = v] /\ CacheUnchanged /\ CatalogUnchanged
    BY <1>1, <1>3 DEF ChunkFail
  <1> QED BY <1>1, <1>2, <1>4, <1>5, <1>6, StillNothing

\* A job that goes to another phase with what it has.
LEMMA GoesOn ==
    ASSUME BarInv, NEW j \in BarJobs, NEW reached \in Phases \ {"idle", "fetching"}, Goto(j, reached),
           NEW w, w = jobs[j], reached \in Going => w.phase \in Going \ {"fetching"}
    PROVE  \E v \in JobStates : /\ Moved(j, v) /\ v.phase = reached /\ SameFetch(v, w) /\ FetchTrue(v)
                                /\ v.todo = w.todo /\ v.seen = w.seen /\ v.mixed = w.mixed
                                /\ jobs' = [jobs EXCEPT ![j] = v]
  <1>1. PICK v \in JobStates : /\ Moved(j, v) /\ v.phase = reached /\ SameFetch(v, w)
                               /\ v.todo = w.todo /\ v.seen = w.seen /\ v.mixed = w.mixed
    BY Goes DEF BarInv
  <1>2. FetchTrue(w)
    BY DEF BarInv, JobsTrue, JobTrue
  <1>3. FetchTrue(v)
    BY <1>1, <1>2, FetchStands
  <1>4. jobs' = [jobs EXCEPT ![j] = v]
    BY <1>1 DEF Moved
  <1> QED BY <1>1, <1>3, <1>4

\* A manifest that does not parse stops a job before it writes.
LEMMA ReadTornManifestKeeps ==
    ASSUME BarInv, NEW j \in BarJobs, ReadTornManifest(j)
    PROVE  BarInv'
  <1>1. PICK w : w = jobs[j]
    OBVIOUS
  <1>2. w.phase = "fetched" /\ Goto(j, "failed") /\ CacheUnchanged /\ CatalogUnchanged
    BY <1>1 DEF ReadTornManifest
  <1>3. "failed" \in Phases \ {"idle", "fetching"} /\ "failed" \notin Going
    BY DEF Phases, Going
  <1>4. PICK v \in JobStates : /\ v.phase = "failed" /\ FetchTrue(v) /\ v.seen = w.seen /\ v.mixed = w.mixed
                               /\ jobs' = [jobs EXCEPT ![j] = v]
    BY <1>1, <1>2, <1>3, GoesOn
  <1> QED BY <1>1, <1>2, <1>4, StillNothing

\* A fetch that brought no bar leaves nothing to look for.
LEMMA WriteNothingKeeps ==
    ASSUME BarInv, NEW j \in BarJobs, WriteNothing(j)
    PROVE  BarInv'
  <1>1. PICK w : w = jobs[j]
    OBVIOUS
  <1>2. /\ w.phase = "fetched" /\ w.bars = {} /\ Goto(j, "written") /\ CacheUnchanged /\ CatalogUnchanged
        /\ JobTrue(j, w)
    BY <1>1 DEF WriteNothing, BarInv, JobsTrue
  <1>3. "written" \in Phases \ {"idle", "fetching"} /\ w.phase \in Going \ {"fetching"}
    BY <1>2 DEF Phases, Going
  <1>4. PICK v \in JobStates : /\ Moved(j, v) /\ v.phase = "written" /\ SameFetch(v, w) /\ FetchTrue(v)
                               /\ v.todo = w.todo /\ v.seen = w.seen /\ v.mixed = w.mixed
                               /\ jobs' = [jobs EXCEPT ![j] = v]
    BY <1>1, <1>2, <1>3, GoesOn
  <1>5. v.bars = {} /\ DaysOf(v.bars) = {}
    BY <1>2, <1>4 DEF SameFetch, DaysOf
  <1>6. StoresTrue' /\ Grown(j) /\ UNCHANGED <<parts, manifest, torn, overlapped, refs, coverage>>
    BY <1>2, StoresStand DEF BarInv
  <1>7. (\A p \in parts : p.job # j) /\ (\A r \in refs : r.job # j)
    BY <1>2 DEF JobTrue, PartsTrue, RefsTrue
  <1>8. PartsTrue(j, v)' /\ RefsTrue(j, v)'
    BY <1>4, <1>5, <1>6, <1>7 DEF PartsTrue, RefsTrue
  <1>9. JobTrue(j, v)'
    BY <1>4, <1>8 DEF JobTrue
  <1>10. JobsTrue'
    BY <1>4, <1>6, <1>9, JobsMove DEF BarInv
  <1>11. ManifestTrue'
    BY <1>1, <1>4, <1>5, <1>6, ManifestMoves DEF BarInv
  <1>12. TornTrue'
    BY <1>1, <1>2, <1>4, <1>6, TornMoves DEF BarInv
  <1> QED BY <1>6, <1>10, <1>11, <1>12 DEF BarInv

\* A gap is noted for a fetch that failed.
LEMMA RecordMissingKeeps ==
    ASSUME BarInv, NEW j \in BarJobs, RecordMissing(j)
    PROVE  BarInv'
  <1>1. PICK w : w = jobs[j]
    OBVIOUS
  <1>2. /\ w.phase = "failed" /\ Goto(j, "noted") /\ UNCHANGED <<coverage, refs>> /\ CacheUnchanged
        /\ JobTrue(j, w) /\ missing' = missing \cup {[start |-> w.start, end |-> w.end]}
    BY <1>1 DEF RecordMissing, BarInv, JobsTrue
  <1>3. "noted" \in Phases \ {"idle", "fetching"} /\ "noted" \notin Going
    BY DEF Phases, Going
  <1>4. PICK v \in JobStates : /\ Moved(j, v) /\ v.phase = "noted" /\ SameFetch(v, w) /\ FetchTrue(v)
                               /\ v.todo = w.todo /\ v.seen = w.seen /\ v.mixed = w.mixed
                               /\ jobs' = [jobs EXCEPT ![j] = v]
    BY <1>1, <1>2, <1>3, GoesOn
  <1>5. UNCHANGED <<parts, manifest, torn, overlapped, refs, coverage>>
    BY <1>2 DEF CacheUnchanged
  <1>6. StoresTrue'
    <2>1. [start |-> w.start, end |-> w.end] \in MissingRanges
      BY <1>2 DEF JobTrue, JobStates, MissingRanges, Ranges
    <2> QED BY <1>2, <1>5, <2>1 DEF BarInv, StoresTrue
  <1>7. Grown(j)
    <2>1. \A c \in coverage : c.start <= c.start /\ c.end >= c.end
      BY BarConstants DEF BarInv, StoresTrue, Ranges, Times, BarConstants
    <2> QED BY <1>5, <2>1 DEF Grown
  <1>8. JobTrue(j, v)'
    BY <1>2, <1>4, <1>5, NothingWritten DEF JobTrue
  <1>9. JobsTrue'
    BY <1>4, <1>6, <1>7, <1>8, JobsMove DEF BarInv
  <1>10. ManifestTrue' /\ TornTrue'
    BY <1>1, <1>2, <1>4, <1>5, ManifestMoves, TornMoves DEF BarInv
  <1> QED BY <1>6, <1>9, <1>10 DEF BarInv

\* A death leaves files and rows as they are; in the rewrite, it is what tore the manifest.
LEMMA DieInJobKeeps ==
    ASSUME BarInv, NEW j \in BarJobs, DieInJob(j)
    PROVE  BarInv'
  <1>1. PICK w : w = jobs[j]
    OBVIOUS
  <1>2. /\ w.phase \in {"fetching", "fetched", "writing", "publishing", "written"}
        /\ Goto(j, "dead") /\ CacheUnchanged /\ CatalogUnchanged /\ JobTrue(j, w)
    BY <1>1 DEF DieInJob, BarInv, JobsTrue
  <1>3. "dead" \in Phases \ {"idle", "fetching"} /\ "dead" \notin Going
    BY DEF Phases, Going
  <1>4. PICK v \in JobStates : /\ Moved(j, v) /\ v.phase = "dead" /\ SameFetch(v, w) /\ FetchTrue(v)
                               /\ v.todo = w.todo /\ v.seen = w.seen /\ v.mixed = w.mixed
                               /\ jobs' = [jobs EXCEPT ![j] = v]
    BY <1>1, <1>2, <1>3, GoesOn
  <1>5. StoresTrue' /\ Grown(j) /\ UNCHANGED <<parts, manifest, torn, overlapped, refs, coverage>>
    BY <1>2, StoresStand DEF BarInv
  <1>6. JobTrue(j, v)'
    <2>1. \A d : PartFor(j, v, d) = PartFor(j, w, d)
      BY <1>4 DEF PartFor, SameFetch
    <2>2. PartsTrue(j, v)' /\ RefsTrue(j, v)'
      BY <1>2, <1>4, <1>5, <2>1 DEF PartsTrue, RefsTrue, JobTrue, SameFetch
    <2> QED BY <1>4, <2>2 DEF JobTrue
  <1>7. JobsTrue'
    BY <1>4, <1>5, <1>6, JobsMove DEF BarInv
  <1>8. ManifestTrue'
    BY <1>1, <1>4, <1>5, ManifestMoves DEF BarInv
  <1>9. TornTrue'
    <2>1. CASE w.phase # "publishing"
      BY <1>1, <1>2, <1>4, <1>5, <2>1, TornMoves DEF BarInv
    <2>2. CASE w.phase = "publishing"
      <3>1. \A k \in BarJobs : jobs'[k] = IF k = j THEN v ELSE jobs[k]
        BY <1>4 DEF Moved
      <3>2. w.todo = {} /\ parts # {}
        <4>1. w.todo = {} /\ w.bars # {} /\ \A d \in DaysOf(w.bars) : PartFor(j, w, d) \in parts
          BY <1>2, <2>2 DEF JobTrue, PartsTrue
        <4> QED BY <4>1 DEF DaysOf
      <3>3. jobs'[j].phase = "dead" /\ jobs'[j].todo = {} /\ parts' # {}
        BY <1>4, <1>5, <3>1, <3>2
      <3>4. \A k \in BarJobs : jobs'[k].mixed => overlapped' # {}
        BY <1>1, <1>4, <1>5, <3>1 DEF BarInv, TornTrue
      <3> QED BY <3>3, <3>4 DEF TornTrue
    <2> QED BY <2>1, <2>2
  <1> QED BY <1>5, <1>7, <1>8, <1>9 DEF BarInv

\* The days of a job's bars are numbers.
LEMMA DaysAreNat ==
    ASSUME NEW w \in JobStates
    PROVE  DaysOf(w.bars) \in SUBSET Nat
  <1>1. ASSUME NEW b \in w.bars PROVE Day(b.at) \in Nat
    BY JobNumbers, DayIsNat
  <1> QED BY <1>1 DEF DaysOf

\* Coverage that stays is no reason to lose a job.
LEMMA CoverageStays ==
    ASSUME StoresTrue
    PROVE  \A c \in coverage : c.start <= c.start /\ c.end >= c.end
  BY BarConstants DEF StoresTrue, Ranges, Times, BarConstants

\* A job that comes to write reads a manifest that is whole, or is not alone.
LEMMA ReadManifestKeeps ==
    ASSUME BarInv, NEW j \in BarJobs, ReadManifest(j)
    PROVE  BarInv'
  <1>1. PICK w, days : w = jobs[j] /\ days = DaysOf(w.bars)
    OBVIOUS
  <1>2. PICK v : v = [w EXCEPT !.phase = "writing", !.seen = manifest, !.todo = days]
    OBVIOUS
  <1>3. /\ w.phase = "fetched" /\ w.bars # {} /\ ~torn /\ JobTrue(j, w) /\ w \in JobStates
        /\ jobs' = [jobs EXCEPT ![j] = v] /\ UNCHANGED <<parts, manifest, torn, coverage, missing, refs>>
        /\ overlapped' = IF Writing = {} THEN overlapped ELSE overlapped \cup Writing \cup {j}
    BY <1>1, <1>2 DEF ReadManifest, CatalogUnchanged, BarInv, JobsTrue, JobTrue
  <1>4. manifest \in SUBSET [job : BarJobs, day : Nat]
    <2>1. ASSUME NEW x \in Files PROVE x \in [job : BarJobs, day : Nat]
      <3>1. PICK p \in Parts : x = [job |-> p.job, day |-> p.day]
        BY DEF Files, BarInv, StoresTrue
      <3> QED BY <3>1 DEF Parts
    <2> QED BY <2>1 DEF BarInv, ManifestTrue
  <1>5. /\ v \in JobStates /\ v.phase = "writing" /\ SameFetch(v, w) /\ v.todo = days
        /\ v.seen = manifest /\ v.mixed = w.mixed
    BY <1>1, <1>2, <1>3, <1>4, DaysAreNat DEF JobStates, Phases, SameFetch
  <1>6. Moved(j, v)
    BY <1>3, MoveIs DEF BarInv
  <1>7. \A k \in BarJobs : jobs'[k] = IF k = j THEN v ELSE jobs[k]
    BY <1>6 DEF Moved
  <1>8. overlapped \subseteq overlapped' /\ StoresTrue' /\ Grown(j)
    <2>1. overlapped \subseteq overlapped' /\ overlapped' \subseteq BarJobs
      BY <1>3 DEF BarInv, StoresTrue, Writing
    <2> QED BY <1>3, <2>1, CoverageStays DEF BarInv, StoresTrue, Grown
  <1>9. JobTrue(j, v)'
    <2>1. FetchTrue(v)
      BY <1>3, <1>5, FetchStands DEF JobTrue, Going
    <2>2. (\A p \in parts : p.job # j) /\ (\A r \in refs : r.job # j)
      BY <1>3 DEF JobTrue, PartsTrue, RefsTrue
    <2>3. v.bars # {} /\ v.todo = DaysOf(v.bars)
      BY <1>1, <1>3, <1>5 DEF SameFetch
    <2>4. PartsTrue(j, v)' /\ RefsTrue(j, v)'
      BY <1>3, <1>5, <2>2, <2>3 DEF PartsTrue, RefsTrue
    <2> QED BY <1>5, <2>1, <2>4 DEF JobTrue
  <1>10. JobsTrue'
    BY <1>3, <1>8, <1>9, JobsMove DEF BarInv
  <1>11. ManifestTrue'
    <2>1. Returned' = Returned /\ j \notin Returned /\ Writing' = Writing \cup {j}
      BY <1>1, <1>3, <1>5, <1>7 DEF Returned, Writing
    <2>2. \A k \in BarJobs : k # j => Listed(k)' = Listed(k)
      BY <1>7 DEF Listed
    <2>3. Files' = Files
      BY <1>3 DEF Files
    <2>4. manifest' \subseteq Files' /\ \A k \in BarJobs : jobs'[k].seen \subseteq Files'
      BY <1>3, <1>5, <1>7, <2>3 DEF BarInv, ManifestTrue
    <2>5. Returned' \subseteq BarJobs
      BY DEF Returned
    <2>6. ManifestComplete'
      BY <1>3, <1>8, <2>1, <2>2, <2>5 DEF BarInv, ManifestTrue, ManifestComplete
    <2>7. ASSUME NEW k \in Writing', NEW i \in Returned' \ overlapped'
          PROVE  Listed(i)' \subseteq jobs'[k].seen
      <3>1. i \in Returned \ overlapped /\ Listed(i)' = Listed(i)
        BY <1>8, <2>1, <2>2, <2>5, <2>7
      <3>2. CASE k = j
        BY <1>5, <1>7, <3>1, <3>2 DEF BarInv, ManifestTrue, ManifestComplete
      <3>3. CASE k # j
        <4>1. k \in Writing /\ jobs'[k] = jobs[k]
          BY <1>7, <2>1, <2>7, <3>3 DEF Writing
        <4> QED BY <3>1, <4>1 DEF BarInv, ManifestTrue
      <3> QED BY <3>2, <3>3
    <2>8. ASSUME NEW i \in Writing', NEW k \in Writing', i # k PROVE i \in overlapped'
      BY <1>3, <2>1, <2>8
    <2> QED BY <2>4, <2>6, <2>7, <2>8 DEF ManifestTrue
  <1>12. TornTrue'
    BY <1>1, <1>3, <1>5, <1>6, <1>8, TornMoves DEF BarInv
  <1> QED BY <1>8, <1>10, <1>11, <1>12 DEF BarInv

\* A part is written for a day of the job's bars.
LEMMA WritePartKeeps ==
    ASSUME BarInv, NEW j \in BarJobs, NEW d, WritePart(j, d)
    PROVE  BarInv'
  <1>1. PICK w, part : w = jobs[j] /\ part = PartFor(j, w, d)
    OBVIOUS
  <1>2. PICK v : v = [w EXCEPT !.todo = @ \ {d}]
    OBVIOUS
  <1>3. /\ w.phase = "writing" /\ d \in w.todo /\ JobTrue(j, w) /\ w \in JobStates
        /\ jobs' = [jobs EXCEPT ![j] = v] /\ UNCHANGED <<manifest, torn, overlapped, coverage, missing, refs>>
        /\ parts' = parts \cup {part}
    BY <1>1, <1>2 DEF WritePart, PartOf, PartFor, CatalogUnchanged, BarInv, JobsTrue, JobTrue
  <1>4. /\ v \in JobStates /\ v.phase = "writing" /\ SameFetch(v, w) /\ v.todo = w.todo \ {d}
        /\ v.seen = w.seen /\ v.mixed = w.mixed
    BY <1>2, <1>3 DEF JobStates, SameFetch
  <1>5. Moved(j, v)
    BY <1>3, MoveIs DEF BarInv
  <1>6. part.job = j /\ part.day = d /\ part \in Parts
    <2>1. d \in Nat /\ w.bars \subseteq BarRows
      BY <1>3 DEF JobStates
    <2> QED BY <1>1, <2>1 DEF PartFor, Parts
  <1>7. StoresTrue' /\ Grown(j)
    BY <1>3, <1>6, CoverageStays DEF BarInv, StoresTrue, Grown
  <1>8. JobTrue(j, v)'
    <2>1. FetchTrue(v) /\ w.end <= w.cursor
      BY <1>3, <1>4, FetchStands DEF JobTrue, FetchTrue, Going
    <2>2. \A x : PartFor(j, v, x) = PartFor(j, w, x)
      BY <1>4 DEF PartFor, SameFetch
    <2>3. PartsTrue(j, v)'
      <3>1. ASSUME NEW p \in parts', p.job = j
            PROVE  p = PartFor(j, v, p.day)
        BY <1>1, <1>3, <1>6, <2>2, <3>1 DEF JobTrue, PartsTrue
      <3>2. v.bars # {} /\ v.todo \subseteq DaysOf(v.bars)
        BY <1>3, <1>4 DEF JobTrue, PartsTrue, SameFetch
      <3>3. ASSUME NEW x \in DaysOf(v.bars) \ v.todo PROVE PartFor(j, v, x) \in parts'
        BY <1>1, <1>3, <1>4, <2>2, <3>3 DEF JobTrue, PartsTrue, SameFetch
      <3> QED BY <1>4, <2>1, <3>1, <3>2, <3>3 DEF PartsTrue, SameFetch
    <2>4. RefsTrue(j, v)'
      BY <1>3, <1>4 DEF JobTrue, RefsTrue
    <2> QED BY <1>4, <2>1, <2>3, <2>4 DEF JobTrue
  <1>9. JobsTrue'
    BY <1>3, <1>5, <1>7, <1>8, JobsMove DEF BarInv
  <1>10. ManifestTrue' /\ TornTrue'
    BY <1>1, <1>3, <1>4, <1>5, <1>7, ManifestMoves, TornMoves DEF BarInv, Grown
  <1> QED BY <1>7, <1>9, <1>10 DEF BarInv

\* The rewrite begins with an empty file.
LEMMA TruncateManifestKeeps ==
    ASSUME BarInv, NEW j \in BarJobs, TruncateManifest(j)
    PROVE  BarInv'
  <1>1. PICK w : w = jobs[j]
    OBVIOUS
  <1>2. /\ w.phase = "writing" /\ w.todo = {} /\ Goto(j, "publishing") /\ torn' = TRUE /\ JobTrue(j, w)
        /\ UNCHANGED <<parts, manifest, overlapped, coverage, missing, refs>>
    BY <1>1 DEF TruncateManifest, CatalogUnchanged, BarInv, JobsTrue
  <1>3. "publishing" \in Phases \ {"idle", "fetching"} /\ w.phase \in Going \ {"fetching"}
    BY <1>2 DEF Phases, Going
  <1>4. PICK v \in JobStates : /\ Moved(j, v) /\ v.phase = "publishing" /\ SameFetch(v, w) /\ FetchTrue(v)
                               /\ v.todo = w.todo /\ v.seen = w.seen /\ v.mixed = w.mixed
                               /\ jobs' = [jobs EXCEPT ![j] = v]
    BY <1>1, <1>2, <1>3, GoesOn
  <1>5. StoresTrue' /\ Grown(j)
    BY <1>2, CoverageStays DEF BarInv, StoresTrue, Grown
  <1>6. JobTrue(j, v)'
    <2>1. \A x : PartFor(j, v, x) = PartFor(j, w, x)
      BY <1>4 DEF PartFor, SameFetch
    <2>2. PartsTrue(j, v)' /\ RefsTrue(j, v)'
      BY <1>2, <1>4, <2>1 DEF PartsTrue, RefsTrue, JobTrue, SameFetch
    <2> QED BY <1>4, <2>2 DEF JobTrue
  <1>7. JobsTrue'
    BY <1>4, <1>5, <1>6, JobsMove DEF BarInv
  <1>8. ManifestTrue'
    BY <1>1, <1>2, <1>4, ManifestMoves DEF BarInv
  <1>9. TornTrue'
    <2>1. \A k \in BarJobs : jobs'[k] = IF k = j THEN v ELSE jobs[k]
      BY <1>4 DEF Moved
    <2> QED BY <1>1, <1>2, <1>4, <2>1 DEF BarInv, TornTrue
  <1> QED BY <1>5, <1>7, <1>8, <1>9 DEF BarInv

\* The rewrite holds what was read and the job's own parts; whoever else was writing is known.
LEMMA WriteManifestKeeps ==
    ASSUME BarInv, NEW j \in BarJobs, WriteManifest(j)
    PROVE  BarInv'
  <1>1. PICK w, days : w = jobs[j] /\ days = DaysOf(w.bars)
    OBVIOUS
  <1>2. PICK v : v = [w EXCEPT !.phase = "written", !.todo = days]
    OBVIOUS
  <1>3. /\ w.phase = "publishing" /\ JobTrue(j, w) /\ w \in JobStates
        /\ manifest' = w.seen \cup Listed(j)
        /\ UNCHANGED <<parts, overlapped, coverage, missing, refs>>
        /\ AfterRewrite(j)
    BY <1>1 DEF WriteManifest, CatalogUnchanged, BarInv, JobsTrue, JobTrue
  <1>4. /\ torn' \in IF w.mixed THEN BOOLEAN ELSE {FALSE}
        /\ jobs' = [k \in BarJobs |-> IF k = j THEN v
                      ELSE [jobs[k] EXCEPT !.mixed = jobs[k].mixed \/ jobs[k].phase = "publishing"]]
    BY <1>1, <1>2, <1>3 DEF AfterRewrite
  <1>5. v \in JobStates /\ v.phase = "written" /\ SameFetch(v, w) /\ v.todo = days /\ v.seen = w.seen
        /\ v.mixed = w.mixed
    BY <1>1, <1>2, <1>3, DaysAreNat DEF JobStates, Phases, SameFetch
  <1>6. jobs'[j] = v
    BY <1>4
  <1>7. ASSUME NEW k \in BarJobs, k # j
        PROVE  /\ jobs'[k] \in JobStates /\ SameJob(jobs'[k], jobs[k])
               /\ jobs'[k].mixed => jobs[k].mixed \/ jobs[k].phase = "publishing"
    <2>1. PICK u : u = jobs[k]
      OBVIOUS
    <2>2. u \in JobStates
      BY <2>1 DEF BarInv, JobsTrue, JobTrue
    <2>3. PICK x \in BOOLEAN : x = (u.mixed \/ u.phase = "publishing")
      OBVIOUS
    <2>4. jobs'[k] = [u EXCEPT !.mixed = x]
      BY <1>4, <1>7, <2>1, <2>3
    <2>5. [u EXCEPT !.mixed = x] \in JobStates /\ SameJob([u EXCEPT !.mixed = x], u)
          /\ [u EXCEPT !.mixed = x].mixed = x
      BY <2>2 DEF JobStates, SameJob, SameFetch
    <2> QED BY <2>1, <2>3, <2>4, <2>5
  <1>8. StoresTrue' /\ Grown(j)
    <2>1. torn' \in BOOLEAN
      BY <1>4
    <2> QED BY <1>3, <2>1, CoverageStays DEF BarInv, StoresTrue, Grown
  <1>9. JobTrue(j, v)'
    <2>1. FetchTrue(v)
      BY <1>3, <1>5, FetchStands DEF JobTrue, Going
    <2>2. \A x : PartFor(j, v, x) = PartFor(j, w, x)
      BY <1>5 DEF PartFor, SameFetch
    <2>3. v.todo = DaysOf(v.bars) /\ v.bars = w.bars
      BY <1>1, <1>5 DEF SameFetch
    <2>4. PartsTrue(j, v)' /\ RefsTrue(j, v)'
      BY <1>3, <1>5, <2>2, <2>3 DEF PartsTrue, RefsTrue, JobTrue, SameFetch
    <2> QED BY <1>5, <2>1, <2>4 DEF JobTrue
  <1>10. JobsTrue'
    <2>1. ASSUME NEW k \in BarJobs PROVE JobTrue(k, jobs[k])'
      <3>1. CASE k = j
        BY <1>6, <1>9, <3>1
      <3>2. CASE k # j
        <4>1. PICK u, x : u = jobs[k] /\ x = jobs'[k]
          OBVIOUS
        <4>2. JobTrue(k, u) /\ x \in JobStates /\ SameJob(x, u)
          BY <1>7, <3>2, <4>1 DEF BarInv, JobsTrue
        <4>3. JobTrue(k, x)'
          BY <1>8, <3>2, <4>2, OthersStand DEF BarInv
        <4> QED BY <4>1, <4>3
      <3> QED BY <3>1, <3>2
    <2>2. (jobs = [k \in BarJobs |-> jobs[k]])'
      BY <1>4
    <2> QED BY <2>1, <2>2 DEF JobsTrue
  <1>11. \A k \in BarJobs : Listed(k)' = Listed(k)
    <2>1. ASSUME NEW k \in BarJobs PROVE Listed(k)' = Listed(k)
      <3>1. jobs'[k].bars = jobs[k].bars
        BY <1>1, <1>5, <1>6, <1>7 DEF SameJob, SameFetch
      <3> QED BY <3>1 DEF Listed, DaysOf
    <2> QED BY <2>1
  <1>12. \A k \in BarJobs : jobs'[k].seen = jobs[k].seen
    BY <1>1, <1>5, <1>6, <1>7 DEF SameJob
  <1>13. j \in Writing /\ Writing' = Writing \ {j} /\ Returned' = Returned \cup {j}
    BY <1>1, <1>3, <1>5, <1>6, <1>7 DEF Writing, Returned, SameJob
  <1>14. ManifestTrue'
    <2>1. Files' = Files
      BY <1>3 DEF Files
    <2>2. Listed(j) \subseteq Files
      <3>1. ASSUME NEW x \in Listed(j) PROVE x \in Files
        <4>1. PICK d \in DaysOf(w.bars) : x = [job |-> j, day |-> d]
          BY <1>1, <3>1 DEF Listed
        <4>2. PartFor(j, w, d) \in parts /\ PartFor(j, w, d).job = j /\ PartFor(j, w, d).day = d
          BY <1>3, <4>1 DEF JobTrue, PartsTrue, PartFor
        <4> QED BY <4>1, <4>2 DEF Files
      <3> QED BY <3>1
    <2>3. manifest' \subseteq Files' /\ \A k \in BarJobs : jobs'[k].seen \subseteq Files'
      BY <1>1, <1>3, <1>12, <2>1, <2>2 DEF BarInv, ManifestTrue
    <2>4. Returned' \subseteq BarJobs /\ Writing' \subseteq BarJobs
      BY DEF Returned, Writing
    <2>5. ASSUME NEW i \in Returned' \ overlapped' PROVE Listed(i)' \subseteq manifest'
      <3>1. CASE i = j
        BY <1>3, <1>11, <3>1
      <3>2. CASE i # j
        <4>1. i \in Returned \ overlapped
          BY <1>3, <1>13, <2>5, <3>2
        <4>2. Listed(i) \subseteq w.seen
          BY <1>1, <1>13, <4>1 DEF BarInv, ManifestTrue
        <4> QED BY <1>3, <1>11, <2>4, <2>5, <4>2
      <3> QED BY <3>1, <3>2
    <2>6. ManifestComplete'
      BY <2>5 DEF ManifestComplete
    <2>7. ASSUME NEW k \in Writing', NEW i \in Returned' \ overlapped'
          PROVE  Listed(i)' \subseteq jobs'[k].seen
      <3>1. k \in Writing /\ k # j
        BY <1>13, <2>7
      <3>2. j \in overlapped
        BY <1>13, <3>1 DEF BarInv, ManifestTrue
      <3>3. i \in Returned \ overlapped
        BY <1>3, <1>13, <2>7, <3>2
      <3>4. Listed(i) \subseteq jobs[k].seen
        BY <3>1, <3>3 DEF BarInv, ManifestTrue
      <3> QED BY <1>11, <1>12, <2>4, <2>7, <3>4
    <2>8. \A i, k \in Writing' : i # k => i \in overlapped'
      BY <1>3, <1>13 DEF BarInv, ManifestTrue
    <2> QED BY <2>3, <2>6, <2>7, <2>8 DEF ManifestTrue
  <1>15. TornTrue'
    <2>1. torn' => overlapped' # {}
      BY <1>1, <1>3, <1>4 DEF BarInv, TornTrue
    <2>2. ASSUME NEW k \in BarJobs, jobs'[k].mixed PROVE overlapped' # {}
      <3>1. CASE k = j
        BY <1>1, <1>3, <1>5, <1>6, <2>2, <3>1 DEF BarInv, TornTrue
      <3>2. CASE k # j
        <4>1. jobs[k].mixed \/ jobs[k].phase = "publishing"
          BY <1>7, <2>2, <3>2
        <4>2. jobs[k].phase = "publishing" => k \in Writing
          BY DEF Writing
        <4> QED BY <1>3, <1>13, <3>2, <4>1, <4>2 DEF BarInv, TornTrue, ManifestTrue
      <3> QED BY <3>1, <3>2
    <2> QED BY <2>1, <2>2 DEF TornTrue
  <1> QED BY <1>8, <1>10, <1>14, <1>15 DEF BarInv

\* A reference is registered for a day that was written.
LEMMA UpsertDatasetRefKeeps ==
    ASSUME BarInv, NEW j \in BarJobs, NEW d, UpsertDatasetRef(j, d)
    PROVE  BarInv'
  <1>1. PICK w, ref : w = jobs[j] /\ ref = [job |-> j, day |-> d]
    OBVIOUS
  <1>2. PICK v : v = [w EXCEPT !.todo = @ \ {d}]
    OBVIOUS
  <1>3. /\ w.phase = "written" /\ d \in w.todo /\ JobTrue(j, w) /\ w \in JobStates
        /\ jobs' = [jobs EXCEPT ![j] = v] /\ UNCHANGED <<parts, manifest, torn, overlapped, coverage, missing>>
        /\ refs' = refs \cup {ref}
    BY <1>1, <1>2 DEF UpsertDatasetRef, CacheUnchanged, BarInv, JobsTrue, JobTrue
  <1>4. /\ v \in JobStates /\ v.phase = "written" /\ SameFetch(v, w) /\ v.todo = w.todo \ {d}
        /\ v.seen = w.seen /\ v.mixed = w.mixed
    BY <1>2, <1>3 DEF JobStates, SameFetch
  <1>5. Moved(j, v)
    BY <1>3, MoveIs DEF BarInv
  <1>6. ref.job = j /\ ref \in DatasetRefs
    <2>1. d \in Nat
      BY <1>3 DEF JobStates
    <2> QED BY <1>1, <2>1 DEF DatasetRefs
  <1>7. StoresTrue' /\ Grown(j)
    BY <1>3, <1>6, CoverageStays DEF BarInv, StoresTrue, Grown
  <1>8. JobTrue(j, v)'
    <2>1. FetchTrue(v) /\ w.end <= w.cursor
      BY <1>3, <1>4, FetchStands DEF JobTrue, FetchTrue, Going
    <2>2. \A x : PartFor(j, v, x) = PartFor(j, w, x)
      BY <1>4 DEF PartFor, SameFetch
    <2>3. PartsTrue(j, v)'
      BY <1>3, <1>4, <2>2 DEF JobTrue, PartsTrue, SameFetch
    <2>4. RefsTrue(j, v)'
      <3>1. ASSUME NEW x \in DaysOf(v.bars) \ v.todo PROVE [job |-> j, day |-> x] \in refs'
        BY <1>1, <1>3, <1>4, <3>1 DEF JobTrue, RefsTrue, SameFetch
      <3> QED BY <1>4, <2>1, <3>1 DEF RefsTrue, SameFetch
    <2> QED BY <1>4, <2>1, <2>3, <2>4 DEF JobTrue
  <1>9. JobsTrue'
    BY <1>3, <1>7, <1>8, JobsMove DEF BarInv
  <1>10. ManifestTrue' /\ TornTrue'
    BY <1>1, <1>3, <1>4, <1>5, ManifestMoves, TornMoves DEF BarInv, SameFetch
  <1> QED BY <1>7, <1>9, <1>10 DEF BarInv

\* What is known of the catalog's row when a range joins it.
LEMMA HullHolds ==
    ASSUME StoresTrue, NEW s \in Times, NEW e \in Times,
           coverage' = IF coverage = {} THEN {[start |-> s, end |-> e]} ELSE {Hull(c, s, e) : c \in coverage}
    PROVE  /\ \E c \in Ranges : coverage' = {c} /\ c.start <= s /\ c.end >= e
           /\ \A c \in coverage : \E x \in coverage' : x.start <= c.start /\ x.end >= c.end
  <1>1. s \in Nat /\ e \in Nat /\ \A x \in Times : x \in Nat
    BY BarConstants DEF BarConstants, Times
  <1>2. CASE coverage = {}
    <2>1. PICK c : c = [start |-> s, end |-> e]
      OBVIOUS
    <2>2. c \in Ranges /\ c.start = s /\ c.end = e
      BY <2>1 DEF Ranges
    <2> QED BY <1>1, <1>2, <2>1, <2>2
  <1>3. CASE coverage # {}
    <2>1. PICK c \in Ranges : coverage = {c}
      BY <1>3 DEF StoresTrue
    <2>2. PICK h : h = Hull(c, s, e)
      OBVIOUS
    <2>3. coverage' = {h}
      BY <1>3, <2>1, <2>2
    <2>4. c.start \in Times /\ c.end \in Times
      BY <2>1 DEF Ranges
    <2>5. /\ h = [start |-> Lower(c.start, s), end |-> Higher(c.end, e)]
          /\ Lower(c.start, s) \in Times /\ Higher(c.end, e) \in Times
      BY <2>2, <2>4 DEF Hull, Lower, Higher
    <2>6. h \in Ranges /\ h.start = Lower(c.start, s) /\ h.end = Higher(c.end, e)
      BY <2>5 DEF Ranges
    <2>7. h.start <= s /\ h.end >= e /\ h.start <= c.start /\ h.end >= c.end
      <3>1. c.start \in Nat /\ c.end \in Nat /\ s \in Nat /\ e \in Nat
        BY <1>1, <2>4
      <3>2. PICK a, b, x, y : a = c.start /\ b = c.end /\ x = h.start /\ y = h.end
        OBVIOUS
      <3>3. /\ x = IF a < s THEN a ELSE s
            /\ y = IF b > e THEN b ELSE e
        BY <2>6, <3>2 DEF Lower, Higher
      <3>4. x <= s /\ y >= e /\ x <= a /\ y >= b
        BY <3>1, <3>2, <3>3
      <3> QED BY <3>2, <3>4
    <2> QED BY <2>1, <2>3, <2>6, <2>7
  <1> QED BY <1>2, <1>3

\* A job that is done is in the coverage.
LEMMA UpsertCoverageKeeps ==
    ASSUME BarInv, NEW j \in BarJobs, UpsertCoverage(j)
    PROVE  BarInv'
  <1>1. PICK w : w = jobs[j]
    OBVIOUS
  <1>2. /\ w.phase = "written" /\ w.todo = {} /\ w.start < w.end /\ Goto(j, "done") /\ JobTrue(j, w)
        /\ UNCHANGED <<missing, refs, parts, manifest, torn, overlapped>>
        /\ coverage' = IF coverage = {} THEN {[start |-> w.start, end |-> w.end]}
                       ELSE {Hull(c, w.start, w.end) : c \in coverage}
    BY <1>1 DEF UpsertCoverage, CacheUnchanged, BarInv, JobsTrue
  <1>3. "done" \in Phases \ {"idle", "fetching"} /\ w.phase \in Going \ {"fetching"}
    BY <1>2 DEF Phases, Going
  <1>4. PICK v \in JobStates : /\ Moved(j, v) /\ v.phase = "done" /\ SameFetch(v, w) /\ FetchTrue(v)
                               /\ v.todo = w.todo /\ v.seen = w.seen /\ v.mixed = w.mixed
                               /\ jobs' = [jobs EXCEPT ![j] = v]
    BY <1>1, <1>2, <1>3, GoesOn
  <1>5. w.start \in Times /\ w.end \in Times
    BY <1>2 DEF JobTrue, JobStates
  <1>6. /\ \E c \in Ranges : coverage' = {c} /\ c.start <= w.start /\ c.end >= w.end
        /\ \A c \in coverage : \E x \in coverage' : x.start <= c.start /\ x.end >= c.end
    BY <1>2, <1>5, HullHolds DEF BarInv
  <1>7. StoresTrue' /\ Grown(j)
    BY <1>2, <1>6 DEF BarInv, StoresTrue, Grown
  <1>8. JobTrue(j, v)'
    <2>1. \A x : PartFor(j, v, x) = PartFor(j, w, x)
      BY <1>4 DEF PartFor, SameFetch
    <2>2. PartsTrue(j, v)'
      BY <1>2, <1>4, <2>1 DEF PartsTrue, JobTrue, SameFetch
    <2>3. RefsTrue(j, v)'
      BY <1>2, <1>4, <1>6 DEF RefsTrue, JobTrue, SameFetch
    <2> QED BY <1>4, <2>2, <2>3 DEF JobTrue
  <1>9. JobsTrue'
    BY <1>4, <1>7, <1>8, JobsMove DEF BarInv
  <1>10. ManifestTrue' /\ TornTrue'
    BY <1>1, <1>2, <1>4, ManifestMoves, TornMoves DEF BarInv, SameFetch
  <1> QED BY <1>7, <1>9, <1>10 DEF BarInv

\* Nothing is stored at the start, and every step keeps the invariant.
LEMMA BarInvInit == BarInit => BarInv
  <1> SUFFICES ASSUME BarInit PROVE BarInv
    OBVIOUS
  <1>1. PICK f : f = Fresh
    OBVIOUS
  <1>2. f = [phase |-> "idle", start |-> 0, end |-> 0, cursor |-> 0, attempt |-> 0,
             bars |-> {}, seen |-> {}, todo |-> {}, mixed |-> FALSE]
    BY <1>1 DEF Fresh
  <1>3. f \in JobStates
    <2>1. 0 \in Times /\ 0 \in 0 .. FetchRetries
      BY BarConstants DEF BarConstants, Times
    <2> QED BY <1>2, <2>1 DEF JobStates, Phases
  <1>4. f.phase = "idle" /\ f.seen = {} /\ f.mixed = FALSE /\ f.bars = {} /\ f.start = 0 /\ f.end = 0
        /\ f.cursor = 0
    BY <1>2
  <1>5. FetchTrue(f)
    BY <1>4 DEF FetchTrue, Spaced, Going
  <1>6. ASSUME NEW j \in BarJobs PROVE jobs[j] = f /\ JobTrue(j, jobs[j])
    <2>1. jobs[j] = f /\ parts = {} /\ refs = {}
      BY <1>1 DEF BarInit
    <2>2. PartsTrue(j, f) /\ RefsTrue(j, f)
      BY <1>4, <2>1 DEF PartsTrue, RefsTrue
    <2> QED BY <1>3, <1>5, <2>1, <2>2 DEF JobTrue
  <1>7. JobsTrue
    BY <1>6 DEF JobsTrue, BarInit
  <1>8. ManifestTrue /\ TornTrue /\ StoresTrue
    <2>1. Writing = {} /\ Returned = {}
      BY <1>4, <1>6 DEF Writing, Returned
    <2>2. ManifestTrue
      BY <1>4, <1>6, <2>1 DEF ManifestTrue, ManifestComplete, BarInit
    <2>3. TornTrue /\ StoresTrue
      BY <1>4, <1>6 DEF TornTrue, StoresTrue, BarInit
    <2> QED BY <2>2, <2>3
  <1> QED BY <1>7, <1>8 DEF BarInv

\* Every step keeps the invariant.
LEMMA BarInvStep == BarInv /\ [BarNext]_barVars => BarInv'
  <1> SUFFICES ASSUME BarInv, [BarNext]_barVars PROVE BarInv'
    OBVIOUS
  <1>8. ASSUME UNCHANGED <<jobs, parts, manifest, torn, overlapped, coverage, missing, refs>> PROVE BarInv'
    BY <1>8 DEF BarInv, JobsTrue, JobTrue, PartsTrue, RefsTrue, ManifestTrue, ManifestComplete, TornTrue,
       StoresTrue, Writing, Returned, Files, Listed
  <1>1. ASSUME NEW j \in BarJobs, NEW s \in Times, NEW e \in Times, FetchBars(j, s, e) PROVE BarInv'
    BY <1>1, FetchBarsKeeps
  <1>2. ASSUME NEW j \in BarJobs, NEW inclusive \in BOOLEAN, ChunkOk(j, inclusive) PROVE BarInv'
    BY <1>2, ChunkOkKeeps
  <1>3. ASSUME NEW j \in BarJobs, ChunkRetry(j) \/ ChunkFail(j) \/ WriteNothing(j) PROVE BarInv'
    BY <1>3, ChunkRetryKeeps, ChunkFailKeeps, WriteNothingKeeps
  <1>4. ASSUME NEW j \in BarJobs, ReadTornManifest(j) \/ ReadManifest(j) \/ TruncateManifest(j) PROVE BarInv'
    BY <1>4, ReadTornManifestKeeps, ReadManifestKeeps, TruncateManifestKeeps
  <1>5. ASSUME NEW j \in BarJobs, NEW d, BeginPart(j, d) \/ WritePart(j, d) \/ UpsertDatasetRef(j, d)
        PROVE  BarInv'
    <2>1. CASE BeginPart(j, d)
      <3>1. UNCHANGED <<jobs, parts, manifest, torn, overlapped, coverage, missing, refs>>
        BY <2>1 DEF BeginPart, CatalogUnchanged
      <3> QED BY <1>8, <3>1
    <2> QED BY <1>5, <2>1, WritePartKeeps, UpsertDatasetRefKeeps
  <1>6. ASSUME NEW j \in BarJobs, WriteManifest(j) \/ UpsertCoverage(j) \/ RecordMissing(j) \/ DieInJob(j)
        PROVE  BarInv'
    BY <1>6, WriteManifestKeeps, UpsertCoverageKeeps, RecordMissingKeeps, DieInJobKeeps
  <1>7. CASE UNCHANGED barVars
    BY <1>7, <1>8 DEF barVars
  <1> QED BY <1>1, <1>2, <1>3, <1>4, <1>5, <1>6, <1>7 DEF BarNext

\* A file that is not whole is of a job that writes it or died there, and nothing leads to it.
HalfOf(h) ==
    /\ h \in DatasetRefs /\ h \notin Files /\ h \notin refs
    /\ jobs[h.job].phase \in {"writing", "dead"} /\ jobs[h.job].end <= jobs[h.job].cursor
    /\ jobs[h.job].phase = "writing" => h.day \in jobs[h.job].todo

\* What a job has still to write is not there.
TodoLeft(j) == jobs[j].phase = "writing" => \A p \in parts : p.job = j => p.day \notin jobs[j].todo

HalfTrue == (\A h \in half : HalfOf(h)) /\ \A j \in BarJobs : TodoLeft(j)

\* A step of a job that begins and ends no file.
LEMMA HalfMoves ==
    ASSUME HalfTrue, NEW j \in BarJobs, NEW v, NEW w, w = jobs[j], Moved(j, v), UNCHANGED <<parts, half>>,
           refs' = refs \/ (w.phase = "written" /\ \E d : refs' = refs \cup {FileOf(j, d)}),
           \/ w.phase \notin {"writing", "dead"} /\ (v.phase # "writing" \/ \A p \in parts : p.job # j)
           \/ w.phase = "writing" /\ v.phase = "dead" /\ v.end = w.end /\ v.cursor = w.cursor
           \/ w.phase = "writing" /\ w.todo = {} /\ v.phase # "writing"
    PROVE  HalfTrue'
  <1>1. \A k \in BarJobs : jobs'[k] = IF k = j THEN v ELSE jobs[k]
    BY DEF Moved
  <1>2. ASSUME NEW h \in half PROVE HalfOf(h)'
    <2>1. HalfOf(h) /\ h.job \in BarJobs
      BY DEF HalfTrue, HalfOf, DatasetRefs
    <2>2. h \notin Files' /\ h \notin refs'
      <3>1. Files' = Files
        BY DEF Files
      <3>2. \A d : w.phase = "written" => FileOf(j, d) # h
        <4>1. w.phase = "written" => h.job # j
          BY <2>1 DEF HalfOf
        <4>2. \A d : FileOf(j, d).job = j
          BY DEF FileOf
        <4> QED BY <4>1, <4>2
      <3> QED BY <2>1, <3>1, <3>2 DEF HalfOf
    <2>3. CASE h.job # j
      BY <1>1, <2>1, <2>2, <2>3 DEF HalfOf
    <2>4. CASE h.job = j
      <3>1. w.phase \in {"writing", "dead"} /\ w.end <= w.cursor /\ (w.phase = "writing" => w.todo # {})
        BY <2>1, <2>4 DEF HalfOf
      <3>2. jobs'[h.job] = v /\ v.phase = "dead" /\ v.end = w.end /\ v.cursor = w.cursor
        BY <1>1, <2>1, <2>4, <3>1
      <3> QED BY <2>1, <2>2, <3>1, <3>2 DEF HalfOf
    <2> QED BY <2>3, <2>4
  <1>3. ASSUME NEW k \in BarJobs PROVE TodoLeft(k)'
    <2>1. CASE k # j
      BY <1>1, <2>1 DEF HalfTrue, TodoLeft
    <2>2. CASE k = j
      BY <1>1, <2>2 DEF TodoLeft
    <2> QED BY <2>1, <2>2
  <1> QED BY <1>2, <1>3 DEF HalfTrue

\* A request and its chunks touch no file.
LEMMA FetchKeepsHalf ==
    ASSUME BarInv, HalfTrue, NEW j \in BarJobs,
           \/ \E s, e \in Times : FetchBars(j, s, e)
           \/ \E inclusive \in BOOLEAN : ChunkOk(j, inclusive)
           \/ ChunkRetry(j) \/ ChunkFail(j)
    PROVE  HalfTrue'
  <1>1. PICK w : w = jobs[j] /\ w \in JobStates
    BY DEF BarInv, JobsTrue, JobTrue
  <1>2. UNCHANGED <<parts, half, refs>> /\ w.phase \in {"idle", "fetching"}
    BY <1>1 DEF FetchBars, ChunkOk, ChunkRetry, ChunkFail, CacheUnchanged, CatalogUnchanged
  <1>3. \E v : jobs' = [jobs EXCEPT ![j] = v] /\ v.phase # "writing"
    <2>1. ASSUME NEW s \in Times, NEW e \in Times, FetchBars(j, s, e)
          PROVE  \E v : jobs' = [jobs EXCEPT ![j] = v] /\ v.phase # "writing"
      <3>1. PICK f, reached : f = Fresh /\ reached = IF e <= s THEN "fetched" ELSE "fetching"
        OBVIOUS
      <3>2. PICK v : v = [f EXCEPT !.phase = reached, !.start = s, !.end = e, !.cursor = s]
        OBVIOUS
      <3>3. f = [phase |-> "idle", start |-> 0, end |-> 0, cursor |-> 0, attempt |-> 0,
                 bars |-> {}, seen |-> {}, todo |-> {}, mixed |-> FALSE]
        BY <3>1 DEF Fresh
      <3>4. v = [phase |-> reached, start |-> s, end |-> e, cursor |-> s, attempt |-> 0,
                 bars |-> {}, seen |-> {}, todo |-> {}, mixed |-> FALSE]
        BY <3>2, <3>3
      <3>5. v.phase = reached /\ reached # "writing"
        BY <3>1, <3>4
      <3>6. jobs' = [jobs EXCEPT ![j] = v]
        BY <2>1, <3>1, <3>2 DEF FetchBars
      <3> QED BY <3>5, <3>6
    <2>2. ASSUME NEW inclusive \in BOOLEAN, ChunkOk(j, inclusive)
          PROVE  \E v : jobs' = [jobs EXCEPT ![j] = v] /\ v.phase # "writing"
      <3>1. PICK to, new, reached : /\ to = ChunkEnd(j) /\ new = BarsAnswered(w.cursor, to, inclusive)
                                    /\ reached = IF to < w.end THEN "fetching" ELSE "fetched"
        OBVIOUS
      <3>2. PICK v : v = [w EXCEPT !.bars = @ \cup new, !.cursor = to, !.attempt = 0, !.phase = reached]
        OBVIOUS
      <3>3. v.phase = reached /\ reached # "writing"
        BY <1>1, <3>1, <3>2 DEF JobStates
      <3>4. jobs' = [jobs EXCEPT ![j] = v]
        BY <1>1, <2>2, <3>1, <3>2 DEF ChunkOk
      <3> QED BY <3>3, <3>4
    <2>3. ASSUME ChunkRetry(j) PROVE \E v : jobs' = [jobs EXCEPT ![j] = v] /\ v.phase # "writing"
      <3>1. PICK v : v = [w EXCEPT !.attempt = @ + 1]
        OBVIOUS
      <3>2. v.phase = w.phase
        BY <1>1, <3>1 DEF JobStates
      <3>3. jobs' = [jobs EXCEPT ![j] = v]
        BY <1>1, <2>3, <3>1 DEF ChunkRetry
      <3> QED BY <1>2, <3>2, <3>3
    <2>4. ASSUME ChunkFail(j) PROVE \E v : jobs' = [jobs EXCEPT ![j] = v] /\ v.phase # "writing"
      <3>1. PICK v : v = [w EXCEPT !.phase = "failed", !.bars = {}]
        OBVIOUS
      <3>2. v.phase = "failed"
        BY <1>1, <3>1 DEF JobStates
      <3>3. jobs' = [jobs EXCEPT ![j] = v]
        BY <1>1, <2>4, <3>1 DEF ChunkFail
      <3> QED BY <3>2, <3>3
    <2> QED BY <2>1, <2>2, <2>3, <2>4
  <1>4. PICK v : jobs' = [jobs EXCEPT ![j] = v] /\ v.phase # "writing"
    BY <1>3
  <1>5. Moved(j, v)
    BY <1>4, MoveIs DEF BarInv
  <1> QED BY <1>1, <1>2, <1>4, <1>5, HalfMoves

\* Nor does a job that goes to another phase, or leaves half a file where it dies.
LEMMA PhasesKeepHalf ==
    ASSUME BarInv, HalfTrue, NEW j \in BarJobs,
           WriteNothing(j) \/ ReadTornManifest(j) \/ TruncateManifest(j) \/ UpsertCoverage(j)
             \/ RecordMissing(j) \/ DieInJob(j)
    PROVE  HalfTrue'
  <1>1. PICK w : w = jobs[j]
    OBVIOUS
  <1>2. UNCHANGED <<parts, half, refs>>
    BY DEF WriteNothing, ReadTornManifest, TruncateManifest, UpsertCoverage, RecordMissing, DieInJob,
           CacheUnchanged, CatalogUnchanged
  <1>3. PICK reached \in Phases :
           /\ Goto(j, reached) /\ reached # "writing"
           /\ \/ w.phase \in {"fetching", "fetched", "written", "publishing", "failed"}
              \/ w.phase = "writing" /\ reached = "dead"
              \/ w.phase = "writing" /\ w.todo = {}
    BY <1>1 DEF WriteNothing, ReadTornManifest, TruncateManifest, UpsertCoverage, RecordMissing, DieInJob, Phases
  <1>4. PICK v \in JobStates : Moved(j, v) /\ v.phase = reached /\ SameFetch(v, w)
    BY <1>1, <1>3, Goes DEF BarInv
  <1> QED BY <1>1, <1>2, <1>3, <1>4, HalfMoves DEF SameFetch

\* A job comes to write: there is no file of its own yet.
LEMMA ReadKeepsHalf ==
    ASSUME BarInv, HalfTrue, NEW j \in BarJobs, ReadManifest(j)
    PROVE  HalfTrue'
  <1>1. PICK w, days : w = jobs[j] /\ days = DaysOf(w.bars)
    OBVIOUS
  <1>2. PICK v : v = [w EXCEPT !.phase = "writing", !.seen = manifest, !.todo = days]
    OBVIOUS
  <1>3. /\ w.phase = "fetched" /\ JobTrue(j, w) /\ UNCHANGED <<parts, half, refs>>
        /\ jobs' = [jobs EXCEPT ![j] = v]
    BY <1>1, <1>2 DEF ReadManifest, CatalogUnchanged, BarInv, JobsTrue
  <1>4. \A p \in parts : p.job # j
    BY <1>3 DEF JobTrue, PartsTrue
  <1>5. Moved(j, v)
    BY <1>3, MoveIs DEF BarInv
  <1> QED BY <1>1, <1>3, <1>4, <1>5, HalfMoves

\* A reference is of a job that wrote all its files.
LEMMA RefKeepsHalf ==
    ASSUME BarInv, HalfTrue, NEW j \in BarJobs, NEW d, UpsertDatasetRef(j, d)
    PROVE  HalfTrue'
  <1>1. PICK w : w = jobs[j] /\ w \in JobStates
    BY DEF BarInv, JobsTrue, JobTrue
  <1>2. PICK v : v = [w EXCEPT !.todo = @ \ {d}]
    OBVIOUS
  <1>3. /\ w.phase = "written" /\ UNCHANGED <<parts, half>> /\ refs' = refs \cup {FileOf(j, d)}
        /\ jobs' = [jobs EXCEPT ![j] = v]
    BY <1>1, <1>2 DEF UpsertDatasetRef, CacheUnchanged, FileOf
  <1>4. v.phase = "written"
    BY <1>1, <1>2, <1>3 DEF JobStates
  <1>5. Moved(j, v)
    BY <1>3, MoveIs DEF BarInv
  <1> QED BY <1>1, <1>3, <1>4, <1>5, HalfMoves

\* The rewrite of the manifest changes no phase but its own.
LEMMA RewriteKeepsHalf ==
    ASSUME BarInv, HalfTrue, NEW j \in BarJobs, WriteManifest(j)
    PROVE  HalfTrue'
  <1>1. /\ jobs[j].phase = "publishing" /\ UNCHANGED <<parts, half, refs>>
        /\ jobs' = [k \in BarJobs |->
                      IF k = j THEN [jobs[j] EXCEPT !.phase = "written", !.todo = DaysOf(jobs[j].bars)]
                      ELSE [jobs[k] EXCEPT !.mixed = jobs[k].mixed \/ jobs[k].phase = "publishing"]]
    BY DEF WriteManifest, AfterRewrite, CatalogUnchanged
  <1>2. \A k \in BarJobs : jobs[k] \in JobStates
    BY DEF BarInv, JobsTrue, JobTrue
  <1>3. ASSUME NEW k \in BarJobs, k # j
        PROVE  /\ jobs'[k].phase = jobs[k].phase /\ jobs'[k].todo = jobs[k].todo
               /\ jobs'[k].end = jobs[k].end /\ jobs'[k].cursor = jobs[k].cursor
    <2>1. PICK w, v : w = jobs[k] /\ v = [w EXCEPT !.mixed = w.mixed \/ w.phase = "publishing"]
      OBVIOUS
    <2>2. w \in JobStates /\ jobs'[k] = v
      BY <1>1, <1>2, <1>3, <2>1
    <2>3. v.phase = w.phase /\ v.todo = w.todo /\ v.end = w.end /\ v.cursor = w.cursor
      BY <2>1, <2>2 DEF JobStates
    <2> QED BY <2>1, <2>2, <2>3
  <1>4. jobs'[j].phase = "written"
    <2>1. PICK w, v : w = jobs[j] /\ v = [w EXCEPT !.phase = "written", !.todo = DaysOf(w.bars)]
      OBVIOUS
    <2>2. w \in JobStates /\ jobs'[j] = v
      BY <1>1, <1>2, <2>1
    <2> QED BY <2>1, <2>2 DEF JobStates
  <1>5. ASSUME NEW h \in half PROVE HalfOf(h)'
    <2>1. HalfOf(h) /\ h.job \in BarJobs /\ h.job # j
      BY <1>1 DEF HalfTrue, HalfOf, DatasetRefs
    <2> QED BY <1>1, <1>3, <2>1 DEF HalfOf, Files
  <1>6. ASSUME NEW k \in BarJobs PROVE TodoLeft(k)'
    BY <1>1, <1>3, <1>4 DEF HalfTrue, TodoLeft
  <1> QED BY <1>1, <1>5, <1>6 DEF HalfTrue

\* A file is begun that is not there, or is whole.
LEMMA PartKeepsHalf ==
    ASSUME BarInv, HalfTrue, NEW j \in BarJobs, NEW d, BeginPart(j, d) \/ WritePart(j, d)
    PROVE  HalfTrue'
  <1>1. PICK w, file : w = jobs[j] /\ w \in JobStates /\ file = FileOf(j, d)
    BY DEF BarInv, JobsTrue, JobTrue
  <1>2. w.phase = "writing" /\ d \in w.todo /\ refs' = refs /\ JobTrue(j, w)
    BY <1>1 DEF BeginPart, WritePart, CatalogUnchanged, BarInv, JobsTrue
  <1>3. file.job = j /\ file.day = d /\ file \in DatasetRefs
    <2>1. d \in Nat
      BY <1>1, <1>2 DEF JobStates
    <2> QED BY <1>1, <2>1 DEF FileOf, DatasetRefs
  <1>4. CASE BeginPart(j, d)
    <2>1. half' = half \cup {file} /\ UNCHANGED <<jobs, parts, refs>>
      BY <1>1, <1>2, <1>4 DEF BeginPart
    <2>2. HalfOf(file)
      <3>1. file \notin Files
        <4>1. \A p \in parts : p.job = j => p.day # d
          BY <1>1, <1>2 DEF HalfTrue, TodoLeft
        <4>2. \A p \in parts : [job |-> p.job, day |-> p.day] # file
          BY <1>3, <4>1
        <4> QED BY <4>2 DEF Files
      <3>2. file \notin refs /\ w.end <= w.cursor
        BY <1>2, <1>3 DEF JobTrue, RefsTrue, FetchTrue, Going
      <3> QED BY <1>1, <1>2, <1>3, <3>1, <3>2 DEF HalfOf
    <2> QED BY <2>1, <2>2 DEF HalfTrue, HalfOf, TodoLeft, Files
  <1>5. CASE WritePart(j, d)
    <2>1. PICK v, part : v = [w EXCEPT !.todo = @ \ {d}] /\ part = PartOf(j, d)
      OBVIOUS
    <2>2. half' = half \ {file} /\ parts' = parts \cup {part} /\ jobs' = [jobs EXCEPT ![j] = v]
      BY <1>1, <1>5, <2>1 DEF WritePart
    <2>3. /\ v.phase = "writing" /\ v.end = w.end /\ v.cursor = w.cursor /\ v.todo = w.todo \ {d}
          /\ part.job = j /\ part.day = d
      BY <1>1, <1>2, <2>1 DEF JobStates, PartOf
    <2>4. \A k \in BarJobs : jobs'[k] = IF k = j THEN v ELSE jobs[k]
      BY <2>2, MoveIs DEF BarInv, Moved
    <2>5. Files' = Files \cup {file}
      BY <1>1, <2>2, <2>3 DEF Files, FileOf
    <2>6. ASSUME NEW h \in half' PROVE HalfOf(h)'
      <3>1. HalfOf(h) /\ h.job \in BarJobs /\ h # file
        BY <2>2, <2>6 DEF HalfTrue, HalfOf, DatasetRefs
      <3>2. h.job = j => h.day # d
        BY <1>1, <3>1 DEF HalfOf, DatasetRefs, FileOf
      <3>3. h \notin Files' /\ h \notin refs' /\ h \in DatasetRefs
        BY <1>2, <2>5, <3>1 DEF HalfOf
      <3>4. CASE h.job = j
        <4>1. jobs'[h.job] = v /\ h.day \in w.todo /\ w.end <= w.cursor
          BY <1>1, <1>2, <2>4, <3>1, <3>4 DEF HalfOf
        <4> QED BY <2>3, <3>2, <3>3, <3>4, <4>1 DEF HalfOf
      <3>5. CASE h.job # j
        BY <2>4, <3>1, <3>3, <3>5 DEF HalfOf
      <3> QED BY <3>4, <3>5
    <2>7. ASSUME NEW k \in BarJobs PROVE TodoLeft(k)'
      BY <1>1, <1>2, <2>2, <2>3, <2>4 DEF HalfTrue, TodoLeft
    <2> QED BY <2>6, <2>7 DEF HalfTrue
  <1> QED BY <1>4, <1>5

\* Half-written files stay explained.
LEMMA HalfTrueStep == BarInv /\ HalfTrue /\ [BarNext]_barVars => HalfTrue'
  <1> SUFFICES ASSUME BarInv, HalfTrue, [BarNext]_barVars PROVE HalfTrue'
    OBVIOUS
  <1>1. CASE UNCHANGED barVars
    BY <1>1 DEF barVars, HalfTrue, HalfOf, TodoLeft, Files
  <1>2. CASE BarNext
    BY <1>2, FetchKeepsHalf, PhasesKeepHalf, ReadKeepsHalf, RefKeepsHalf, RewriteKeepsHalf, PartKeepsHalf
       DEF BarNext
  <1> QED BY <1>1, <1>2

\* Readers open the file of the day of every bar of a job that returned.
LEMMA LoadFinds ==
    ASSUME BarInv, NEW j \in Returned, NEW b, b \in jobs[j].bars, NEW s \in Nat, NEW e \in Nat,
           s <= b.at, b.at < e
    PROVE  \E row \in Load(s, e) : row[2].at = b.at
  <1>1. PICK w, t, p : w = jobs[j] /\ t = b.at /\ p = PartFor(j, w, Day(t))
    OBVIOUS
  <1>2. JobTrue(j, w) /\ w \in JobStates /\ w.phase \in {"written", "done"} /\ b \in w.bars
    BY <1>1 DEF Returned, BarInv, JobsTrue, JobTrue
  <1>3. Day(t) \in DaysOf(w.bars)
    BY <1>1, <1>2 DEF DaysOf
  <1>4. p \in parts /\ p.day = Day(t) /\ b \in p.bars
    <2>1. p \in parts
      BY <1>1, <1>2, <1>3 DEF JobTrue, PartsTrue
    <2>2. p.day = Day(t) /\ p.bars = {x \in w.bars : Day(x.at) = Day(t)}
      BY <1>1 DEF PartFor
    <2> QED BY <1>1, <1>2, <2>1, <2>2
  <1>5. Day(t) \in Day(s) .. Day(e)
    <2>1. t \in Nat /\ t <= e
      BY <1>1, <1>2, JobNumbers
    <2>2. Day(s) <= Day(t) /\ Day(t) <= Day(e)
      BY <1>1, <2>1, DaysGrow
    <2> QED BY <2>1, <2>2, DayIsNat
  <1>6. <<p, b>> \in Load(s, e)
    BY <1>1, <1>4, <1>5 DEF Load, PartitionsInRange
  <1> QED BY <1>1, <1>6

\* Its range is in the file of its day, with its references.
LEMMA FetchedIsLoadableHolds == BarInv => FetchedIsLoadable
  <1> SUFFICES ASSUME BarInv, NEW j \in Returned, NEW t \in Traded, jobs[j].start <= t, t < jobs[j].end
      PROVE  \E row \in Load(jobs[j].start, jobs[j].end) : row[2].at = t
    BY DEF FetchedIsLoadable
  <1>1. PICK w : w = jobs[j]
    OBVIOUS
  <1>2. JobTrue(j, w) /\ w \in JobStates /\ w.phase \in {"written", "done"}
    BY <1>1 DEF Returned, BarInv, JobsTrue, JobTrue
  <1>3. w.start \in Nat /\ w.end \in Nat /\ w.cursor \in Nat /\ t \in Nat
    BY <1>2, JobNumbers, BarConstants DEF BarConstants, Times
  <1>4. w.end <= w.cursor
    BY <1>2 DEF JobTrue, FetchTrue, Going
  <1>5. PICK b \in w.bars : b.at = t
    BY <1>1, <1>2, <1>3, <1>4 DEF JobTrue, FetchTrue, Going
  <1> QED BY <1>1, <1>3, <1>5, LoadFinds

\* A row that load_bars gives for a time is a bar of a job, in the file of its day.
RowsAt(t) == {row \in Load(t, t + 1) : row[2].at = t}

\* It is the bar b of the job j, in the part that job wrote for its day.
RowFrom(j, b, row, t) ==
    /\ j \in BarJobs /\ b \in jobs[j].bars /\ row = <<PartFor(j, jobs[j], Day(t)), b>>
    /\ BarTrue(jobs[j], b) /\ b = [chunk |-> b.chunk, at |-> t] /\ b.at = t
    /\ row[1].job = j /\ row[2] = b

\* Every such row is one.
LEMMA RowIs ==
    ASSUME BarInv, NEW t \in Traded, NEW row \in RowsAt(t)
    PROVE  \E j, b : RowFrom(j, b, row, t)
  <1>1. row \in Load(t, t + 1) /\ row[2].at = t
    BY DEF RowsAt
  <1>0. PICK p \in parts : \E x \in p.bars : row = <<p, x>>
    BY <1>1 DEF Load
  <1>2. PICK b \in p.bars : row = <<p, b>>
    BY <1>0
  <1>3. PICK j, w : j = p.job /\ w = jobs[j]
    OBVIOUS
  <1>4. j \in BarJobs /\ p \in Parts
    BY <1>2, <1>3 DEF BarInv, StoresTrue, Parts
  <1>5. JobTrue(j, w)
    BY <1>3, <1>4 DEF BarInv, JobsTrue
  <1>6. p = PartFor(j, w, p.day)
    BY <1>2, <1>3, <1>5 DEF JobTrue, PartsTrue
  <1>7. p.bars = {x \in w.bars : Day(x.at) = p.day}
    BY <1>6 DEF PartFor
  <1>8. b \in w.bars /\ Day(b.at) = p.day /\ b.at = t
    BY <1>1, <1>2, <1>7
  <1>9. p = PartFor(j, w, Day(t))
    BY <1>6, <1>8
  <1>10. BarTrue(w, b)
    BY <1>5, <1>8 DEF JobTrue, FetchTrue
  <1>11. b = [chunk |-> b.chunk, at |-> t]
    <2>1. b \in BarRows
      BY <1>5, <1>8 DEF JobTrue, JobStates
    <2> QED BY <1>8, <2>1 DEF BarRows
  <1>12. row[1].job = j /\ row[2] = b
    BY <1>2, <1>3
  <1>13. RowFrom(j, b, row, t)
    BY <1>2, <1>3, <1>4, <1>8, <1>9, <1>10, <1>11, <1>12 DEF RowFrom
  <1> QED BY <1>13

\* Rows of a chunk that begins at the time itself, inside the request; and the others.
AtBoundary(row, t) == row[2].chunk = t /\ t # jobs[row[1].job].start

\* Each job gives at most one row of either kind.
LEMMA OneRowEach ==
    ASSUME BarInv, NEW t \in Traded, NEW x \in RowsAt(t), NEW y \in RowsAt(t), x[1].job = y[1].job,
           AtBoundary(x, t) <=> AtBoundary(y, t)
    PROVE  x = y
  <1>1. PICK j, b : RowFrom(j, b, x, t)
    BY RowIs
  <1>2. PICK i, c : RowFrom(i, c, y, t)
    BY RowIs
  <1>3. i = j /\ x[2] = b /\ y[2] = c
    BY <1>1, <1>2 DEF RowFrom
  <1>4. PICK w : w = jobs[j]
    OBVIOUS
  <1>5. JobTrue(j, w) /\ w \in JobStates
    BY <1>1, <1>4 DEF BarInv, JobsTrue, JobTrue, RowFrom
  <1>6. /\ w.start \in Nat /\ b.chunk \in Nat /\ c.chunk \in Nat /\ t \in Nat /\ ChunkLength \in Nat \ {0}
        /\ w.start <= b.chunk /\ w.start <= c.chunk /\ b.chunk <= t /\ c.chunk <= t
        /\ t <= b.chunk + ChunkLength /\ t <= c.chunk + ChunkLength
    BY <1>1, <1>2, <1>3, <1>4, <1>5, JobNumbers DEF RowFrom, BarTrue, ChunkOf
  <1>7. (b.chunk = t /\ t # w.start) <=> (c.chunk = t /\ t # w.start)
    BY <1>1, <1>2, <1>3, <1>4 DEF AtBoundary, RowFrom
  <1>8. /\ b.chunk < c.chunk => b.chunk + ChunkLength <= c.chunk
        /\ c.chunk < b.chunk => c.chunk + ChunkLength <= b.chunk
    BY <1>1, <1>2, <1>3, <1>4, <1>5 DEF JobTrue, FetchTrue, Spaced, RowFrom
  <1>9. b.chunk = c.chunk
    BY <1>6, <1>7, <1>8
  <1> QED BY <1>1, <1>2, <1>3, <1>9 DEF RowFrom

\* So the copies of a time are no more than the jobs that asked for it and the boundaries on it.
LEMMA CopiesExplainedHolds == BarInv => CopiesExplained
  <1> SUFFICES ASSUME BarInv, NEW t \in Traded
      PROVE  Copies(t) <= Cardinality({j \in BarJobs : jobs[j].start <= t /\ t <= jobs[j].end})
                            + Cardinality({j \in BarJobs : t \in Boundaries(j)})
    BY DEF CopiesExplained
  <1>1. PICK fetchers, bounded, plain, extra :
           /\ fetchers = {j \in BarJobs : jobs[j].start <= t /\ t <= jobs[j].end}
           /\ bounded = {j \in BarJobs : t \in Boundaries(j)}
           /\ plain = {row \in RowsAt(t) : ~AtBoundary(row, t)}
           /\ extra = {row \in RowsAt(t) : AtBoundary(row, t)}
    OBVIOUS
  <1>2. IsFiniteSet(fetchers) /\ IsFiniteSet(bounded)
    <2>1. fetchers \subseteq BarJobs /\ bounded \subseteq BarJobs /\ IsFiniteSet(BarJobs)
      BY <1>1, BarConstants DEF BarConstants
    <2> QED BY <2>1, FS_Subset
  <1>3. ASSUME NEW row \in RowsAt(t)
        PROVE  row[1].job \in fetchers /\ (AtBoundary(row, t) => row[1].job \in bounded)
    <2>1. PICK j, b : RowFrom(j, b, row, t)
      BY RowIs
    <2>2. PICK w : w = jobs[j]
      OBVIOUS
    <2>3. w \in JobStates
      BY <2>1, <2>2 DEF BarInv, JobsTrue, JobTrue, RowFrom
    <2>4. /\ w.start \in Nat /\ w.end \in Nat /\ b.chunk \in Nat /\ t \in Nat /\ t \in Times
      BY <2>1, <2>2, <2>3, JobNumbers, BarConstants DEF BarConstants, RowFrom
    <2>5. w.start <= b.chunk /\ b.chunk <= t /\ t <= w.end /\ b.chunk < w.end
      BY <2>1, <2>2 DEF BarTrue, ChunkOf, RowFrom
    <2>6. j \in fetchers
      <3>1. w.start <= t /\ t <= w.end
        BY <2>4, <2>5
      <3> QED BY <1>1, <2>1, <2>2, <3>1 DEF RowFrom
    <2>7. ASSUME AtBoundary(row, t) PROVE j \in bounded
      <3>1. b.chunk = t /\ t # w.start
        BY <2>1, <2>2, <2>7 DEF AtBoundary, RowFrom
      <3>2. PICK n \in 0 .. t : t = w.start + n * ChunkLength
        BY <2>1, <2>2, <3>1 DEF BarTrue, ChunkOf, RowFrom
      <3>3. n # 0
        BY <2>4, <3>1, <3>2, BarConstants DEF BarConstants
      <3>4. n \in 1 .. t /\ w.start < t /\ t < w.end
        BY <2>4, <2>5, <3>1, <3>2, <3>3
      <3>5. t \in Boundaries(j)
        BY <2>1, <2>2, <2>4, <3>2, <3>4 DEF Boundaries, RowFrom
      <3> QED BY <1>1, <2>1, <3>5 DEF RowFrom
    <2> QED BY <2>1, <2>6, <2>7 DEF RowFrom
  <1>4. IsFiniteSet(plain) /\ Cardinality(plain) <= Cardinality(fetchers)
    <2>1. PICK f : f = [row \in plain |-> row[1].job]
      OBVIOUS
    <2>2. f \in [plain -> fetchers]
      BY <1>1, <1>3, <2>1
    <2>3. \A x, y \in plain : f[x] = f[y] => x = y
      <3>1. SUFFICES ASSUME NEW x \in plain, NEW y \in plain, f[x] = f[y] PROVE x = y
        OBVIOUS
      <3>2. x[1].job = y[1].job /\ x \in RowsAt(t) /\ y \in RowsAt(t) /\ ~AtBoundary(x, t) /\ ~AtBoundary(y, t)
        BY <1>1, <2>1, <3>1
      <3> QED BY <3>2, OneRowEach
    <2>4. f \in Injection(plain, fetchers)
      BY <2>2, <2>3 DEF Injection, IsInjective
    <2> QED BY <1>2, <2>4, FS_Injection
  <1>5. IsFiniteSet(extra) /\ Cardinality(extra) <= Cardinality(bounded)
    <2>1. PICK f : f = [row \in extra |-> row[1].job]
      OBVIOUS
    <2>2. f \in [extra -> bounded]
      BY <1>1, <1>3, <2>1
    <2>3. \A x, y \in extra : f[x] = f[y] => x = y
      <3>1. SUFFICES ASSUME NEW x \in extra, NEW y \in extra, f[x] = f[y] PROVE x = y
        OBVIOUS
      <3>2. x[1].job = y[1].job /\ x \in RowsAt(t) /\ y \in RowsAt(t) /\ AtBoundary(x, t) /\ AtBoundary(y, t)
        BY <1>1, <2>1, <3>1
      <3> QED BY <3>2, OneRowEach
    <2>4. f \in Injection(extra, bounded)
      BY <2>2, <2>3 DEF Injection, IsInjective
    <2> QED BY <1>2, <2>4, FS_Injection
  <1>6. RowsAt(t) = plain \cup extra
    BY <1>1
  <1>7. Cardinality(plain \cup extra) = Cardinality(plain) + Cardinality(extra) - Cardinality(plain \cap extra)
    BY <1>4, <1>5, FS_Union
  <1>8. /\ Cardinality(plain) \in Nat /\ Cardinality(extra) \in Nat /\ Cardinality(fetchers) \in Nat
        /\ Cardinality(bounded) \in Nat /\ Cardinality(plain \cap extra) \in Nat
    <2>1. IsFiniteSet(plain \cap extra)
      BY <1>4, FS_Subset
    <2> QED BY <1>2, <1>4, <1>5, <2>1, FS_CardinalityType
  <1>9. Cardinality(RowsAt(t)) <= Cardinality(fetchers) + Cardinality(bounded)
    BY <1>4, <1>5, <1>6, <1>7, <1>8
  <1>10. Copies(t) = Cardinality(RowsAt(t))
    BY DEF Copies, RowsAt
  <1> QED BY <1>1, <1>9, <1>10

\* A query inside a job's range meets the row that covers it, and the file behind a reference.
LEMMA CatalogFindsJobsHolds == BarInv => CatalogFindsJobs
  <1> SUFFICES ASSUME BarInv, NEW j \in BarJobs, jobs[j].phase = "done",
                      NEW t \in jobs[j].start .. (jobs[j].end - 1)
      PROVE  /\ QueryCoverage(t, t + 1).coverage # {}
             /\ \A c \in QueryCoverage(t, t + 1).coverage : c.start <= jobs[j].start /\ c.end >= jobs[j].end
             /\ (\E b \in jobs[j].bars : b.at = t) =>
                  \E r \in QueryCoverage(t, t + 1).refs : \E p \in parts :
                     r.job = j /\ p.job = j /\ p.day = r.day /\ p.day = Day(t)
    BY DEF CatalogFindsJobs
  <1>1. PICK w : w = jobs[j]
    OBVIOUS
  <1>2. JobTrue(j, w) /\ w \in JobStates /\ w.phase = "done"
    BY <1>1 DEF BarInv, JobsTrue, JobTrue
  <1>3. /\ w.start \in Nat /\ w.end \in Nat /\ t \in Nat /\ w.start <= t /\ t < w.end
    <2>1. w.start \in Nat /\ w.end \in Nat
      BY <1>2, JobNumbers
    <2> QED BY <1>1, <2>1
  <1>4. PICK c \in Ranges : coverage = {c} /\ c.start <= w.start /\ c.end >= w.end
    BY <1>2 DEF JobTrue, RefsTrue, BarInv, StoresTrue
  <1>5. Overlaps(c, t, t + 1)
    <2>1. c.start \in Nat /\ c.end \in Nat
      BY <1>4, BarConstants DEF Ranges, Times, BarConstants
    <2>2. c.end > t /\ c.start < t + 1
      BY <1>3, <1>4, <2>1
    <2> QED BY <2>2 DEF Overlaps
  <1>6. QueryCoverage(t, t + 1).coverage = {c}
    BY <1>4, <1>5 DEF QueryCoverage
  <1>7. ASSUME NEW b \in w.bars, b.at = t
        PROVE  \E r \in QueryCoverage(t, t + 1).refs : \E p \in parts :
                  r.job = j /\ p.job = j /\ p.day = r.day /\ p.day = Day(t)
    <2>1. PICK r, p : r = [job |-> j, day |-> Day(t)] /\ p = PartFor(j, w, Day(t))
      OBVIOUS
    <2>2. Day(t) \in DaysOf(w.bars)
      BY <1>7 DEF DaysOf
    <2>3. r \in refs /\ p \in parts
      BY <1>2, <2>1, <2>2 DEF JobTrue, PartsTrue, RefsTrue
    <2>4. r.job = j /\ r.day = Day(t) /\ p.job = j /\ p.day = Day(t)
      BY <2>1 DEF PartFor
    <2>5. Day(t) \in Day(t) .. Day(t + 1)
      <3>1. Day(t) \in Nat /\ Day(t + 1) \in Nat /\ Day(t) <= Day(t + 1)
        <4>1. t + 1 \in Nat /\ t <= t + 1
          BY <1>3
        <4> QED BY <1>3, <4>1, DayIsNat, DaysGrow
      <3> QED BY <3>1
    <2>6. r \in QueryCoverage(t, t + 1).refs
      BY <2>3, <2>4, <2>5 DEF QueryCoverage
    <2> QED BY <2>3, <2>4, <2>6
  <1> QED BY <1>1, <1>4, <1>6, <1>7

\* Types, and the rest, are in the invariant.
LEMMA BarTypeHolds == BarInv /\ HalfTrue => BarTypeOK
  <1> SUFFICES ASSUME BarInv, HalfTrue PROVE BarTypeOK
    OBVIOUS
  <1>1. jobs \in [BarJobs -> JobStates]
    BY DEF BarInv, JobsTrue, JobTrue
  <1>2. coverage \subseteq Ranges /\ Cardinality(coverage) <= 1
    <2>1. CASE coverage = {}
      BY <2>1, FS_EmptySet
    <2>2. CASE \E c \in Ranges : coverage = {c}
      BY <2>2, FS_Singleton
    <2> QED BY <2>1, <2>2 DEF BarInv, StoresTrue
  <1>3. manifest \subseteq {[job |-> p.job, day |-> p.day] : p \in parts}
    BY DEF BarInv, ManifestTrue, Files
  <1>4. /\ parts \subseteq Parts /\ torn \in BOOLEAN /\ missing \subseteq MissingRanges
        /\ refs \subseteq DatasetRefs /\ overlapped \subseteq BarJobs /\ half \subseteq DatasetRefs
    BY DEF BarInv, StoresTrue, HalfTrue, HalfOf
  <1> QED BY <1>1, <1>2, <1>3, <1>4 DEF BarTypeOK, JobStates

\* The invariant has every part of the property.
LEMMA BarInvTells == BarInv /\ HalfTrue => CacheFaithful
  <1> SUFFICES ASSUME BarInv, HalfTrue PROVE CacheFaithful
    OBVIOUS
  <1>1. FailedFetchLeavesNothing
    <2>1. SUFFICES ASSUME NEW j \in BarJobs, jobs[j].phase \in {"failed", "noted"} \/ jobs[j].cursor < jobs[j].end,
                          NEW x \in parts \cup half \cup refs, x.job = j
          PROVE  FALSE
      BY DEF FailedFetchLeavesNothing
    <2>2. PICK w : w = jobs[j]
      OBVIOUS
    <2>3. JobTrue(j, w) /\ w \in JobStates
      BY <2>2 DEF BarInv, JobsTrue, JobTrue
    <2>4. w.end <= w.cursor /\ w.phase \in {"writing", "publishing", "written", "done", "dead"}
      <3>1. CASE x \in half
        BY <2>1, <2>2, <3>1 DEF HalfTrue, HalfOf
      <3> QED BY <2>1, <2>3, <3>1 DEF JobTrue, PartsTrue, RefsTrue
    <2>5. w.end \in Nat /\ w.cursor \in Nat
      BY <2>3, JobNumbers
    <2> QED BY <2>1, <2>2, <2>4, <2>5
  <1>2. ManifestComplete
    BY DEF BarInv, ManifestTrue
  <1>3. TornExplained
    BY DEF TornExplained, BarInv, TornTrue, Writing
  <1>4. HalfExplained
    <2>1. SUFFICES ASSUME NEW h \in half
          PROVE  /\ jobs[h.job].phase \in {"writing", "dead"}
                 /\ h \notin manifest \cup refs /\ \A p \in parts : FileOf(p.job, p.day) # h
      BY DEF HalfExplained
    <2>2. HalfOf(h) /\ manifest \subseteq Files
      BY DEF HalfTrue, BarInv, ManifestTrue
    <2> QED BY <2>2 DEF HalfOf, Files, FileOf
  <1> QED BY <1>1, <1>2, <1>3, <1>4, BarTypeHolds, FetchedIsLoadableHolds, CopiesExplainedHolds, CatalogFindsJobsHolds
          DEF CacheFaithful

\* Any jobs, request ranges, chunk length and row limit that fits a chunk: what was fetched is
\* loadable, listed and found, with no more copies than chunks and jobs explain.
THEOREM CacheStaysFaithful == BarSpec => []CacheFaithful
  <1>1. BarInit => HalfTrue
    <2>1. SUFFICES ASSUME BarInit PROVE HalfTrue
      OBVIOUS
    <2>2. half = {} /\ parts = {}
      BY <2>1 DEF BarInit
    <2> QED BY <2>2 DEF HalfTrue, TodoLeft
  <1>2. BarSpec => [](BarInv /\ HalfTrue)
    BY <1>1, BarInvInit, BarInvStep, HalfTrueStep, PTL DEF BarSpec
  <1> QED BY <1>2, BarInvTells, PTL

-----------------------------------------------------------------------------
(* The event log. *)

\* The records there are have been appended.
KnownRecords == records \cup archived \subseteq appended

\* The index names the record of a key, and an offset was given out once.
IndexNames ==
    /\ \A r \in appended : offsets[r.key] = r.offset
    /\ \A r, s \in appended : r.offset = s.offset => r = s

\* The inductive invariant.
LogInv == LogTypeOK /\ KnownRecords /\ IndexNames /\ NothingLost

-----------------------------------------------------------------------------
\* What an append returns for a known key is a record of the log or an error.
LEMMA LogAtType ==
    ASSUME NEW n, records \subseteq Records
    PROVE  RecordAt(n) \in Records \cup {NoRecord}
  BY DEF RecordAt

\* The types, the records that were appended and the index are kept by every action.
LEMMA LogTypes ==
    ASSUME LogTypeOK, [LogNext]_logVars
    PROVE  LogTypeOK'
  <1> USE PolicyAssumption DEF LogTypeOK
  <1>1. ASSUME NEW k \in Keys, NEW t \in 0 .. clock, AppendNew(k, t)
        PROVE  LogTypeOK'
    <2> DEFINE r == NewRecord(next, k, t)
    <2>1. r \in Records /\ r.offset = next
      BY DEF NewRecord, Records
    <2>2. next' = next + 1
      BY <1>1 DEF AppendNew
    <2>3. \A s \in appended : s.offset \in Nat
      BY DEF Records
    <2> HIDE DEF r
    <2>4. records' = records \cup {r} /\ appended' = appended \cup {r} /\ answer' = <<k, r>>
      BY <1>1 DEF AppendNew, r
    <2>5. \A s \in appended' : s.offset < next'
      BY <2>1, <2>2, <2>3, <2>4
    <2>6. offsets' \in [Keys -> Nat \cup {None}]
      BY <1>1 DEF AppendNew
    <2>7. QED BY <1>1, <2>1, <2>2, <2>4, <2>5, <2>6 DEF AppendNew
  <1>2. ASSUME NEW k \in Keys, AppendAgain(k)
        PROVE  LogTypeOK'
    <2>1. answer' \in (Keys \cup {None}) \X (Records \cup {NoRecord})
      BY <1>2, LogAtType DEF AppendAgain
    <2>2. QED BY <1>2, <2>1 DEF AppendAgain
  <1>3. CASE ApplyRetention
    BY <1>3 DEF ApplyRetention
  <1>4. CASE Tick
    BY <1>4 DEF Tick
  <1>5. CASE UNCHANGED logVars
    BY <1>5 DEF logVars
  <1>6. QED BY <1>1, <1>2, <1>3, <1>4, <1>5 DEF LogNext

\* The type invariant holds in every state.
THEOREM LogTypeCorrect == LogSpec => []LogTypeOK
  <1>1. LogInit => LogTypeOK
    BY PolicyAssumption DEF LogInit, LogTypeOK
  <1>2. LogTypeOK /\ [LogNext]_logVars => LogTypeOK'
    BY LogTypes
  <1>3. QED BY <1>1, <1>2, PTL DEF LogSpec

-----------------------------------------------------------------------------
\* An event that is not archived early enough is not purged either.
LEMMA KeptOrAged ==
    ASSUME LogTypeOK, ArchiveAfter <= Retention, NEW r \in Records
    PROVE  Kept(r) \/ Aged(r)
  BY PolicyAssumption DEF LogTypeOK, Kept, Aged, Records

\* Every action keeps the invariant.
LEMMA LogStep ==
    ASSUME LogInv, [LogNext]_logVars
    PROVE  LogInv'
  <1>1. LogTypeOK /\ LogTypeOK'
    BY LogTypes DEF LogInv
  <1> SUFFICES (KnownRecords /\ IndexNames /\ NothingLost)'
    BY <1>1 DEF LogInv
  <1>2. ASSUME NEW k \in Keys, NEW t \in 0 .. clock, AppendNew(k, t)
        PROVE  (KnownRecords /\ IndexNames /\ NothingLost)'
    <2> DEFINE r == NewRecord(next, k, t)
    <2>1. r.key = k /\ r.offset = next
      BY DEF NewRecord
    <2> HIDE DEF r
    <2>2. /\ records' = records \cup {r}
          /\ appended' = appended \cup {r}
          /\ archived' = archived
          /\ offsets' = [offsets EXCEPT ![k] = next]
          /\ offsets[k] = None
      BY <1>2 DEF AppendNew, r
    <2>3. (KnownRecords /\ NothingLost)'
      BY <2>2 DEF LogInv, KnownRecords, NothingLost
    <2>4. \A s \in appended : s.key \in Keys /\ s.offset \in Nat /\ s.offset < next
      BY <1>1 DEF LogTypeOK, Records
    <2>5. \A s \in appended : s.key # k
      BY <2>2, <2>4, PolicyAssumption DEF LogInv, IndexNames
    <2>6. next \in Nat /\ offsets \in [Keys -> Nat \cup {None}]
      BY <1>1 DEF LogTypeOK
    <2>7. \A s \in appended' : offsets'[s.key] = s.offset
      BY <2>1, <2>2, <2>4, <2>5, <2>6 DEF LogInv, IndexNames
    <2>8. \A s, u \in appended' : s.offset = u.offset => s = u
      BY <2>1, <2>2, <2>4, <2>6 DEF LogInv, IndexNames
    <2>9. QED BY <2>3, <2>7, <2>8 DEF IndexNames
  <1>3. ASSUME NEW k \in Keys, AppendAgain(k)
        PROVE  (KnownRecords /\ IndexNames /\ NothingLost)'
    BY <1>3 DEF AppendAgain, LogInv, KnownRecords, IndexNames, NothingLost
  <1>4. CASE ApplyRetention
    <2>1. \A r \in records : ArchiveAfter <= Retention => Kept(r) \/ Aged(r)
      BY <1>1, KeptOrAged DEF LogTypeOK
    <2>2. QED
      BY <1>4, <2>1 DEF ApplyRetention, LogInv, KnownRecords, IndexNames, NothingLost
  <1>5. CASE Tick
    BY <1>5 DEF Tick, LogInv, KnownRecords, IndexNames, NothingLost
  <1>6. CASE UNCHANGED logVars
    BY <1>6 DEF logVars, LogInv, KnownRecords, IndexNames, NothingLost
  <1>7. QED BY <1>2, <1>3, <1>4, <1>5, <1>6 DEF LogNext

\* The invariant holds in every state.
THEOREM LogInvHolds == LogSpec => []LogInv
  <1>1. LogInit => LogInv
    BY PolicyAssumption DEF LogInit, LogInv, LogTypeOK, KnownRecords, IndexNames, NothingLost
  <1>2. LogInv /\ [LogNext]_logVars => LogInv'
    BY LogStep
  <1>3. QED BY <1>1, <1>2, PTL DEF LogSpec

\* With archiving no later than the purge every record is in the log or in the
\* archive, for every order of event times.
THEOREM NothingIsLost == LogSpec => []NothingLost
  <1>1. LogInv => NothingLost
    BY DEF LogInv
  <1>2. QED BY <1>1, LogInvHolds, PTL

\* A key has one record and an offset belongs to one key.
THEOREM KeysAreUnique == LogSpec => []OneRecordPerKey
  <1>1. LogInv => OneRecordPerKey
    BY DEF LogInv, KnownRecords, IndexNames, OneRecordPerKey
  <1>2. QED BY <1>1, LogInvHolds, PTL

\* Appends and retention keep every record, and one for each key, for any keys and
\* any policy.
THEOREM LogIsKept == LogSpec => []LogKept
  <1>1. NothingLost /\ OneRecordPerKey => LogKept
    BY DEF LogKept
  <1>2. QED BY <1>1, NothingIsLost, KeysAreUnique, PTL
=============================================================================
