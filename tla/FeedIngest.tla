----------------------------- MODULE FeedIngest -----------------------------
(***************************************************************************)
(* The ingest adapter of service-data (market_data/ingest_adapter.py): it   *)
(* turns ticks of several streams into market-data events, drops a tick it  *)
(* has seen, raises alerts about order, age and clock, and emits a          *)
(* heartbeat that all its streams share.  The network below it may deliver  *)
(* a tick late, out of order or many times.                                 *)
(***************************************************************************)
EXTENDS Integers, FiniteSets, Sequences

CONSTANTS
    Ticks,            \* what the venues sent: [stream, seq, at, valid], at is NoTime
                      \* where it has no event_time
    StaleAfter,       \* stale_after
    HeartbeatEvery,   \* heartbeat_interval
    MaxSkew,          \* max_clock_skew
    SeenLimit,        \* keys a stream may keep (1024 in the code)
    SeenKept,         \* keys it keeps once it goes over (512 in the code)
    FeedMaxClock      \* bound: the clock stops here

FeedStreams == {p.stream : p \in Ticks}
NoTime == -1          \* Python's None where a sequence or a time may be absent

ASSUME FeedConstants ==
    /\ \A p \in Ticks : p.seq \in Nat /\ p.at \in Nat \cup {NoTime} /\ p.valid \in BOOLEAN
    /\ StaleAfter \in Nat /\ MaxSkew \in Nat /\ HeartbeatEvery \in Nat \ {0}
    /\ SeenLimit \in Nat /\ SeenKept \in Nat /\ SeenKept <= SeenLimit

VARIABLES
    feedNow,      \* received_at of the next tick
    feed,         \* stream -> [last, seen], the adapter's _StreamState
    heartbeat,    \* _last_heartbeat_at
    lastIngest,   \* when the adapter last answered
    keyed,        \* history: stream -> <<sequence, event_time>> of its events
    doubled,      \* history: stream -> those of two events
    calm          \* history: stream -> ticks that became events with no alert

feedVars == <<feedNow, feed, heartbeat, lastIngest, keyed, doubled, calm>>

-----------------------------------------------------------------------------
(* The alerts one tick raises. *)
FeedAlert(category, severity) == [category |-> category, severity |-> severity]

SequenceAlert(st, p) ==
    IF st.last = NoTime \/ p.seq > st.last THEN {}
    ELSE {FeedAlert("sequence", IF p.seq < st.last THEN "critical" ELSE "warning")}

\* A tick that brings no time happened when it was received.
EventTime(p) == IF p.at = NoTime THEN feedNow ELSE p.at

StaleAlert(p) ==
    IF feedNow - EventTime(p) > StaleAfter THEN {FeedAlert("stale_data", "warning")} ELSE {}

Skew(p) == IF feedNow >= EventTime(p) THEN feedNow - EventTime(p) ELSE EventTime(p) - feedNow

SkewAlert(p) ==
    IF Skew(p) <= MaxSkew THEN {}
    ELSE {FeedAlert("clock_skew", IF Skew(p) > 3 * MaxSkew THEN "critical" ELSE "warning")}

FeedAlerts(st, p) == SequenceAlert(st, p) \cup StaleAlert(p) \cup SkewAlert(p)

TickKey(p) == <<p.seq, EventTime(p)>>

(* Once over the limit the code keeps the last 512 of list(set): any of them. *)
SeenAfter(seen) ==
    IF Cardinality(seen) <= SeenLimit THEN {seen}
    ELSE {kept \in SUBSET seen : Cardinality(kept) = SeenKept}

HeartbeatDue == heartbeat = NoTime \/ feedNow - heartbeat >= HeartbeatEvery
MaybeHeartbeat == heartbeat' = IF HeartbeatDue THEN feedNow ELSE heartbeat

(* Mutant: the last sequence seen instead of the highest one. *)
LastForgetful(last, seq) == seq

LastAfter(last, seq) == IF seq > last THEN seq ELSE last

-----------------------------------------------------------------------------
FeedInit ==
    /\ feedNow = 0
    /\ feed = [s \in FeedStreams |-> [last |-> NoTime, seen |-> {}]]
    /\ heartbeat = NoTime
    /\ lastIngest = NoTime
    /\ keyed = [s \in FeedStreams |-> {}] /\ doubled = [s \in FeedStreams |-> {}]
    /\ calm = [s \in FeedStreams |-> <<>>]

IngestDuplicate(p) ==
    /\ TickKey(p) \in feed[p.stream].seen
    /\ MaybeHeartbeat
    /\ lastIngest' = feedNow
    /\ UNCHANGED <<feedNow, feed, keyed, doubled, calm>>

AcceptTick(p) ==
    LET st == feed[p.stream] IN
    /\ \E kept \in SeenAfter(st.seen \cup {TickKey(p)}) :
         feed' = [feed EXCEPT ![p.stream] = [last |-> LastAfter(st.last, p.seq), seen |-> kept]]
    /\ keyed' = [keyed EXCEPT ![p.stream] = @ \cup {TickKey(p)}]
    /\ doubled' = [doubled EXCEPT ![p.stream] = @ \cup (keyed[p.stream] \cap {TickKey(p)})]
    /\ calm' = IF FeedAlerts(st, p) = {} THEN [calm EXCEPT ![p.stream] = Append(@, p)] ELSE calm
    /\ MaybeHeartbeat
    /\ lastIngest' = feedNow
    /\ UNCHANGED feedNow

IngestNew(p) == p.valid /\ TickKey(p) \notin feed[p.stream].seen /\ AcceptTick(p)

(* A tick MarketDataEvent refuses raises out of ingest, before any state and *)
(* before the heartbeat: its alerts are lost with the result.                *)
IngestInvalid(p) ==
    /\ ~p.valid
    /\ TickKey(p) \notin feed[p.stream].seen
    /\ UNCHANGED feedVars

FeedTick ==
    /\ feedNow < FeedMaxClock
    /\ feedNow' = feedNow + 1
    /\ UNCHANGED <<feed, heartbeat, lastIngest, keyed, doubled, calm>>

FeedNext ==
    \/ \E p \in Ticks : IngestDuplicate(p) \/ IngestNew(p) \/ IngestInvalid(p)
    \/ FeedTick

FeedSpec == FeedInit /\ [][FeedNext]_feedVars

-----------------------------------------------------------------------------
(* Every variable of the adapter keeps its type, and an invalid tick never  *)
(* leaves a key behind (_StreamState, ingest_adapter.py:44-48).             *)
FeedTypeOK ==
    /\ feedNow \in Nat
    /\ feed \in [FeedStreams -> [last : Nat \cup {NoTime}, seen : SUBSET (Nat \X Nat)]]
    /\ heartbeat \in Nat \cup {NoTime}
    /\ lastIngest \in Nat \cup {NoTime}
    /\ keyed \in [FeedStreams -> SUBSET (Nat \X Nat)]
    /\ doubled \in [FeedStreams -> SUBSET (Nat \X Nat)]
    /\ calm \in [FeedStreams -> Seq(Ticks)]
    /\ \A s \in FeedStreams : \A k \in keyed[s] :
         \E p \in Ticks : p.valid /\ p.stream = s /\ p.seq = k[1] /\ p.at \in {k[2], NoTime}

(* Two events of a stream share their sequence and time only after it had   *)
(* more keys than it may remember: duplicates and replays within the limit   *)
(* are dropped (the dedupe_key test and the trim, ingest_adapter.py:91-103   *)
(* and 148-150).  A tick without a time is another event whenever it comes   *)
(* again, since its time is another.                                         *)
NoDoubleEvent ==
    \A s \in FeedStreams : doubled[s] # {} => Cardinality(keyed[s]) > SeenLimit

(* The events that raised no alert are a stream a consumer can trust as it  *)
(* stands: their sequences strictly increase, whatever arrived in between,  *)
(* late or again, with a time or without: a repetition that becomes an       *)
(* event is reported (ingest_adapter.py:79 with the max of line 146).        *)
CalmInOrder ==
    \A s \in FeedStreams : \A i, j \in DOMAIN calm[s] : i < j => calm[s][i].seq < calm[s][j].seq

(* As long as ticks are answered, duplicates included, no more than an      *)
(* interval goes by without a heartbeat (_maybe_heartbeat on both returns,  *)
(* ingest_adapter.py:104 and 151).                                          *)
HeartbeatFresh ==
    lastIngest # NoTime => heartbeat # NoTime /\ lastIngest - heartbeat < HeartbeatEvery

\* A consumer can trust the feed: no key twice within the memory of keys, the calm part
\* in order, and the heartbeat fresh while ticks are answered (ingest).
FeedTrusted ==
    /\ FeedTypeOK
    /\ NoDoubleEvent
    /\ CalmInOrder
    /\ HeartbeatFresh
=============================================================================
