------------------------------ MODULE WsReplay ------------------------------
(***************************************************************************)
(* Live events over WebSockets and their replay after a reconnect: the     *)
(* ConnectionManager of the control plane, its /ws endpoint, and the       *)
(* desktop's resumable topic stream with the reconnecting client below it. *)
(*                                                                         *)
(* The sends of publish_topic run as tasks of their own and the replay     *)
(* loop awaits every send, so live and replayed events share a socket in   *)
(* any interleaving; each of the two keeps its own order.  Control         *)
(* messages the client does not act on are left out.                       *)
(***************************************************************************)
EXTENDS Integers, Sequences

CONSTANTS
    Clients,        \* mounted topic streams
    Topics,         \* topics of the server
    TopicsOf,       \* the topics each client subscribes to
    None,           \* an undefined cursor
    Window,         \* ws_replay_window
    ReplayEnabled,  \* ws_replay_enabled
    MaxSeq,         \* bound on published events
    MaxDrops,       \* bound on lost connections and effect re-runs
    MaxRestarts     \* bound on restarts of the control plane

ASSUME WsAssumption ==
    /\ None \notin Nat
    /\ TopicsOf \in [Clients -> SUBSET Topics]
    /\ Window \in Nat \ {0}
    /\ ReplayEnabled \in BOOLEAN
    /\ MaxSeq \in Nat
    /\ MaxDrops \in Nat
    /\ MaxRestarts \in Nat

VARIABLES
    seq,       \* _seq: number of the latest event
    topicOf,   \* topic of every event since the server started
    buffer,    \* _event_buffer: numbers of the retained events
    conn,      \* the connection of each client, and its endpoint coroutine
    pending,   \* live events whose send task has not run
    wire,      \* what was written to the socket and not received
    cursor,    \* lastSeqRef of the stream
    expected,  \* expectedNextSeq of the connection closure
    received,  \* history: events the client received
    noticed,   \* history: the latest event when the client last ran a resync
    base,      \* history: the latest event when it last subscribed without a cursor
    drops,     \* lost connections so far
    restarts   \* restarts so far

server == <<seq, topicOf, buffer>>
stream == <<cursor, expected, received, noticed>>
wsVars == <<seq, topicOf, buffer, conn, pending, wire, cursor, expected,
          received, noticed, base, drops, restarts>>

\* down, the subscribe message is on its way, acknowledged, or past the replay;
\* todo holds the events the replay loop still has to send; it sends them in
\* the buffer's order, which ascends.
ConnPc == {"down", "opened", "subscribed", "live"}
Conn(pc, last, todo) == [pc |-> pc, last |-> last, todo |-> todo]
Down == Conn("down", None, {})

\* Wire messages: event numbers, and 0 for replay_required.
ReplayRequired == 0

WsInit ==
    /\ seq = 0
    /\ topicOf = << >>
    /\ buffer = << >>
    /\ conn = [c \in Clients |-> Down]
    /\ pending = [c \in Clients |-> << >>]
    /\ wire = [c \in Clients |-> << >>]
    /\ cursor = [c \in Clients |-> None]
    /\ expected = [c \in Clients |-> None]
    /\ received = [c \in Clients |-> {}]
    /\ noticed = [c \in Clients |-> 0]
    /\ base = [c \in Clients |-> 0]
    /\ drops = 0
    /\ restarts = 0

-----------------------------------------------------------------------------
\* The server.

Registered(c) == conn[c].pc \in {"subscribed", "live"}

\* deque(maxlen = Window).
Retain(b, n) ==
    LET grown == Append(b, n) IN IF Len(grown) > Window THEN Tail(grown) ELSE grown

\* publish_topic: number, buffer and choice of sockets in one go, the sends later.
PublishTopic(t) ==
    /\ seq < MaxSeq
    /\ seq' = seq + 1
    /\ topicOf' = Append(topicOf, t)
    /\ buffer' = Retain(buffer, seq + 1)
    /\ pending' = [c \in Clients |->
         IF Registered(c) /\ t \in TopicsOf[c] THEN Append(pending[c], seq + 1) ELSE pending[c]]
    /\ UNCHANGED <<conn, wire, stream, base, drops, restarts>>

\* One task of _send_many; asyncio runs those of one socket in their order.
LiveSend(c) ==
    /\ pending[c] # << >>
    /\ wire' = [wire EXCEPT ![c] = Append(@, Head(pending[c]))]
    /\ pending' = [pending EXCEPT ![c] = Tail(@)]
    /\ UNCHANGED <<server, conn, stream, base, drops, restarts>>

\* The subscribe message, up to the await of its acknowledgement.  Only a
\* connection with a cursor goes on to the replay, and only once.
Subscribe(c) ==
    /\ conn[c].pc = "opened"
    /\ conn' = [conn EXCEPT ![c].pc =
         IF ReplayEnabled /\ conn[c].last # None THEN "subscribed" ELSE "live"]
    /\ base' = [base EXCEPT ![c] = IF conn[c].last = None THEN seq ELSE @]
    /\ UNCHANGED <<server, pending, wire, stream, drops, restarts>>

\* Mutant of TooOld: off by one.
TooOldByOne(last) == buffer # << >> /\ last < Head(buffer) - 2

TooOld(last) == buffer # << >> /\ last < Head(buffer) - 1

Replayable(c) ==
    {n \in {buffer[i] : i \in DOMAIN buffer} : n > conn[c].last /\ topicOf[n] \in TopicsOf[c]}

\* replay_since up to its first send: the events to replay are fixed here.  A
\* cursor that is too old is given up; one that is not stays in conn as history.
StartReplay(c) ==
    /\ conn[c].pc = "subscribed"
    /\ IF TooOld(conn[c].last)
       THEN /\ wire' = [wire EXCEPT ![c] = Append(@, ReplayRequired)]
            /\ conn' = [conn EXCEPT ![c].pc = "live", ![c].last = None]
       ELSE /\ conn' = [conn EXCEPT ![c].pc = "live", ![c].todo = Replayable(c)]
            /\ UNCHANGED wire
    /\ UNCHANGED <<server, pending, stream, base, drops, restarts>>

ReplaySend(c) ==
    /\ \E n \in conn[c].todo :
         /\ \A m \in conn[c].todo : n <= m
         /\ wire' = [wire EXCEPT ![c] = Append(@, n)]
         /\ conn' = [conn EXCEPT ![c].todo = @ \ {n}]
    /\ UNCHANGED <<server, pending, stream, base, drops, restarts>>

-----------------------------------------------------------------------------
\* The client.

\* connect: the socket opens with the cursor as last_seq, and subscribes.
Open(c) ==
    /\ conn[c].pc = "down"
    /\ conn' = [conn EXCEPT ![c] = Conn("opened", cursor[c], {})]
    /\ UNCHANGED <<server, pending, wire, stream, base, drops, restarts>>

\* The gap checks of the reconnecting client and of the hook.
Missed(c, n) ==
    \/ expected[c] # None /\ n > expected[c]
    \/ cursor[c] # None /\ n > cursor[c] + 1

\* A gap starts a resync; the cursor follows the event, backwards too.
Receive(c) ==
    /\ wire[c] # << >>
    /\ Head(wire[c]) # ReplayRequired
    /\ LET n == Head(wire[c]) IN
         /\ noticed' = [noticed EXCEPT ![c] = IF Missed(c, n) THEN seq ELSE @]
         /\ cursor' = [cursor EXCEPT ![c] = n]
         /\ expected' = [expected EXCEPT ![c] = n + 1]
         /\ received' = [received EXCEPT ![c] = @ \cup {n}]
    /\ wire' = [wire EXCEPT ![c] = Tail(@)]
    /\ UNCHANGED <<server, conn, pending, base, drops, restarts>>

\* Mutant of ReceiveReplayRequired: the message starts no resync.
IgnoreReplayRequired(c) ==
    /\ wire[c] # << >>
    /\ Head(wire[c]) = ReplayRequired
    /\ wire' = [wire EXCEPT ![c] = Tail(@)]
    /\ UNCHANGED <<server, conn, pending, stream, base, drops, restarts>>

\* onReplayMiss for the server's replay_required.
ReceiveReplayRequired(c) ==
    /\ wire[c] # << >>
    /\ Head(wire[c]) = ReplayRequired
    /\ noticed' = [noticed EXCEPT ![c] = seq]
    /\ cursor' = [cursor EXCEPT ![c] = None]
    /\ wire' = [wire EXCEPT ![c] = Tail(@)]
    /\ UNCHANGED <<server, conn, pending, expected, received, base, drops, restarts>>

Disconnect(c) ==
    /\ conn' = [conn EXCEPT ![c] = Down]
    /\ pending' = [pending EXCEPT ![c] = << >>]
    /\ wire' = [wire EXCEPT ![c] = << >>]

\* The connection breaks; what was on its way is gone.
Drop(c) ==
    /\ conn[c].pc # "down"
    /\ drops < MaxDrops
    /\ drops' = drops + 1
    /\ Disconnect(c)
    /\ UNCHANGED <<server, stream, base, restarts>>

\* The effect of the hook runs again: the connection is closed, and a new
\* closure expects the cursor itself as the next number.
Remount(c) ==
    /\ drops < MaxDrops
    /\ drops' = drops + 1
    /\ Disconnect(c)
    /\ expected' = [expected EXCEPT ![c] = cursor[c]]
    /\ UNCHANGED <<server, cursor, received, noticed, base, restarts>>

\* The control plane stops and starts: numbering begins anew, clients keep
\* their cursors.  The histories are about the new server.
Restart ==
    /\ restarts < MaxRestarts
    /\ restarts' = restarts + 1
    /\ seq' = 0
    /\ topicOf' = << >>
    /\ buffer' = << >>
    /\ conn' = [c \in Clients |-> Down]
    /\ pending' = [c \in Clients |-> << >>]
    /\ wire' = [c \in Clients |-> << >>]
    /\ received' = [c \in Clients |-> {}]
    /\ noticed' = [c \in Clients |-> 0]
    /\ base' = [c \in Clients |-> 0]
    /\ UNCHANGED <<cursor, expected, drops>>

ServerStep(c) == LiveSend(c) \/ Subscribe(c) \/ StartReplay(c) \/ ReplaySend(c)
ReaderStep(c) == Open(c) \/ Receive(c) \/ ReceiveReplayRequired(c)

WsNext ==
    \/ \E t \in Topics : PublishTopic(t)
    \/ \E c \in Clients : ServerStep(c) \/ ReaderStep(c) \/ Drop(c) \/ Remount(c)
    \/ Restart

WsSpec == WsInit /\ [][WsNext]_wsVars

\* The event loop runs every task and coroutine on, and the client reconnects
\* and reads its socket.
WsFairness ==
    \A c \in Clients :
        /\ WF_wsVars(LiveSend(c))
        /\ WF_wsVars(Subscribe(c) \/ StartReplay(c) \/ ReplaySend(c))
        /\ WF_wsVars(ReaderStep(c))

WsLiveSpec == WsSpec /\ WsFairness

-----------------------------------------------------------------------------
(* Properties. *)

Numbers == 1 .. MaxSeq

\* Type invariant; the retained events are the latest ones, Window at most.
WsTypeOK ==
    /\ seq \in 0 .. MaxSeq
    /\ topicOf \in Seq(Topics) /\ Len(topicOf) = seq
    /\ buffer \in Seq(Numbers)
    /\ Len(buffer) = IF seq < Window THEN seq ELSE Window
    /\ \A i \in DOMAIN buffer : buffer[i] = seq - Len(buffer) + i
    /\ conn \in [Clients -> [pc : ConnPc, last : Numbers \cup {None}, todo : SUBSET Numbers]]
    /\ pending \in [Clients -> Seq(Numbers)]
    /\ wire \in [Clients -> Seq(0 .. MaxSeq)]
    /\ cursor \in [Clients -> Numbers \cup {None}]
    /\ expected \in [Clients -> 1 .. (MaxSeq + 1) \cup {None}]
    /\ received \in [Clients -> SUBSET Numbers]
    /\ noticed \in [Clients -> 0 .. MaxSeq]
    /\ base \in [Clients -> 0 .. MaxSeq]
    /\ drops \in 0 .. MaxDrops
    /\ restarts \in 0 .. MaxRestarts

In(n, s) == \E i \in DOMAIN s : s[i] = n

\* The events of the client's topics.
Wanted(c) == {n \in 1 .. seq : topicOf[n] \in TopicsOf[c]}

Resumed(c) ==
    conn[c].pc = "live" /\ conn[c].last # None /\ ReplayEnabled =>
        \A n \in Wanted(c) : n > conn[c].last =>
            n \in received[c] \/ In(n, wire[c]) \/ n \in conn[c].todo \/ In(n, pending[c])

\* A connection that resumed and was not told replay_required brings every
\* event after its cursor, in whatever order live and replayed ones arrive:
\* none falls between the replay's snapshot and the live sends.
ResumeComplete == \A c \in Clients : Resumed(c)

Accounted(c) ==
    restarts = 0 /\ cursor[c] # None =>
        \A n \in Wanted(c) : base[c] < n /\ n <= cursor[c] => n \in received[c] \/ n <= noticed[c]

\* Nothing is lost in silence: until the server restarts, every event up to the
\* cursor was received, or published before a resync, or before the stream
\* began without a cursor.
NoSilentLoss == \A c \in Clients : Accounted(c)

\* A stream is complete or knows that it is not: a resumed connection brings all that came
\* after its cursor, and what never comes is noticed (replay_since, onReplayMiss).
StreamComplete ==
    /\ WsTypeOK
    /\ ResumeComplete
    /\ NoSilentLoss

\* A client with a cursor gets, or is told to resync for, every event of its
\* topics, through broken connections and effect re-runs, until the server
\* restarts.
EventReaches ==
    \A c \in Clients : \A n \in Numbers :
        (n \in Wanted(c) /\ n > base[c] /\ cursor[c] # None)
            ~> (n \in received[c] \/ n <= noticed[c] \/ restarts > 0)

\* Claims of the documentation.

\* ADR-ws-http-connectivity-contract.md: a cursor outside the retained window
\* is answered by replay_required.
InsideWindow(last) == last <= seq /\ ~TooOld(last)

OutsideWindowAnswered ==
    [][\A c \in Clients :
         conn[c].pc = "subscribed" /\ conn'[c].pc = "live" /\ ~InsideWindow(conn[c].last)
            => In(ReplayRequired, wire'[c])]_wsVars
=============================================================================
