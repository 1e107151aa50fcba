------------------------ MODULE LiveUpdates_proofs ------------------------
(* Proofs about the live events of the desktop: that a stream is complete or knows that *)
(* it is not, and that the page of a job repairs the losses it notices, or has a reason  *)
(* why not.                                                                              *)
EXTENDS WsReplay, TopicStream, TLAPS

-----------------------------------------------------------------------------
(* The stream over WebSockets. *)

\* The event numbers of a queue ascend (replay_required has no number).
Ascending(s) == \A i, j \in DOMAIN s : i < j /\ s[i] # 0 /\ s[j] # 0 => s[i] < s[j]

Below(s, t) == \A i \in DOMAIN s, j \in DOMAIN t : s[i] < t[j]

\* What the state of a connection says of its queues and of the client's cursor.
Conducted(c) ==
    /\ conn[c].pc \in {"down", "opened"} => wire[c] = << >> /\ pending[c] = << >>
    /\ conn[c].todo # {} => conn[c].pc = "live" /\ conn[c].last # None
    /\ conn[c].pc = "subscribed" => conn[c].last # None
    /\ conn[c].pc = "opened" => conn[c].last = cursor[c]
    /\ conn[c].pc # "down" /\ conn[c].last # None => cursor[c] # None
    /\ In(0, wire[c]) => conn[c].pc = "live" /\ conn[c].last = None

\* Live sends keep the order of the events; only a replay mixes with them.
Ordered(c) ==
    /\ Ascending(pending[c])
    /\ \A i \in DOMAIN pending[c] : pending[c][i] <= seq
    /\ \A i \in DOMAIN wire[c] : wire[c][i] <= seq
    /\ \A n \in conn[c].todo : n <= seq
    /\ conn[c].pc # "live" \/ conn[c].last = None =>
         Ascending(wire[c]) /\ Below(wire[c], pending[c])

\* A client without a cursor still gets, or has noticed, all since it subscribed.
FreshComplete(c) ==
    cursor[c] = None /\ conn[c].pc = "live" =>
        \A n \in Wanted(c) : n > base[c] =>
            n <= noticed[c] \/ n \in received[c] \/ In(n, wire[c]) \/ In(n, pending[c])

CursorCounts(c) == restarts = 0 /\ cursor[c] # None => cursor[c] <= seq

\* The length, the domain and the elements of a sequence.
LEMMA SeqFacts ==
    ASSUME NEW S, NEW s \in Seq(S)
    PROVE  /\ Len(s) \in Nat /\ DOMAIN s = 1 .. Len(s)
           /\ \A i \in DOMAIN s : s[i] \in S
  OBVIOUS

\* What Append does to the length and to the elements.
LEMMA AppendFacts ==
    ASSUME NEW S, NEW s \in Seq(S), NEW e \in S
    PROVE  /\ Append(s, e) \in Seq(S)
           /\ Len(Append(s, e)) = Len(s) + 1
           /\ DOMAIN Append(s, e) = 1 .. (Len(s) + 1)
           /\ \A i \in 1 .. Len(s) : Append(s, e)[i] = s[i]
           /\ Append(s, e)[Len(s) + 1] = e
  OBVIOUS

\* What Head and Tail are, element by element.
LEMMA TailFacts ==
    ASSUME NEW S, NEW s \in Seq(S), s # << >>
    PROVE  /\ Tail(s) \in Seq(S)
           /\ Head(s) \in S /\ Head(s) = s[1] /\ Len(s) > 0
           /\ Len(Tail(s)) = Len(s) - 1
           /\ DOMAIN Tail(s) = 1 .. (Len(s) - 1)
           /\ \A i \in 1 .. (Len(s) - 1) : Tail(s)[i] = s[i + 1]
  OBVIOUS

\* What is appended to a queue is in it, next to what was.
LEMMA InAppend ==
    ASSUME NEW S, NEW s \in Seq(S), NEW e \in S
    PROVE  \A n : In(n, Append(s, e)) <=> In(n, s) \/ n = e
  <1> TAKE n
  <1>1. DOMAIN s = 1 .. Len(s) /\ Len(s) \in Nat
    OBVIOUS
  <1> QED BY <1>1, AppendFacts DEF In

\* What is in a queue is its head, or in what the head leaves.
LEMMA InTail ==
    ASSUME NEW S, NEW s \in Seq(S), s # << >>
    PROVE  \A n : In(n, s) <=> In(n, Tail(s)) \/ n = Head(s)
  <1> TAKE n
  <1>1. DOMAIN s = 1 .. Len(s) /\ Len(s) \in Nat
    OBVIOUS
  <1>2. ASSUME In(n, s) PROVE In(n, Tail(s)) \/ n = Head(s)
    <2>1. PICK i \in 1 .. Len(s) : s[i] = n
      BY <1>1, <1>2 DEF In
    <2>2. CASE i = 1
      BY <2>1, <2>2, TailFacts
    <2>3. CASE i # 1
      <3>1. i - 1 \in 1 .. (Len(s) - 1) /\ Tail(s)[i - 1] = n
        BY <2>1, <2>3, <1>1, TailFacts
      <3> QED BY <3>1, TailFacts DEF In
    <2> QED BY <2>2, <2>3
  <1>3. ASSUME In(n, Tail(s)) \/ n = Head(s) PROVE In(n, s)
    BY <1>1, <1>3, TailFacts DEF In
  <1> QED BY <1>2, <1>3

\* A queue still ascends with a greater number, or with replay_required, at its end.
LEMMA AscendingAppend ==
    ASSUME NEW s \in Seq(Nat), NEW e \in Nat, Ascending(s),
           e = 0 \/ \A i \in DOMAIN s : s[i] < e
    PROVE  Ascending(Append(s, e))
  <1>1. DOMAIN s = 1 .. Len(s) /\ Len(s) \in Nat
    OBVIOUS
  <1> QED BY <1>1, AppendFacts DEF Ascending

\* A queue still ascends without its head, which is below what it leaves.
LEMMA AscendingTail ==
    ASSUME NEW s \in Seq(Nat), s # << >>, Ascending(s)
    PROVE  Ascending(Tail(s)) /\ (Head(s) # 0 => \A n \in Nat : In(n, Tail(s)) /\ n # 0 => Head(s) < n)
  <1>1. DOMAIN s = 1 .. Len(s) /\ Len(s) \in Nat
    OBVIOUS
  <1>2. Ascending(Tail(s))
    <2>1. \A i \in DOMAIN Tail(s) : i + 1 \in DOMAIN s /\ Tail(s)[i] = s[i + 1] /\ i \in Nat
      BY <1>1, TailFacts
    <2>2. \A i, j \in DOMAIN Tail(s) : i < j => i + 1 < j + 1
      BY <2>1
    <2> QED BY <2>1, <2>2 DEF Ascending
  <1>3. ASSUME Head(s) # 0, NEW n \in Nat, In(n, Tail(s)), n # 0 PROVE Head(s) < n
    <2>1. PICK i \in 1 .. (Len(s) - 1) : Tail(s)[i] = n
      BY <1>3, TailFacts DEF In
    <2>2. s[i + 1] = n /\ s[1] = Head(s) /\ 1 < i + 1 /\ i + 1 \in DOMAIN s /\ 1 \in DOMAIN s
      BY <1>1, <2>1, TailFacts
    <2> QED BY <1>3, <2>2 DEF Ascending
  <1> QED BY <1>2, <1>3

\* Moving the head of a queue to the end of another one that is below it.
LEMMA MoveKeepsOrder ==
    ASSUME NEW s \in Seq(Nat), NEW t \in Seq(Nat), t # << >>, ~In(0, t),
           Ascending(t), Ascending(s), Below(s, t)
    PROVE  Ascending(Append(s, Head(t))) /\ Below(Append(s, Head(t)), Tail(t))
  <1>1. /\ DOMAIN s = 1 .. Len(s) /\ Len(s) \in Nat
        /\ DOMAIN t = 1 .. Len(t) /\ Len(t) \in Nat
        /\ \A i \in 1 .. Len(s) : s[i] \in Nat
    OBVIOUS
  <1>2. Head(t) \in Nat /\ Head(t) = t[1] /\ 1 \in DOMAIN t
    BY <1>1, TailFacts
  <1>3. \A i \in DOMAIN s : s[i] < Head(t)
    BY <1>2 DEF Below
  <1>4. Ascending(Append(s, Head(t)))
    BY <1>2, <1>3, AscendingAppend
  <1>5. \A j \in DOMAIN Tail(t) : j + 1 \in DOMAIN t /\ Tail(t)[j] = t[j + 1] /\ t[1] < t[j + 1]
    <2>1. \A j \in DOMAIN Tail(t) : j + 1 \in DOMAIN t /\ Tail(t)[j] = t[j + 1] /\ 1 < j + 1
      BY <1>1, TailFacts
    <2> QED BY <1>2, <2>1 DEF Ascending, In
  <1>6. \A i \in DOMAIN Append(s, Head(t)) : Append(s, Head(t))[i] = Head(t) \/ (i \in DOMAIN s /\ Append(s, Head(t))[i] = s[i])
    BY <1>1, <1>2, AppendFacts
  <1>7. Below(Append(s, Head(t)), Tail(t))
    BY <1>2, <1>5, <1>6 DEF Below
  <1> QED BY <1>4, <1>7

\* Appending above a queue.
LEMMA BelowAppend ==
    ASSUME NEW s \in Seq(Nat), NEW t \in Seq(Nat), NEW e \in Nat, Below(s, t),
           \A i \in DOMAIN s : s[i] < e
    PROVE  Below(s, Append(t, e))
  <1>1. DOMAIN t = 1 .. Len(t) /\ Len(t) \in Nat
    OBVIOUS
  <1>2. \A j \in DOMAIN Append(t, e) : Append(t, e)[j] = e \/ (j \in DOMAIN t /\ Append(t, e)[j] = t[j])
    BY <1>1, AppendFacts
  <1> QED BY <1>2 DEF Below

-----------------------------------------------------------------------------
ConnType == [pc : ConnPc, last : Numbers \cup {None}, todo : SUBSET Numbers]

\* The connection and the queues after a disconnect have their types.
LEMMA DownTyped ==
    /\ Down \in ConnType
    /\ << >> \in Seq(Numbers) /\ << >> \in Seq(0 .. MaxSeq)
  BY DEF Down, Conn, ConnPc, ConnType

\* Disconnect keeps the types of the connections and of their queues.
LEMMA DisconnectTyped ==
    ASSUME WsTypeOK, NEW c \in Clients, Disconnect(c)
    PROVE  /\ conn' \in [Clients -> ConnType]
           /\ pending' \in [Clients -> Seq(Numbers)]
           /\ wire' \in [Clients -> Seq(0 .. MaxSeq)]
  <1>1. conn' \in [Clients -> ConnType]
    BY DownTyped DEF Disconnect, WsTypeOK, ConnType
  <1>2. pending' \in [Clients -> Seq(Numbers)]
    BY DownTyped DEF Disconnect, WsTypeOK
  <1>3. wire' \in [Clients -> Seq(0 .. MaxSeq)]
    BY DownTyped DEF Disconnect, WsTypeOK
  <1> QED BY <1>1, <1>2, <1>3

\* The type invariant is inductive; the buffer keeps the latest events (publish_topic).
LEMMA StreamTyped == WsTypeOK /\ [WsNext]_wsVars => WsTypeOK'
  <1> SUFFICES ASSUME WsTypeOK, [WsNext]_wsVars PROVE WsTypeOK'
    OBVIOUS
  <1> USE WsAssumption
  <1>1. ASSUME NEW t \in Topics, PublishTopic(t) PROVE WsTypeOK'
    <2>1. seq + 1 \in Numbers /\ seq \in Nat
      BY <1>1 DEF PublishTopic, WsTypeOK, Numbers
    <2>2. topicOf' \in Seq(Topics) /\ Len(topicOf') = seq'
      BY <1>1, AppendFacts DEF PublishTopic, WsTypeOK
    <2>3. /\ buffer' \in Seq(Numbers)
          /\ Len(buffer') = IF seq' < Window THEN seq' ELSE Window
          /\ \A i \in DOMAIN buffer' : buffer'[i] = seq' - Len(buffer') + i
      <3> DEFINE grown == Append(buffer, seq + 1)
      <3>1. /\ grown \in Seq(Numbers) /\ Len(grown) = Len(buffer) + 1
            /\ \A i \in 1 .. Len(grown) : grown[i] = seq + 1 - Len(grown) + i
        <4>1. buffer \in Seq(Numbers) /\ Len(buffer) \in Nat /\ DOMAIN buffer = 1 .. Len(buffer)
          BY DEF WsTypeOK
        <4>2. /\ grown \in Seq(Numbers) /\ Len(grown) = Len(buffer) + 1
              /\ \A i \in 1 .. Len(buffer) : grown[i] = buffer[i]
              /\ grown[Len(buffer) + 1] = seq + 1
          BY <2>1, <4>1, AppendFacts
        <4>3. \A i \in 1 .. Len(buffer) : buffer[i] = seq - Len(buffer) + i
          BY <4>1 DEF WsTypeOK
        <4> HIDE DEF grown
        <4>4. ASSUME NEW i \in 1 .. Len(grown) PROVE grown[i] = seq + 1 - Len(grown) + i
          <5>1. CASE i = Len(buffer) + 1
            BY <2>1, <4>1, <4>2, <5>1
          <5>2. CASE i # Len(buffer) + 1
            BY <2>1, <4>1, <4>2, <4>3, <5>2
          <5> QED BY <5>1, <5>2
        <4> QED BY <4>2, <4>4
      <3>2. CASE Len(grown) > Window
        <4>1. buffer' = Tail(grown) /\ seq' = seq + 1
          BY <1>1, <3>2 DEF PublishTopic, Retain
        <4> HIDE DEF grown
        <4>2. grown # << >> /\ Len(buffer) = Window /\ seq >= Window
          BY <3>1, <3>2, <2>1 DEF WsTypeOK
        <4> QED BY <3>1, <4>1, <4>2, <2>1, TailFacts
      <3>3. CASE ~(Len(grown) > Window)
        <4>1. buffer' = grown /\ seq' = seq + 1
          BY <1>1, <3>3 DEF PublishTopic, Retain
        <4>2. seq < Window /\ Len(buffer) = seq
          BY <3>1, <3>3, <2>1 DEF WsTypeOK
        <4> HIDE DEF grown
        <4> QED BY <3>1, <4>1, <4>2, <2>1
      <3> QED BY <3>2, <3>3
    <2>4. pending' \in [Clients -> Seq(Numbers)]
      <3>1. \A c \in Clients : Append(pending[c], seq + 1) \in Seq(Numbers) /\ pending[c] \in Seq(Numbers)
        BY <2>1, AppendFacts DEF WsTypeOK
      <3> QED BY <1>1, <3>1 DEF PublishTopic
    <2>5. seq' \in 0 .. MaxSeq
      BY <1>1, <2>1 DEF PublishTopic, Numbers
    <2> QED BY <1>1, <2>2, <2>3, <2>4, <2>5 DEF PublishTopic, WsTypeOK, stream
  <1>2. ASSUME NEW c \in Clients, LiveSend(c) PROVE WsTypeOK'
    <2>1. Head(pending[c]) \in 0 .. MaxSeq /\ Tail(pending[c]) \in Seq(Numbers)
      <3>1. pending[c] \in Seq(Numbers) /\ pending[c] # << >>
        BY <1>2 DEF LiveSend, WsTypeOK
      <3>2. Head(pending[c]) \in Numbers /\ Tail(pending[c]) \in Seq(Numbers)
        BY <3>1, TailFacts
      <3> QED BY <3>2 DEF Numbers
    <2>2. wire' \in [Clients -> Seq(0 .. MaxSeq)] /\ pending' \in [Clients -> Seq(Numbers)]
      BY <1>2, <2>1 DEF LiveSend, WsTypeOK
    <2> QED BY <1>2, <2>2 DEF LiveSend, WsTypeOK, server, stream
  <1>3. ASSUME NEW c \in Clients, Subscribe(c) PROVE WsTypeOK'
    <2>1. conn' \in [Clients -> ConnType]
      <3>1. /\ [conn[c] EXCEPT !.pc = "live"] \in ConnType
            /\ [conn[c] EXCEPT !.pc = "subscribed"] \in ConnType
        <4>1. conn[c] \in ConnType
          BY DEF WsTypeOK, ConnType
        <4> QED BY <4>1 DEF ConnPc, ConnType
      <3>2. conn' = [conn EXCEPT ![c] = [conn[c] EXCEPT !.pc =
              IF ReplayEnabled /\ conn[c].last # None THEN "subscribed" ELSE "live"]]
        BY <1>3 DEF Subscribe
      <3>3. conn \in [Clients -> ConnType]
        BY DEF WsTypeOK, ConnType
      <3> QED BY <3>1, <3>2, <3>3
    <2> QED BY <1>3, <2>1 DEF Subscribe, WsTypeOK, server, stream, ConnType
  <1>4. ASSUME NEW c \in Clients, StartReplay(c) PROVE WsTypeOK'
    <2>1. Replayable(c) \subseteq Numbers
      BY DEF Replayable, WsTypeOK
    <2>2. CASE TooOld(conn[c].last)
      <3>1. conn' = [conn EXCEPT ![c] = [conn[c] EXCEPT !.pc = "live", !.last = None]]
        BY <1>4, <2>2 DEF StartReplay
      <3>2. [conn[c] EXCEPT !.pc = "live", !.last = None] \in ConnType
        <4>1. conn[c] \in ConnType
          BY DEF WsTypeOK, ConnType
        <4> QED BY <4>1 DEF ConnPc, ConnType
      <3>3. conn' \in [Clients -> ConnType]
        BY <3>1, <3>2 DEF WsTypeOK, ConnType
      <3>4. wire' = [wire EXCEPT ![c] = Append(wire[c], 0)]
        BY <1>4, <2>2 DEF StartReplay, ReplayRequired
      <3>5. wire' \in [Clients -> Seq(0 .. MaxSeq)]
        BY <3>4, AppendFacts DEF WsTypeOK
      <3> QED BY <1>4, <3>3, <3>5 DEF StartReplay, WsTypeOK, server, stream, ConnType
    <2>3. CASE ~TooOld(conn[c].last)
      <3>1. /\ conn' = [conn EXCEPT ![c] = [conn[c] EXCEPT !.pc = "live", !.todo = Replayable(c)]]
            /\ UNCHANGED wire
        BY <1>4, <2>3 DEF StartReplay
      <3>2. [conn[c] EXCEPT !.pc = "live", !.todo = Replayable(c)] \in ConnType
        <4>1. conn[c] \in ConnType
          BY DEF WsTypeOK, ConnType
        <4> QED BY <2>1, <4>1 DEF ConnPc, ConnType
      <3>3. conn' \in [Clients -> ConnType]
        BY <3>1, <3>2 DEF WsTypeOK, ConnType
      <3> QED BY <1>4, <3>1, <3>3 DEF StartReplay, WsTypeOK, server, stream, ConnType
    <2> QED BY <2>2, <2>3
  <1>5. ASSUME NEW c \in Clients, ReplaySend(c) PROVE WsTypeOK'
    <2>1. PICK n \in conn[c].todo : /\ wire' = [wire EXCEPT ![c] = Append(@, n)]
                                    /\ conn' = [conn EXCEPT ![c].todo = @ \ {n}]
      BY <1>5 DEF ReplaySend
    <2>2. n \in 0 .. MaxSeq
      BY DEF WsTypeOK, Numbers
    <2>3. conn' \in [Clients -> ConnType]
      <3>1. conn \in [Clients -> ConnType]
        BY DEF WsTypeOK, ConnType
      <3>2. [conn[c] EXCEPT !.todo = conn[c].todo \ {n}] \in ConnType
        BY <3>1 DEF ConnType
      <3> QED BY <2>1, <3>1, <3>2
    <2>4. wire' \in [Clients -> Seq(0 .. MaxSeq)]
      BY <2>1, <2>2 DEF WsTypeOK
    <2> QED BY <1>5, <2>3, <2>4 DEF ReplaySend, WsTypeOK, server, stream, ConnType
  <1>6. ASSUME NEW c \in Clients, Open(c) PROVE WsTypeOK'
    <2>1. Conn("opened", cursor[c], {}) \in ConnType
      BY DEF Conn, ConnPc, ConnType, WsTypeOK
    <2> QED BY <1>6, <2>1 DEF Open, WsTypeOK, server, stream, ConnType
  <1>7. ASSUME NEW c \in Clients, Receive(c) PROVE WsTypeOK'
    <2> DEFINE n == Head(wire[c])
    <2>1. n \in Numbers /\ n + 1 \in 1 .. (MaxSeq + 1) /\ Tail(wire[c]) \in Seq(0 .. MaxSeq)
      <3>1. wire[c] \in Seq(0 .. MaxSeq) /\ wire[c] # << >> /\ n # 0
        BY <1>7 DEF Receive, WsTypeOK, ReplayRequired
      <3>2. n \in 0 .. MaxSeq /\ Tail(wire[c]) \in Seq(0 .. MaxSeq)
        BY <3>1, TailFacts
      <3> QED BY <3>1, <3>2 DEF Numbers
    <2>2. wire' \in [Clients -> Seq(0 .. MaxSeq)]
      BY <1>7, <2>1 DEF Receive, WsTypeOK
    <2>3. /\ cursor' \in [Clients -> Numbers \cup {None}]
          /\ expected' \in [Clients -> 1 .. (MaxSeq + 1) \cup {None}]
          /\ received' \in [Clients -> SUBSET Numbers]
          /\ noticed' \in [Clients -> 0 .. MaxSeq]
      BY <1>7, <2>1 DEF Receive, WsTypeOK
    <2> QED BY <1>7, <2>2, <2>3 DEF Receive, WsTypeOK, server
  <1>8. ASSUME NEW c \in Clients, ReceiveReplayRequired(c) PROVE WsTypeOK'
    <2>1. Tail(wire[c]) \in Seq(0 .. MaxSeq)
      BY <1>8, TailFacts DEF ReceiveReplayRequired, WsTypeOK
    <2> QED BY <1>8, <2>1 DEF ReceiveReplayRequired, WsTypeOK, server
  <1>9. ASSUME NEW c \in Clients, Drop(c) PROVE WsTypeOK'
    <2>1. drops' \in 0 .. MaxDrops
      BY <1>9 DEF Drop, WsTypeOK
    <2> QED BY <1>9, <2>1, DisconnectTyped DEF Drop, WsTypeOK, server, stream, ConnType
  <1>10. ASSUME NEW c \in Clients, Remount(c) PROVE WsTypeOK'
    <2>1. expected' \in [Clients -> 1 .. (MaxSeq + 1) \cup {None}]
      BY <1>10 DEF Remount, WsTypeOK, Numbers
    <2>2. drops' \in 0 .. MaxDrops
      BY <1>10 DEF Remount, WsTypeOK
    <2> QED BY <1>10, <2>1, <2>2, DisconnectTyped DEF Remount, WsTypeOK, server, ConnType
  <1>11. ASSUME Restart PROVE WsTypeOK'
    BY <1>11, DownTyped DEF Restart, WsTypeOK, ConnType, Numbers
  <1>12. CASE UNCHANGED wsVars
    BY <1>12 DEF wsVars, WsTypeOK
  <1> QED
    BY <1>1, <1>2, <1>3, <1>4, <1>5, <1>6, <1>7, <1>8, <1>9, <1>10, <1>11, <1>12
    DEF WsNext, ServerStep, ReaderStep

-----------------------------------------------------------------------------
ClientInv(c) ==
    /\ Conducted(c)
    /\ Ordered(c)
    /\ FreshComplete(c)
    /\ CursorCounts(c)
    /\ Resumed(c)
    /\ Accounted(c)

\* A step that leaves a client's part of the state alone keeps what is said of it.
LEMMA Untouched ==
    ASSUME NEW d \in Clients, ClientInv(d),
           UNCHANGED <<seq, topicOf, conn[d], pending[d], wire[d], cursor[d],
                       received[d], noticed[d], base[d], restarts>>
    PROVE  ClientInv(d)'
  BY DEF ClientInv, Conducted, Ordered, FreshComplete, CursorCounts, Resumed, Accounted,
         In, Ascending, Below, Wanted

\* The types of one client's part of the state.
LEMMA ClientTyped ==
    ASSUME WsTypeOK, NEW c \in Clients
    PROVE  /\ seq \in Nat
           /\ conn[c] \in ConnType
           /\ pending[c] \in Seq(Nat) /\ pending[c] \in Seq(Numbers)
           /\ DOMAIN pending[c] = 1 .. Len(pending[c]) /\ Len(pending[c]) \in Nat
           /\ \A i \in DOMAIN pending[c] : pending[c][i] \in Nat /\ pending[c][i] # 0
           /\ wire[c] \in Seq(Nat)
           /\ DOMAIN wire[c] = 1 .. Len(wire[c]) /\ Len(wire[c]) \in Nat
           /\ \A i \in DOMAIN wire[c] : wire[c][i] \in Nat
           /\ cursor[c] \in Nat \cup {None}
           /\ noticed[c] \in Nat
           /\ base[c] \in Nat
           /\ received[c] \subseteq Nat
  <1>1. pending[c] \in Seq(Numbers) /\ wire[c] \in Seq(0 .. MaxSeq)
    BY DEF WsTypeOK
  <1>2. pending[c] \in Seq(Nat) /\ wire[c] \in Seq(Nat)
    BY <1>1, WsAssumption DEF Numbers
  <1>3. \A i \in DOMAIN pending[c] : pending[c][i] \in Nat /\ pending[c][i] # 0
    <2>1. \A i \in DOMAIN pending[c] : pending[c][i] \in Numbers
      BY <1>1, SeqFacts
    <2> QED BY <2>1, WsAssumption DEF Numbers
  <1> QED BY <1>1, <1>2, <1>3, WsAssumption DEF WsTypeOK, ConnType, Numbers

\* The queues of one client, as sequences of numbers.
LEMMA QueuesTyped ==
    ASSUME WsTypeOK, NEW c \in Clients
    PROVE  /\ pending[c] \in Seq(Nat) /\ Len(pending[c]) \in Nat
           /\ DOMAIN pending[c] = 1 .. Len(pending[c])
           /\ wire[c] \in Seq(Nat) /\ Len(wire[c]) \in Nat
           /\ DOMAIN wire[c] = 1 .. Len(wire[c])
  BY ClientTyped

\* publish_topic: the event goes to the registered sockets of its topic.
LEMMA PublishKeeps ==
    ASSUME WsTypeOK, NEW t \in Topics, PublishTopic(t), NEW c \in Clients, ClientInv(c)
    PROVE  ClientInv(c)'
  <1>1. /\ seq' = seq + 1 /\ seq + 1 \in Nat
        /\ UNCHANGED <<conn, wire, cursor, received, noticed, base, restarts>>
    BY ClientTyped DEF PublishTopic, stream
  <1>2. \A n : n \in Wanted(c)' => n \in Wanted(c) \/ (n = seq + 1 /\ t \in TopicsOf[c])
    <2>1. topicOf \in Seq(Topics) /\ Len(topicOf) = seq /\ topicOf' = Append(topicOf, t)
      BY DEF PublishTopic, WsTypeOK
    <2>2. /\ \A i \in 1 .. seq : topicOf'[i] = topicOf[i]
          /\ topicOf'[seq + 1] = t
      BY <2>1, AppendFacts
    <2> QED BY <1>1, <2>2, ClientTyped DEF Wanted
  <1>3. CASE ~(Registered(c) /\ t \in TopicsOf[c])
    <2>1. pending'[c] = pending[c]
      BY <1>3 DEF PublishTopic
    <2>2. Ordered(c)' /\ Conducted(c)' /\ CursorCounts(c)'
      <3>1. \A n \in conn[c].todo : n <= seq + 1
        BY ClientTyped DEF ClientInv, Ordered, ConnType, Numbers
      <3>2. Ordered(c)'
        BY <1>1, <2>1, <3>1, ClientTyped DEF ClientInv, Ordered, Ascending, Below
      <3>3. Conducted(c)' /\ CursorCounts(c)'
        BY <1>1, <2>1, ClientTyped DEF ClientInv, Conducted, CursorCounts, In
      <3> QED BY <3>2, <3>3
    <2>3. conn[c].pc = "live" => t \notin TopicsOf[c]
      BY <1>3 DEF Registered
    <2>4. FreshComplete(c)' /\ Resumed(c)'
      BY <1>1, <1>2, <2>1, <2>3 DEF ClientInv, FreshComplete, Resumed, In
    <2>5. Accounted(c)'
      BY <1>1, <1>2, ClientTyped DEF ClientInv, Accounted, CursorCounts
    <2> QED BY <2>2, <2>4, <2>5 DEF ClientInv
  <1>4. CASE Registered(c) /\ t \in TopicsOf[c]
    <2>1. pending'[c] = Append(pending[c], seq + 1)
      BY <1>4 DEF PublishTopic
    <2>2. \A n : In(n, pending'[c]) <=> In(n, pending[c]) \/ n = seq + 1
      <3>1. pending[c] \in Seq(Nat)
        BY ClientTyped
      <3> QED BY <2>1, <1>1, <3>1, InAppend
    <2>3. Ascending(pending[c])'
      <3>1. \A i \in DOMAIN pending[c] : pending[c][i] < seq + 1
        BY ClientTyped DEF ClientInv, Ordered
      <3>2. Ascending(pending[c])
        BY DEF ClientInv, Ordered
      <3>3. Ascending(Append(pending[c], seq + 1))
        BY <1>1, <3>1, <3>2, QueuesTyped, AscendingAppend
      <3> QED BY <2>1, <3>3 DEF Ascending
    <2>4. /\ DOMAIN pending'[c] = 1 .. (Len(pending[c]) + 1)
          /\ \A i \in 1 .. Len(pending[c]) : pending'[c][i] = pending[c][i]
          /\ pending'[c][Len(pending[c]) + 1] = seq + 1
      BY <2>1, <1>1, QueuesTyped, AppendFacts
    <2>5. /\ \A i \in DOMAIN pending'[c] : pending'[c][i] <= seq + 1
          /\ \A i \in DOMAIN wire[c] : wire[c][i] <= seq + 1
      <3>1. /\ \A i \in DOMAIN pending[c] : pending[c][i] <= seq /\ pending[c][i] \in Nat
            /\ \A i \in DOMAIN wire[c] : wire[c][i] <= seq /\ wire[c][i] \in Nat
        BY ClientTyped DEF ClientInv, Ordered
      <3>2. \A i \in DOMAIN pending'[c] : pending'[c][i] = seq + 1 \/ (i \in DOMAIN pending[c] /\ pending'[c][i] = pending[c][i])
        BY <2>4, ClientTyped
      <3>3. seq \in Nat
        BY ClientTyped
      <3>4. \A i \in DOMAIN pending'[c] : pending'[c][i] <= seq + 1
        BY <3>1, <3>2, <3>3
      <3>5. \A i \in DOMAIN wire[c] : wire[c][i] <= seq + 1
        BY <3>1, <3>3
      <3> QED BY <3>4, <3>5
    <2>6. conn[c].pc # "live" \/ conn[c].last = None => Ascending(wire[c])' /\ Below(wire[c], pending[c])'
      <3>1. Ordered(c) /\ \A i \in DOMAIN wire[c] : wire[c][i] < seq + 1
        BY ClientTyped DEF ClientInv, Ordered
      <3>2. ASSUME Below(wire[c], pending[c]) PROVE Below(wire[c], pending[c])'
        <4>1. Below(wire[c], Append(pending[c], seq + 1))
          BY <1>1, <3>1, <3>2, ClientTyped, BelowAppend
        <4> QED BY <1>1, <2>1, <4>1 DEF Below
      <3> QED BY <1>1, <3>1, <3>2 DEF Ordered, Ascending
    <2>7. Ordered(c)'
      <3>1. \A n \in conn[c].todo : n <= seq + 1
        BY ClientTyped DEF ClientInv, Ordered, ConnType, Numbers
      <3> QED BY <1>1, <2>3, <2>5, <2>6, <3>1 DEF Ordered
    <2>8. Conducted(c)' /\ CursorCounts(c)'
      BY <1>1, <1>4, ClientTyped DEF ClientInv, Conducted, CursorCounts, In, Registered
    <2>9. FreshComplete(c)' /\ Resumed(c)'
      BY <1>1, <1>2, <2>2 DEF ClientInv, FreshComplete, Resumed, In
    <2>10. Accounted(c)'
      BY <1>1, <1>2, ClientTyped DEF ClientInv, Accounted, CursorCounts
    <2> QED BY <2>7, <2>8, <2>9, <2>10 DEF ClientInv
  <1> QED BY <1>3, <1>4

\* A send task: the oldest live event goes onto the socket.
LEMMA LiveSendKeeps ==
    ASSUME WsTypeOK, NEW c \in Clients, LiveSend(c), ClientInv(c)
    PROVE  ClientInv(c)'
  <1> DEFINE e == Head(pending[c])
  <1>1. /\ pending[c] # << >>
        /\ wire'[c] = Append(wire[c], e) /\ pending'[c] = Tail(pending[c])
        /\ UNCHANGED <<seq, topicOf, conn, cursor, received, noticed, base, restarts>>
    BY DEF LiveSend, WsTypeOK, server, stream
  <1>2. /\ e \in Numbers /\ e \in Nat /\ e # 0 /\ e = pending[c][1] /\ Len(pending[c]) > 0
        /\ DOMAIN Tail(pending[c]) = 1 .. (Len(pending[c]) - 1)
        /\ \A i \in 1 .. (Len(pending[c]) - 1) : Tail(pending[c])[i] = pending[c][i + 1]
    <2>1. pending[c] \in Seq(Numbers)
      BY ClientTyped
    <2>2. e \in Numbers /\ e = pending[c][1] /\ Len(pending[c]) > 0
      BY <1>1, <2>1, TailFacts
    <2>3. /\ DOMAIN Tail(pending[c]) = 1 .. (Len(pending[c]) - 1)
          /\ \A i \in 1 .. (Len(pending[c]) - 1) : Tail(pending[c])[i] = pending[c][i + 1]
      BY <1>1, <2>1, TailFacts
    <2> HIDE DEF e
    <2> QED BY <2>2, <2>3, WsAssumption DEF Numbers
  <1>3. \A n : In(n, wire'[c]) <=> In(n, wire[c]) \/ n = e
    BY <1>1, <1>2, QueuesTyped, InAppend
  <1>4. \A n : In(n, pending[c]) <=> In(n, pending'[c]) \/ n = e
    BY <1>1, QueuesTyped, InTail
  <1>5. Conducted(c)'
    BY <1>1, <1>2, <1>3 DEF ClientInv, Conducted, In
  <1>6. CursorCounts(c)' /\ Accounted(c)' /\ Wanted(c)' = Wanted(c)
    BY <1>1 DEF ClientInv, CursorCounts, Accounted, Wanted
  <1>7. FreshComplete(c)' /\ Resumed(c)'
    BY <1>1, <1>3, <1>4, <1>6 DEF ClientInv, FreshComplete, Resumed, In
  <1>8. Ordered(c)'
    <2>1. Ordered(c) /\ ~In(0, pending[c]) /\ e <= seq
      BY <1>2, ClientTyped DEF ClientInv, Ordered, In
    <2>2. Ascending(pending'[c])
      BY <1>1, <2>1, QueuesTyped, AscendingTail DEF Ordered
    <2>3. ASSUME conn[c].pc # "live" \/ conn[c].last = None
          PROVE  Ascending(wire'[c]) /\ Below(wire'[c], pending'[c])
      <3>1. Ascending(pending[c]) /\ Ascending(wire[c]) /\ Below(wire[c], pending[c])
        BY <2>1, <2>3 DEF Ordered
      <3> QED BY <1>1, <2>1, <3>1, QueuesTyped, MoveKeepsOrder
    <2>4. \A i \in DOMAIN wire'[c] : wire'[c][i] <= seq
      <3>1. \A i \in DOMAIN wire'[c] : wire'[c][i] = e \/ (i \in DOMAIN wire[c] /\ wire'[c][i] = wire[c][i])
        BY <1>1, <1>2, QueuesTyped, AppendFacts
      <3> QED BY <2>1, <3>1 DEF Ordered
    <2>5. \A i \in DOMAIN pending'[c] : pending'[c][i] <= seq
      BY <1>1, <1>2, <2>1, ClientTyped DEF Ordered
    <2>6. \A n \in conn[c].todo : n <= seq
      BY <2>1 DEF Ordered
    <2>7. /\ Ascending(pending[c])'
          /\ conn[c].pc # "live" \/ conn[c].last = None =>
               Ascending(wire[c])' /\ Below(wire[c], pending[c])'
      BY <2>2, <2>3 DEF Ascending, Below
    <2> QED BY <1>1, <2>4, <2>5, <2>6, <2>7 DEF Ordered
  <1> QED BY <1>5, <1>6, <1>7, <1>8 DEF ClientInv

\* The subscribe message; only a connection with a cursor goes on to the replay.
LEMMA SubscribeKeeps ==
    ASSUME WsTypeOK, NEW c \in Clients, Subscribe(c), ClientInv(c)
    PROVE  ClientInv(c)'
  <1>1. /\ conn[c].pc = "opened"
        /\ conn'[c].last = conn[c].last /\ conn'[c].todo = conn[c].todo
        /\ conn'[c].pc = IF ReplayEnabled /\ conn[c].last # None THEN "subscribed" ELSE "live"
        /\ base'[c] = IF conn[c].last = None THEN seq ELSE base[c]
        /\ UNCHANGED <<seq, topicOf, pending, wire, cursor, received, noticed, restarts>>
    BY DEF Subscribe, WsTypeOK, server, stream
  <1>2. wire[c] = << >> /\ pending[c] = << >> /\ conn[c].todo = {} /\ conn[c].last = cursor[c]
    BY <1>1 DEF ClientInv, Conducted
  <1>3. Conducted(c)'
    BY <1>1, <1>2 DEF ClientInv, Conducted, In
  <1>4. Ordered(c)'
    BY <1>1, <1>2 DEF Ordered, Ascending, Below
  <1>5. Wanted(c)' = Wanted(c) /\ \A n \in Wanted(c) : n \in Nat /\ n <= seq
    BY <1>1, ClientTyped DEF Wanted
  <1>6. FreshComplete(c)'
    BY <1>1, <1>2, <1>5, ClientTyped DEF FreshComplete
  <1>7. CursorCounts(c)' /\ Resumed(c)'
    BY <1>1 DEF ClientInv, CursorCounts, Resumed
  <1>8. Accounted(c)'
    BY <1>1, <1>2, <1>5 DEF ClientInv, Accounted
  <1> QED BY <1>3, <1>4, <1>6, <1>7, <1>8 DEF ClientInv

\* replay_since: what it does not refuse is retained, so nothing after the cursor is left out.
LEMMA StartReplayKeeps ==
    ASSUME WsTypeOK, NEW c \in Clients, StartReplay(c), ClientInv(c)
    PROVE  ClientInv(c)'
  <1>1. /\ conn[c].pc = "subscribed"
        /\ UNCHANGED <<seq, topicOf, buffer, pending, cursor, received, noticed, base, restarts>>
    BY DEF StartReplay, server, stream
  <1>2. conn[c].last # None /\ conn[c].todo = {} /\ cursor[c] # None /\ ~In(0, wire[c])
    BY <1>1 DEF ClientInv, Conducted
  <1>3. CursorCounts(c)' /\ Accounted(c)' /\ FreshComplete(c)' /\ Wanted(c)' = Wanted(c)
    BY <1>1, <1>2 DEF ClientInv, CursorCounts, Accounted, FreshComplete, Wanted
  <1>4. CASE TooOld(conn[c].last)
    <2>1. /\ conn'[c].pc = "live" /\ conn'[c].last = None /\ conn'[c].todo = {}
          /\ wire'[c] = Append(wire[c], 0)
      BY <1>2, <1>4 DEF StartReplay, WsTypeOK, ReplayRequired
    <2>2. Ascending(wire'[c]) /\ Ascending(wire[c]) /\ Below(wire[c], pending[c])
      BY <1>1, <2>1, QueuesTyped, AscendingAppend DEF ClientInv, Ordered
    <2>3. \A i \in DOMAIN wire'[c] : wire'[c][i] = 0 \/ (i \in DOMAIN wire[c] /\ wire'[c][i] = wire[c][i])
      BY <2>1, QueuesTyped, AppendFacts
    <2>4. Below(wire'[c], pending[c])
      <3>1. \A i \in DOMAIN pending[c] : 0 < pending[c][i]
        BY ClientTyped
      <3> QED BY <2>2, <2>3, <3>1 DEF Below
    <2>5. \A i \in DOMAIN wire'[c] : wire'[c][i] <= seq
      <3>1. 0 <= seq
        BY ClientTyped
      <3> QED BY <2>3, <3>1 DEF ClientInv, Ordered
    <2>6. Ordered(c)'
      <3>1. Ascending(wire[c])' /\ Below(wire[c], pending[c])'
        BY <1>1, <2>2, <2>4 DEF Ascending, Below
      <3> QED BY <1>1, <2>1, <2>5, <3>1 DEF ClientInv, Ordered, Ascending
    <2>7. Conducted(c)' /\ Resumed(c)'
      BY <1>1, <1>2, <2>1 DEF ClientInv, Conducted, Resumed
    <2> QED BY <1>3, <2>6, <2>7 DEF ClientInv
  <1>5. CASE ~TooOld(conn[c].last)
    <2>1. /\ conn'[c].pc = "live" /\ conn'[c].last = conn[c].last /\ conn'[c].todo = Replayable(c)
          /\ wire'[c] = wire[c]
      BY <1>5 DEF StartReplay, WsTypeOK
    <2>2. Conducted(c)'
      BY <1>1, <1>2, <2>1 DEF ClientInv, Conducted, In
    <2>3. Ordered(c)'
      <3>1. \A n \in Replayable(c) : n <= seq
        BY ClientTyped DEF Replayable, WsTypeOK
      <3> QED BY <1>1, <1>2, <2>1, <3>1 DEF ClientInv, Ordered, Ascending, Below
    <2>4. ASSUME NEW n \in Wanted(c), n > conn[c].last PROVE n \in Replayable(c)
      <3>1. /\ n \in Nat /\ 1 <= n /\ n <= seq /\ topicOf[n] \in TopicsOf[c]
            /\ seq \in Nat /\ conn[c].last \in Nat
        BY <1>2, ClientTyped, WsAssumption DEF Wanted, ConnType, Numbers
      <3>2. /\ Len(buffer) \in Nat /\ DOMAIN buffer = 1 .. Len(buffer)
            /\ Len(buffer) = IF seq < Window THEN seq ELSE Window
            /\ \A i \in DOMAIN buffer : buffer[i] = seq - Len(buffer) + i
        BY DEF WsTypeOK
      <3>3. Len(buffer) > 0 /\ Head(buffer) = buffer[1]
        BY <3>1, <3>2, WsAssumption DEF WsTypeOK
      <3>4. conn[c].last >= seq - Len(buffer)
        BY <1>5, <3>1, <3>2, <3>3 DEF TooOld
      <3>5. n - (seq - Len(buffer)) \in DOMAIN buffer /\ buffer[n - (seq - Len(buffer))] = n
        BY <2>4, <3>1, <3>2, <3>4
      <3> QED BY <2>4, <3>1, <3>5 DEF Replayable
    <2>5. Resumed(c)'
      BY <1>3, <2>1, <2>4 DEF Resumed
    <2> QED BY <1>3, <2>2, <2>3, <2>5 DEF ClientInv
  <1> QED BY <1>4, <1>5

\* The replay loop moves an event from its list onto the socket.
LEMMA ReplaySendKeeps ==
    ASSUME WsTypeOK, NEW c \in Clients, ReplaySend(c), ClientInv(c)
    PROVE  ClientInv(c)'
  <1>1. PICK n \in conn[c].todo : /\ wire' = [wire EXCEPT ![c] = Append(@, n)]
                                  /\ conn' = [conn EXCEPT ![c].todo = @ \ {n}]
    BY DEF ReplaySend
  <1>2. /\ n \in Numbers /\ n \in Nat /\ n # 0
        /\ wire'[c] = Append(wire[c], n)
        /\ conn'[c].todo = conn[c].todo \ {n} /\ conn'[c].pc = conn[c].pc /\ conn'[c].last = conn[c].last
        /\ UNCHANGED <<seq, topicOf, pending, cursor, received, noticed, base, restarts>>
    BY <1>1, WsAssumption DEF ReplaySend, WsTypeOK, server, stream, Numbers
  <1>3. conn[c].pc = "live" /\ conn[c].last # None /\ cursor[c] # None
    BY <1>1 DEF ClientInv, Conducted
  <1>4. \A m : In(m, wire'[c]) <=> In(m, wire[c]) \/ m = n
    <2>1. wire[c] \in Seq(Nat)
      BY QueuesTyped
    <2> QED BY <2>1, <1>2, InAppend
  <1>5. Conducted(c)'
    BY <1>2, <1>3, <1>4 DEF ClientInv, Conducted, In
  <1>6. Ordered(c)'
    <2>1. \A i \in DOMAIN wire'[c] : wire'[c][i] = n \/ (i \in DOMAIN wire[c] /\ wire'[c][i] = wire[c][i])
      BY <1>2, QueuesTyped, AppendFacts
    <2>2. \A i \in DOMAIN wire'[c] : wire'[c][i] <= seq
      BY <1>1, <2>1 DEF ClientInv, Ordered
    <2> QED BY <1>2, <1>3, <2>2 DEF ClientInv, Ordered, Ascending
  <1>7. CursorCounts(c)' /\ Accounted(c)' /\ FreshComplete(c)' /\ Wanted(c)' = Wanted(c)
    BY <1>2, <1>3 DEF ClientInv, CursorCounts, Accounted, FreshComplete, Wanted
  <1>8. Resumed(c)'
    BY <1>2, <1>4, <1>7 DEF ClientInv, Resumed, In
  <1> QED BY <1>5, <1>6, <1>7, <1>8 DEF ClientInv

\* A socket opens with the cursor of its client.
LEMMA OpenKeeps ==
    ASSUME WsTypeOK, NEW c \in Clients, Open(c), ClientInv(c)
    PROVE  ClientInv(c)'
  <1>1. /\ conn[c].pc = "down" /\ conn'[c] = Conn("opened", cursor[c], {})
        /\ UNCHANGED <<seq, topicOf, pending, wire, cursor, received, noticed, base, restarts>>
    BY DEF Open, WsTypeOK, server, stream
  <1>2. wire[c] = << >> /\ pending[c] = << >>
    BY <1>1 DEF ClientInv, Conducted
  <1>3. conn'[c].pc = "opened" /\ conn'[c].last = cursor[c] /\ conn'[c].todo = {}
    BY <1>1 DEF Conn
  <1>4. Conducted(c)' /\ FreshComplete(c)' /\ Resumed(c)'
    <2>1. Conducted(c)'
      BY <1>1, <1>2, <1>3 DEF Conducted, In
    <2>2. FreshComplete(c)' /\ Resumed(c)'
      BY <1>3 DEF FreshComplete, Resumed
    <2> QED BY <2>1, <2>2
  <1>5. Ordered(c)'
    BY <1>1, <1>2, <1>3 DEF Ordered, Ascending, Below
  <1>6. CursorCounts(c)' /\ Accounted(c)'
    BY <1>1 DEF ClientInv, CursorCounts, Accounted, Wanted
  <1> QED BY <1>4, <1>5, <1>6 DEF ClientInv

\* The client takes an event: what it jumps over starts a resync.
LEMMA ReceiveKeeps ==
    ASSUME WsTypeOK, NEW c \in Clients, Receive(c), ClientInv(c)
    PROVE  ClientInv(c)'
  <1> DEFINE n == Head(wire[c])
  <1>1. /\ wire[c] # << >> /\ n # 0
        /\ noticed'[c] = IF Missed(c, n) THEN seq ELSE noticed[c]
        /\ cursor'[c] = n /\ received'[c] = received[c] \cup {n}
        /\ wire'[c] = Tail(wire[c])
        /\ UNCHANGED <<seq, topicOf, conn, pending, base, restarts>>
    BY DEF Receive, WsTypeOK, server, ReplayRequired
  <1>2. /\ n \in Nat /\ n = wire[c][1] /\ 1 \in DOMAIN wire[c]
        /\ DOMAIN Tail(wire[c]) = 1 .. (Len(wire[c]) - 1)
        /\ \A i \in 1 .. (Len(wire[c]) - 1) : Tail(wire[c])[i] = wire[c][i + 1]
    <2>1. wire[c] \in Seq(Nat)
      BY ClientTyped
    <2> QED BY <1>1, <2>1, TailFacts, SeqFacts
  <1>3. \A m : In(m, wire[c]) <=> In(m, wire'[c]) \/ m = n
    BY <1>1, QueuesTyped, InTail
  <1> HIDE DEF n
  <1>4. n # None /\ n <= seq
    BY <1>1, <1>2, WsAssumption DEF ClientInv, Ordered
  <1>5. conn[c].pc \in {"subscribed", "live"}
    BY <1>1, ClientTyped DEF ClientInv, Conducted, ConnType, ConnPc
  <1>6. Conducted(c)'
    BY <1>1, <1>3, <1>4, <1>5 DEF ClientInv, Conducted, In
  <1>7. \A i \in DOMAIN wire'[c] : i + 1 \in DOMAIN wire[c] /\ wire'[c][i] = wire[c][i + 1]
    BY <1>1, <1>2, ClientTyped
  <1>8. Ordered(c)'
    <2>1. Ascending(wire[c]) => Ascending(wire'[c])
      BY <1>1, QueuesTyped, AscendingTail
    <2>2. Below(wire[c], pending[c]) => Below(wire'[c], pending[c])
      BY <1>7 DEF Below
    <2>3. \A i \in DOMAIN wire'[c] : wire'[c][i] <= seq
      BY <1>7 DEF ClientInv, Ordered
    <2> QED BY <1>1, <2>1, <2>2, <2>3 DEF ClientInv, Ordered, Ascending, Below
  <1>9. CursorCounts(c)' /\ FreshComplete(c)' /\ Wanted(c)' = Wanted(c)
    BY <1>1, <1>4 DEF CursorCounts, FreshComplete, Wanted
  <1>10. Resumed(c)'
    BY <1>1, <1>3, <1>9 DEF ClientInv, Resumed, In
  <1>11. \A m \in Wanted(c) : m \in Nat /\ m <= seq /\ m # 0
    BY ClientTyped DEF Wanted
  <1>12. Accounted(c)'
    <2>1. CASE Missed(c, n)
      BY <1>1, <1>9, <1>11, <2>1 DEF Accounted
    <2>2. CASE ~Missed(c, n) /\ cursor[c] # None
      <3>1. cursor[c] \in Nat /\ n <= cursor[c] + 1
        BY <1>2, <2>2, ClientTyped DEF Missed
      <3>2. \A m \in Wanted(c) : m <= n => m = n \/ m <= cursor[c]
        BY <1>2, <1>11, <3>1
      <3> QED BY <1>1, <1>9, <2>2, <3>2 DEF ClientInv, Accounted
    <2>3. CASE ~Missed(c, n) /\ cursor[c] = None
      <3>1. conn[c].pc = "live" /\ conn[c].last = None
        BY <1>5, <2>3 DEF ClientInv, Conducted
      <3>2. Ascending(wire[c]) /\ Below(wire[c], pending[c])
        BY <3>1 DEF ClientInv, Ordered
      <3>3. ASSUME NEW m \in Wanted(c), base[c] < m, m <= n
            PROVE  m \in received'[c] \/ m <= noticed'[c]
        <4>1. m > base[c]
          BY <3>3, <1>11, ClientTyped
        <4>2. m <= noticed[c] \/ m \in received[c] \/ In(m, wire[c]) \/ In(m, pending[c])
          BY <2>3, <3>1, <4>1 DEF ClientInv, FreshComplete
        <4>3. ~In(m, pending[c])
          BY <1>2, <1>11, <3>2, <3>3, ClientTyped DEF Below, In
        <4>4. ~In(m, Tail(wire[c]))
          <5>1. ASSUME In(m, Tail(wire[c])) PROVE n < m
            BY <1>1, <1>11, <3>2, <5>1, QueuesTyped, AscendingTail DEF n
          <5> QED BY <1>2, <1>11, <3>3, <5>1
        <4> QED BY <1>1, <1>3, <2>3, <4>2, <4>3, <4>4
      <3> QED BY <1>1, <1>9, <3>3 DEF Accounted
    <2> QED BY <2>1, <2>2, <2>3
  <1> QED BY <1>6, <1>8, <1>9, <1>10, <1>12 DEF ClientInv

\* replay_required: the client runs a resync and gives its cursor up.
LEMMA ReplayRequiredKeeps ==
    ASSUME WsTypeOK, NEW c \in Clients, ReceiveReplayRequired(c), ClientInv(c)
    PROVE  ClientInv(c)'
  <1>1. /\ wire[c] # << >> /\ Head(wire[c]) = 0
        /\ noticed'[c] = seq /\ cursor'[c] = None /\ wire'[c] = Tail(wire[c])
        /\ UNCHANGED <<seq, topicOf, conn, pending, received, base, restarts>>
    BY DEF ReceiveReplayRequired, WsTypeOK, server, ReplayRequired
  <1>2. \A m : In(m, wire[c]) <=> In(m, wire'[c]) \/ m = 0
    BY <1>1, QueuesTyped, InTail
  <1>3. conn[c].pc = "live" /\ conn[c].last = None
    BY <1>2 DEF ClientInv, Conducted
  <1>4. Conducted(c)'
    BY <1>1, <1>2, <1>3 DEF ClientInv, Conducted, In
  <1>5. \A i \in DOMAIN wire'[c] : i + 1 \in DOMAIN wire[c] /\ wire'[c][i] = wire[c][i + 1]
    <2>1. wire[c] \in Seq(Nat)
      BY ClientTyped
    <2> QED BY <1>1, <2>1, TailFacts, SeqFacts
  <1>6. Ordered(c)'
    <2>1. Ascending(wire[c]) => Ascending(wire'[c])
      BY <1>1, QueuesTyped, AscendingTail
    <2>2. Below(wire[c], pending[c]) => Below(wire'[c], pending[c])
      BY <1>5 DEF Below
    <2>3. \A i \in DOMAIN wire'[c] : wire'[c][i] <= seq
      BY <1>5 DEF ClientInv, Ordered
    <2> QED BY <1>1, <2>1, <2>2, <2>3 DEF ClientInv, Ordered, Ascending, Below
  <1>7. FreshComplete(c)' /\ CursorCounts(c)' /\ Resumed(c)' /\ Accounted(c)'
    <2>1. \A m \in Wanted(c)' : m <= seq
      BY <1>1, ClientTyped DEF Wanted
    <2> QED BY <1>1, <1>3, <2>1 DEF FreshComplete, CursorCounts, Resumed, Accounted
  <1> QED BY <1>4, <1>6, <1>7 DEF ClientInv

\* A connection that ends takes with it only what the next one asks for again.
LEMMA DisconnectKeeps ==
    ASSUME WsTypeOK, NEW c \in Clients, Disconnect(c), ClientInv(c),
           UNCHANGED <<seq, topicOf, cursor, received, noticed, base, restarts>>
    PROVE  ClientInv(c)'
  <1>1. conn'[c] = Down /\ pending'[c] = << >> /\ wire'[c] = << >>
    BY DEF Disconnect, WsTypeOK
  <1>2. Down.pc = "down" /\ Down.last = None /\ Down.todo = {}
    BY DEF Down, Conn
  <1>3. Conducted(c)'
    BY <1>1, <1>2 DEF Conducted, In
  <1>4. Ordered(c)'
    BY <1>1, <1>2 DEF Ordered, Ascending, Below
  <1>5. FreshComplete(c)' /\ Resumed(c)'
    BY <1>1, <1>2 DEF FreshComplete, Resumed
  <1>6. CursorCounts(c)' /\ Accounted(c)'
    BY DEF ClientInv, CursorCounts, Accounted, Wanted
  <1> QED BY <1>3, <1>4, <1>5, <1>6 DEF ClientInv

\* A restart: the cursors of the clients are of an earlier numbering.
LEMMA RestartKeeps ==
    ASSUME WsTypeOK, Restart, NEW c \in Clients
    PROVE  ClientInv(c)'
  <1>1. /\ conn'[c] = Down /\ pending'[c] = << >> /\ wire'[c] = << >>
        /\ restarts' # 0
    BY DEF Restart, WsTypeOK
  <1>2. Down.pc = "down" /\ Down.last = None /\ Down.todo = {}
    BY DEF Down, Conn
  <1>3. Conducted(c)'
    BY <1>1, <1>2 DEF Conducted, In
  <1>4. Ordered(c)'
    BY <1>1, <1>2 DEF Ordered, Ascending, Below
  <1>5. FreshComplete(c)' /\ Resumed(c)' /\ CursorCounts(c)' /\ Accounted(c)'
    BY <1>1, <1>2 DEF FreshComplete, Resumed, CursorCounts, Accounted
  <1> QED BY <1>3, <1>4, <1>5 DEF ClientInv

StreamInv == WsTypeOK /\ \A c \in Clients : ClientInv(c)

\* The step: the client that moves by its lemma, the others by Untouched.
LEMMA StreamStep == StreamInv /\ [WsNext]_wsVars => StreamInv'
  <1> SUFFICES ASSUME StreamInv, [WsNext]_wsVars PROVE StreamInv'
    OBVIOUS
  <1>1. WsTypeOK /\ WsTypeOK'
    BY StreamTyped DEF StreamInv
  <1>2. SUFFICES ASSUME NEW d \in Clients PROVE ClientInv(d)'
    BY <1>1 DEF StreamInv
  <1>3. ClientInv(d)
    BY DEF StreamInv
  <1>4. ASSUME NEW t \in Topics, PublishTopic(t) PROVE ClientInv(d)'
    BY <1>1, <1>3, <1>4, PublishKeeps
  <1>5. ASSUME NEW c \in Clients, LiveSend(c) PROVE ClientInv(d)'
    <2>1. CASE d = c
      BY <1>1, <1>3, <1>5, <2>1, LiveSendKeeps
    <2>2. CASE d # c
      BY <1>1, <1>3, <1>5, <2>2, Untouched DEF LiveSend, server, stream, WsTypeOK
    <2> QED BY <2>1, <2>2
  <1>6. ASSUME NEW c \in Clients, Subscribe(c) PROVE ClientInv(d)'
    <2>1. CASE d = c
      BY <1>1, <1>3, <1>6, <2>1, SubscribeKeeps
    <2>2. CASE d # c
      BY <1>1, <1>3, <1>6, <2>2, Untouched DEF Subscribe, server, stream, WsTypeOK
    <2> QED BY <2>1, <2>2
  <1>7. ASSUME NEW c \in Clients, StartReplay(c) PROVE ClientInv(d)'
    <2>1. CASE d = c
      BY <1>1, <1>3, <1>7, <2>1, StartReplayKeeps
    <2>2. CASE d # c
      BY <1>1, <1>3, <1>7, <2>2, Untouched DEF StartReplay, server, stream, WsTypeOK
    <2> QED BY <2>1, <2>2
  <1>8. ASSUME NEW c \in Clients, ReplaySend(c) PROVE ClientInv(d)'
    <2>1. CASE d = c
      BY <1>1, <1>3, <1>8, <2>1, ReplaySendKeeps
    <2>2. CASE d # c
      BY <1>1, <1>3, <1>8, <2>2, Untouched DEF ReplaySend, server, stream, WsTypeOK
    <2> QED BY <2>1, <2>2
  <1>9. ASSUME NEW c \in Clients, Open(c) PROVE ClientInv(d)'
    <2>1. CASE d = c
      BY <1>1, <1>3, <1>9, <2>1, OpenKeeps
    <2>2. CASE d # c
      BY <1>1, <1>3, <1>9, <2>2, Untouched DEF Open, server, stream, WsTypeOK
    <2> QED BY <2>1, <2>2
  <1>10. ASSUME NEW c \in Clients, Receive(c) PROVE ClientInv(d)'
    <2>1. CASE d = c
      BY <1>1, <1>3, <1>10, <2>1, ReceiveKeeps
    <2>2. CASE d # c
      BY <1>1, <1>3, <1>10, <2>2, Untouched DEF Receive, server, WsTypeOK
    <2> QED BY <2>1, <2>2
  <1>11. ASSUME NEW c \in Clients, ReceiveReplayRequired(c) PROVE ClientInv(d)'
    <2>1. CASE d = c
      BY <1>1, <1>3, <1>11, <2>1, ReplayRequiredKeeps
    <2>2. CASE d # c
      BY <1>1, <1>3, <1>11, <2>2, Untouched DEF ReceiveReplayRequired, server, WsTypeOK
    <2> QED BY <2>1, <2>2
  <1>12. ASSUME NEW c \in Clients, Drop(c) \/ Remount(c) PROVE ClientInv(d)'
    <2>1. Disconnect(c) /\ UNCHANGED <<seq, topicOf, cursor, received, noticed, base, restarts>>
      BY <1>12 DEF Drop, Remount, server, stream
    <2>2. CASE d = c
      BY <1>1, <1>3, <2>1, <2>2, DisconnectKeeps
    <2>3. CASE d # c
      BY <1>1, <1>3, <2>1, <2>3, Untouched DEF Disconnect, WsTypeOK
    <2> QED BY <2>2, <2>3
  <1>13. ASSUME Restart PROVE ClientInv(d)'
    BY <1>1, <1>13, RestartKeeps
  <1>14. CASE UNCHANGED wsVars
    BY <1>3, <1>14, Untouched DEF wsVars
  <1> QED
    BY <1>4, <1>5, <1>6, <1>7, <1>8, <1>9, <1>10, <1>11, <1>12, <1>13, <1>14
    DEF WsNext, ServerStep, ReaderStep

\* The invariant holds at the start.
LEMMA StreamStart == WsInit => StreamInv
  <1> SUFFICES ASSUME WsInit PROVE StreamInv
    OBVIOUS
  <1>1. WsTypeOK
    BY DownTyped, WsAssumption DEF WsInit, WsTypeOK, ConnType, Numbers
  <1>2. ASSUME NEW c \in Clients PROVE ClientInv(c)
    <2>1. Down.pc = "down" /\ Down.last = None /\ Down.todo = {}
      BY DEF Down, Conn
    <2> QED BY <2>1 DEF WsInit, ClientInv, Conducted, Ordered, FreshComplete, CursorCounts, Resumed,
                   Accounted, In, Ascending, Below
  <1> QED BY <1>1, <1>2 DEF StreamInv

\* A stream is complete or knows that it is not, for any number of clients, topics, events,
\* lost connections and restarts and any replay window.
THEOREM StreamCompleteHolds == WsSpec => []StreamComplete
  <1>1. StreamInv => StreamComplete
    BY DEF StreamInv, ClientInv, StreamComplete, ResumeComplete, NoSilentLoss
  <1> QED BY <1>1, StreamStart, StreamStep, PTL DEF WsSpec

-----------------------------------------------------------------------------
(* The page of a job. *)

PollType == [at : {"none", "asked", "answered"}, by : {"none", "miss", "interval"}, with : Seq(Nat)]

PageTyped ==
    /\ happened \in Seq(EventKinds)
    /\ log \in Seq(Nat) /\ items \in Seq(Nat)
    /\ resync \in Nat /\ resync <= Latest
    /\ polls \in [PollSlots -> PollType]

\* An event that the page shows, or that the poll for a loss brings.
Coming(n) ==
    \/ n \in Listed(items)
    \/ \E s \in PollSlots :
          /\ polls[s].by = "miss"
          /\ \/ polls[s].at = "asked"
             \/ polls[s].at = "answered" /\ n \in Listed(polls[s].with)

PageInv ==
    /\ PageTyped
    /\ excuse = "none" => \A n \in Listed(log) : n <= resync => Coming(n)

\* The payload of a job's event has no trace.
LEMMA NeverParses == ~Parses
  BY DEF Parses, LifecycleFields, BroadcastFields

\* A list within the limit is kept whole; a longer one keeps its type.
LEMMA SliceFacts ==
    ASSUME NEW list \in Seq(Nat)
    PROVE  /\ Slice(list) \in Seq(Nat)
           /\ Len(list) <= MaxItems => Listed(Slice(list)) = Listed(list)
  <1>1. MaxItems \in Nat \ {0}
    BY StreamAssumption
  <1>2. CASE Len(list) < MaxItems
    <2>1. Slice(list) = SubSeq(list, 1, Len(list))
      BY <1>2 DEF Slice
    <2>2. SubSeq(list, 1, Len(list)) = list
      OBVIOUS
    <2> QED BY <2>1, <2>2
  <1>3. CASE Len(list) >= MaxItems
    <2>1. Slice(list) = SubSeq(list, 1, MaxItems) /\ MaxItems <= Len(list)
      BY <1>1, <1>3 DEF Slice
    <2>2. Slice(list) \in Seq(Nat)
      BY <1>1, <2>1
    <2>3. Len(list) <= MaxItems => SubSeq(list, 1, MaxItems) = list
      BY <1>1, <2>1
    <2> QED BY <2>1, <2>2, <2>3
  <1> QED BY <1>1, <1>2, <1>3

\* One more event at the end of a list.
LEMMA ListedAppend ==
    ASSUME NEW list \in Seq(Nat), NEW n \in Nat
    PROVE  Append(list, n) \in Seq(Nat) /\ Listed(Append(list, n)) = Listed(list) \cup {n}
  <1>1. /\ Append(list, n) \in Seq(Nat) /\ DOMAIN Append(list, n) = DOMAIN list \cup {Len(list) + 1}
        /\ Append(list, n)[Len(list) + 1] = n
        /\ \A i \in DOMAIN list : Append(list, n)[i] = list[i]
    OBVIOUS
  <1> QED BY <1>1 DEF Listed

\* A poll that begins takes a free slot and leaves the others alone.
LEMMA AskedFacts ==
    ASSUME PageTyped, NEW why \in BOOLEAN, NEW by \in {"miss", "interval"}, Asked(why, by)
    PROVE  /\ polls' \in [PollSlots -> PollType]
           /\ \A s \in PollSlots : ~IsFree(s) => polls'[s] = polls[s]
           /\ why /\ CanAsk => \E s \in PollSlots : polls'[s].at = "asked" /\ polls'[s].by = by
  <1>1. CASE why /\ CanAsk
    <2>1. PICK s \in PollSlots :
            IsFree(s) /\ polls' = [polls EXCEPT ![s] = [at |-> "asked", by |-> by, with |-> << >>]]
      BY <1>1 DEF Asked
    <2>2. [at |-> "asked", by |-> by, with |-> << >>] \in PollType
      BY DEF PollType
    <2> QED BY <1>1, <2>1, <2>2 DEF PageTyped
  <1>2. CASE ~(why /\ CanAsk)
    BY <1>2 DEF Asked, PageTyped
  <1> QED BY <1>1, <1>2

\* What is coming stays so, when the list and the polls under way stay.
LEMMA StillComing ==
    ASSUME NEW n, Coming(n), PageTyped, items' = items,
           \A s \in PollSlots : ~IsFree(s) => polls'[s] = polls[s]
    PROVE  Coming(n)'
  BY DEF Coming, IsFree, PageTyped, PollType

\* A step that leaves the log and the list alone and may begin a poll, which a noticed loss
\* always asks for.
LEMMA NoticeKeeps ==
    ASSUME PageInv, NEW why \in BOOLEAN, NEW loss \in BOOLEAN, NEW by \in {"miss", "interval"},
           Asked(why, by), Noticed(loss), loss => why /\ by = "miss",
           UNCHANGED <<serverVars, items>>
    PROVE  PageInv'
  <1>1. PageTyped
    BY DEF PageInv
  <1>2. /\ polls' \in [PollSlots -> PollType]
        /\ \A s \in PollSlots : ~IsFree(s) => polls'[s] = polls[s]
        /\ why /\ CanAsk => \E s \in PollSlots : polls'[s].at = "asked" /\ polls'[s].by = by
    BY <1>1, AskedFacts
  <1>3. Latest \in Nat /\ UNCHANGED <<happened, log, items, Latest>>
    BY <1>1 DEF PageTyped, Latest, serverVars
  <1>4. CASE loss
    <2>1. resync' = Latest /\ excuse' = (IF CanAsk THEN "none" ELSE "no poll")
      BY <1>4 DEF Noticed
    <2>2. PageTyped'
      <3>1. PICK k \in Nat : k = Latest
        BY <1>3
      <3>2. resync' = k /\ Latest' = k
        BY <1>3, <2>1, <3>1
      <3>3. resync' \in Nat /\ resync' <= Latest'
        BY <3>1, <3>2
      <3> QED BY <1>1, <1>2, <1>3, <3>3 DEF PageTyped
    <2>3. excuse' = "none" => \A n : Coming(n)'
      BY <1>2, <1>4, <2>1 DEF Coming
    <2> QED BY <2>2, <2>3 DEF PageInv
  <1>5. CASE ~loss
    <2>1. UNCHANGED <<resync, excuse>>
      BY <1>5 DEF Noticed, historyVars
    <2>2. PageTyped'
      BY <1>1, <1>2, <1>3, <2>1 DEF PageTyped
    <2>3. ASSUME NEW n, Coming(n) PROVE Coming(n)'
      BY <1>1, <1>2, <1>3, <2>3, StillComing
    <2> QED BY <1>3, <2>1, <2>2, <2>3 DEF PageInv
  <1> QED BY <1>4, <1>5

\* A step of the connection or of a timer.
LEMMA PageRests ==
    ASSUME PageInv, UNCHANGED <<serverVars, polls, items, historyVars>>
    PROVE  PageInv'
  <1>1. UNCHANGED <<happened, log, polls, items, resync, excuse>>
    BY DEF serverVars, historyVars
  <1> QED BY <1>1 DEF PageInv, PageTyped, Coming, Latest, Listed

\* The answer of a poll: it carries the whole log.
LEMMA AnsweredKeeps ==
    ASSUME PageInv, NEW s \in PollSlots, PollAnswered(s)
    PROVE  PageInv'
  <1>1. /\ polls[s].at = "asked"
        /\ polls' = [polls EXCEPT ![s].at = "answered", ![s].with = log]
        /\ UNCHANGED <<happened, log, items, resync, excuse, Latest>>
    BY DEF PollAnswered, serverVars, shownVars, historyVars, Latest
  <1>2. polls[s] \in PollType /\ log \in Seq(Nat) /\ polls \in [PollSlots -> PollType]
    BY DEF PageInv, PageTyped
  <1>3. PICK p : p = [polls[s] EXCEPT !.at = "answered", !.with = log]
    OBVIOUS
  <1>4. p \in PollType /\ p.at = "answered" /\ p.with = log /\ p.by = polls[s].by
    BY <1>2, <1>3 DEF PollType
  <1>5. polls' = [polls EXCEPT ![s] = p]
    BY <1>1, <1>3
  <1>6. /\ polls' \in [PollSlots -> PollType] /\ polls'[s] = p
        /\ \A r \in PollSlots : r # s => polls'[r] = polls[r]
    BY <1>2, <1>4, <1>5
  <1>7. PageTyped'
    BY <1>1, <1>6 DEF PageInv, PageTyped
  <1>8. ASSUME NEW n \in Listed(log), Coming(n) PROVE Coming(n)'
    BY <1>1, <1>4, <1>6, <1>8 DEF Coming
  <1>9. Listed(log)' = Listed(log)
    BY <1>1 DEF Listed
  <1> QED BY <1>1, <1>7, <1>8, <1>9 DEF PageInv

\* The arrival of an answer: what it drops is excused.
LEMMA ArrivalKeeps ==
    ASSUME PageInv, NEW s \in PollSlots, AnswerArrives(s)
    PROVE  PageInv'
  <1>1. /\ polls[s].at = "answered" /\ polls' = [polls EXCEPT ![s] = NoPoll]
        /\ UNCHANGED <<happened, log, resync, Latest>>
    BY DEF AnswerArrives, serverVars, Latest
  <1>2. /\ polls[s] \in PollType /\ polls \in [PollSlots -> PollType] /\ NoPoll \in PollType
        /\ polls[s].with \in Seq(Nat)
    BY DEF PageInv, PageTyped, PollType, NoPoll
  <1>3. /\ polls' \in [PollSlots -> PollType]
        /\ \A r \in PollSlots : r # s => polls'[r] = polls[r]
    BY <1>1, <1>2
  <1>4. Listed(log)' = Listed(log)
    BY <1>1 DEF Listed
  <1>5. CASE polls[s].by = "interval" /\ UNCHANGED <<items, excuse>>
    <2>1. PageTyped'
      BY <1>1, <1>3, <1>5 DEF PageInv, PageTyped
    <2>2. ASSUME NEW n, Coming(n) PROVE Coming(n)'
      BY <1>3, <1>5, <2>2 DEF Coming, Listed
    <2> QED BY <1>1, <1>4, <1>5, <2>1, <2>2 DEF PageInv
  <1>6. CASE /\ items' = Slice(polls[s].with)
             /\ excuse' = IF Len(polls[s].with) > MaxItems THEN "cut"
                          ELSE IF Listed(items) \subseteq Listed(polls[s].with) THEN excuse
                          ELSE "overtaken"
    <2>1. /\ Slice(polls[s].with) \in Seq(Nat)
          /\ Len(polls[s].with) <= MaxItems => Listed(Slice(polls[s].with)) = Listed(polls[s].with)
      BY <1>2, SliceFacts
    <2>2. PageTyped'
      BY <1>1, <1>3, <1>6, <2>1 DEF PageInv, PageTyped
    <2>3. CASE excuse' = "none"
      <3>1. /\ excuse = "none" /\ Listed(items) \subseteq Listed(polls[s].with)
            /\ ~(Len(polls[s].with) > MaxItems)
        BY <1>6, <2>3
      <3>2. Listed(items)' = Listed(polls[s].with)
        <4>1. Len(polls[s].with) <= MaxItems
          BY <1>2, <3>1, StreamAssumption
        <4>2. Listed(items)' = Listed(Slice(polls[s].with))
          BY <1>6 DEF Listed
        <4> QED BY <2>1, <4>1, <4>2
      <3>3. ASSUME NEW n, Coming(n) PROVE Coming(n)'
        BY <1>1, <1>3, <3>1, <3>2, <3>3 DEF Coming
      <3> QED BY <1>1, <1>4, <2>2, <3>1, <3>3 DEF PageInv
    <2> QED BY <2>2, <2>3 DEF PageInv
  <1> QED BY <1>5, <1>6 DEF AnswerArrives

\* The failure of a poll: that of the poll for a loss is excused.
LEMMA FailureKeeps ==
    ASSUME PageInv, NEW s \in PollSlots, PollFails(s)
    PROVE  PageInv'
  <1>1. /\ polls' = [polls EXCEPT ![s] = NoPoll]
        /\ excuse' = IF polls[s].by = "miss" THEN "failed" ELSE excuse
        /\ UNCHANGED <<happened, log, items, resync, Latest>>
    BY DEF PollFails, serverVars, shownVars, Latest
  <1>2. /\ polls \in [PollSlots -> PollType] /\ NoPoll \in PollType
    BY DEF PageInv, PageTyped, PollType, NoPoll
  <1>3. /\ polls' \in [PollSlots -> PollType]
        /\ \A r \in PollSlots : r # s => polls'[r] = polls[r]
    BY <1>1, <1>2
  <1>4. PageTyped'
    BY <1>1, <1>3 DEF PageInv, PageTyped
  <1>5. ASSUME polls[s].by # "miss", NEW n, Coming(n) PROVE Coming(n)'
    BY <1>1, <1>3, <1>5 DEF Coming, Listed
  <1>6. Listed(log)' = Listed(log)
    BY <1>1 DEF Listed
  <1> QED BY <1>1, <1>4, <1>5, <1>6 DEF PageInv

\* A new event is newer than any loss noticed so far.
LEMMA HappensKeeps ==
    ASSUME PageInv, NEW kind \in EventKinds, Happens(kind)
    PROVE  PageInv'
  <1>1. /\ happened \in Seq(EventKinds) /\ log \in Seq(Nat) /\ resync \in Nat /\ resync <= Latest
    BY DEF PageInv, PageTyped
  <1>2. /\ happened' = Append(happened, kind)
        /\ log' = IF kind = "job" THEN Append(log, Latest + 1) ELSE log
        /\ UNCHANGED <<polls, items, resync, excuse>>
    BY DEF Happens, shownVars, historyVars
  <1>3. happened' \in Seq(EventKinds) /\ Latest' = Latest + 1 /\ Latest \in Nat
    BY <1>1, <1>2 DEF Latest
  <1>4. log' \in Seq(Nat) /\ Listed(log') \subseteq Listed(log) \cup {Latest + 1}
    BY <1>1, <1>2, <1>3, ListedAppend
  <1>5. PageTyped'
    BY <1>1, <1>2, <1>3, <1>4 DEF PageInv, PageTyped
  <1>6. \A n \in Listed(log)' : n <= resync' => n \in Listed(log) /\ n <= resync
    BY <1>1, <1>2, <1>3, <1>4 DEF Listed
  <1>7. ASSUME NEW n, Coming(n) PROVE Coming(n)'
    BY <1>2, <1>7 DEF Coming, Listed
  <1> QED BY <1>2, <1>5, <1>6, <1>7 DEF PageInv

\* Every step keeps the invariant.
LEMMA PageInvStep ==
    ASSUME PageInv, [StreamNext]_streamVars
    PROVE  PageInv'
  <1>1. CASE Render \/ SocketOpens \/ SocketCloses \/ TimerFires \/ ToastExpires \/ StreamTick
             \/ UNCHANGED streamVars
    <2>1. UNCHANGED <<serverVars, polls, items, historyVars>>
      <3>1. CASE Render \/ SocketOpens \/ SocketCloses \/ TimerFires
        BY <3>1 DEF Render, SocketOpens, SocketCloses, TimerFires, shownVars
      <3>2. CASE ToastExpires \/ StreamTick \/ UNCHANGED streamVars
        BY <3>2 DEF ToastExpires, StreamTick, streamVars, shownVars
      <3> QED BY <1>1, <3>1, <3>2
    <2> QED BY <2>1, PageRests
  <1>2. CASE \E kind \in EventKinds : Happens(kind)
    BY <1>2, HappensKeeps
  <1>3. CASE EventArrives
    <2>1. PICK n \in inbound \ {0} : Asked(Gap(n), "miss") /\ Noticed(Gap(n)) /\ items' = items
      BY <1>3, NeverParses DEF EventArrives
    <2>2. Gap(n) \in BOOLEAN
      BY DEF Gap
    <2>3. UNCHANGED <<serverVars, items>>
      BY <1>3, <2>1 DEF EventArrives
    <2> QED BY <2>1, <2>2, <2>3, NoticeKeeps
  <1>4. CASE RefusalArrives
    <2>1. Asked(TRUE, "miss") /\ Noticed(TRUE) /\ UNCHANGED <<serverVars, items>>
      BY <1>4 DEF RefusalArrives
    <2> QED BY <2>1, NoticeKeeps
  <1>5. CASE FallbackPolls
    <2>1. Asked(TRUE, "interval") /\ Noticed(FALSE) /\ UNCHANGED <<serverVars, items>>
      BY <1>5 DEF FallbackPolls, Noticed, shownVars
    <2> QED BY <2>1, NoticeKeeps
  <1>6. CASE \E s \in PollSlots : PollAnswered(s) \/ AnswerArrives(s) \/ PollFails(s)
    BY <1>6, AnsweredKeeps, ArrivalKeeps, FailureKeeps
  <1> QED BY <1>1, <1>2, <1>3, <1>4, <1>5, <1>6 DEF StreamNext

\* The page of a job shows every event up to the newest loss it noticed, or has a reason not
\* to: for any number of events and polls and any window, list, back-off and interval.
THEOREM LossesRepaired == StreamSpec => []LossRepairedOrExplained
  <1>1. StreamInit => PageInv
    <2> SUFFICES ASSUME StreamInit PROVE PageInv
      OBVIOUS
    <2>1. polls \in [PollSlots -> PollType]
      BY DEF StreamInit, NoPoll, PollType
    <2>2. /\ happened = << >> /\ log = << >> /\ items = << >> /\ resync = 0
      BY DEF StreamInit
    <2>3. PageTyped
      BY <2>1, <2>2 DEF PageTyped, Latest
    <2> QED BY <2>2, <2>3 DEF PageInv, Listed
  <1>2. PageInv => LossRepairedOrExplained
    BY DEF PageInv, Coming, LossRepairedOrExplained, IsFree
  <1> QED BY <1>1, <1>2, PageInvStep, PTL DEF StreamSpec
=============================================================================
