---------------------------- MODULE TopicStream ----------------------------
(***************************************************************************)
(* The page of one job on the desktop, which shows the live events of the  *)
(* jobs topic: the hook useResumableTopicStream with its effects and its   *)
(* two kinds of polls, the reconnecting socket below it, and the renders   *)
(* of React and of App above it.  The socket's messages are those of       *)
(* WsReplay, in order.                                                     *)
(*                                                                         *)
(* A render commits what setState queued since the last one, and runs the  *)
(* effects again whose dependencies changed: pollFallback is a new         *)
(* function at every render of the page, pushToast at every render of App. *)
(* Left out are the breaker that the hook displays, and the limit of       *)
(* reconnections, whose count begins anew with every connection.           *)
(***************************************************************************)
EXTENDS Integers, Sequences

CONSTANTS
    MaxEvents,    \* bound on published events
    WindowKept,   \* events the server can replay
    MinBackoff,   \* wsReconnectMinMs, in ticks
    MaxBackoff,   \* wsReconnectMaxMs, in ticks
    PollEvery,    \* pollIntervalMs, in ticks
    PollSlots,    \* polls that may be under way at once
    MaxItems,     \* maxItems of the hook
    NoCursor      \* an undefined cursor

ASSUME StreamAssumption ==
    /\ {MaxEvents, WindowKept} \subseteq Nat
    /\ {MinBackoff, MaxBackoff, PollEvery, MaxItems} \subseteq Nat \ {0}
    /\ NoCursor \notin Nat

VARIABLES
    view,       \* what is committed: connectionState, and the status App shows
    due,        \* what is queued: both again, and whether items or toasts changed
    socket,     \* the connection: its stage, attempts, and what is left of its timer
    happened,   \* each event so far: of the page's job, of another job, or of another topic
    log,        \* the job's events in the server's log, which lists them in order of time
    inbound,    \* on the socket, in ascending order: numbers of events, 0 for replay_required
    lastSeq,    \* lastSeqRef
    nextSeq,    \* expectedNextSeq of the connection
    polls,      \* each poll: its stage, what asked for it, and the answer of the server
    untilPoll,  \* what is left of the fallback's interval
    items,      \* the list of events on the page
    toasts,     \* whether a toast is still shown
    resync,     \* history: the newest event when the hook last noticed a loss
    excuse      \* history: why the page may lack events up to that one

serverVars == <<happened, log>>
timerVars == <<socket, untilPoll>>
shownVars == <<items, toasts>>
historyVars == <<resync, excuse>>
streamVars == <<view, due, timerVars, serverVars, inbound, lastSeq, nextSeq, polls,
                shownVars, historyVars>>

Latest == Len(happened)
EventKinds == {"job", "other job", "other topic"}
OnTopic(n) == happened[n] # "other topic"
Listed(list) == {list[i] : i \in DOMAIN list}

NoPoll == [at |-> "none", by |-> "none", with |-> << >>]
IsFree(s) == polls[s].at = "none"

\* list.slice(0, maxItems).
Slice(list) == SubSeq(list, 1, IF Len(list) < MaxItems THEN Len(list) ELSE MaxItems)

\* The fields of a job's event as it is broadcast, and those that parseJobLifecyclePayload
\* asks for: without one of them its answer is null.
BroadcastFields ==
    {"job_id", "run_id", "status", "progress_pct", "message", "timestamp", "updated_at"}
LifecycleFields == {"job_id", "trace_id", "status", "detail", "updated_at"}
Parses == LifecycleFields \subseteq BroadcastFields

\* Opening a connection reports connecting; its closure takes the cursor itself as
\* the number it expects.
FreshSocket == [stage |-> "opening", attempts |-> 0, timer |-> 0]

StreamInit ==
    /\ view = [status |-> "connecting", shown |-> "nothing"]
    /\ due = [status |-> "connecting", shown |-> "connecting", other |-> FALSE]
    /\ socket = FreshSocket
    /\ happened = << >> /\ log = << >> /\ inbound = {}
    /\ lastSeq = NoCursor /\ nextSeq = NoCursor
    /\ polls = [s \in PollSlots |-> NoPoll]
    /\ untilPoll = PollEvery
    /\ items = << >> /\ toasts = FALSE /\ resync = 0 /\ excuse = "none"

-----------------------------------------------------------------------------
\* Renders.

Committed == [status |-> view.status, shown |-> view.shown, other |-> FALSE]

\* A render of App renders the page as well, and no render of the page leaves pollFallback
\* as it was: the interval starts anew, and connection.close() of the cleanup is followed
\* by the effect again, so that of closed and connecting only connecting is seen.
Render ==
    /\ due # Committed
    /\ view' = [status |-> due.status, shown |-> due.shown]
    /\ due' = [status |-> "connecting",
               shown |-> IF due.status # view.status THEN due.status ELSE due.shown,
               other |-> FALSE]
    /\ socket' = FreshSocket /\ inbound' = {} /\ nextSeq' = lastSeq
    /\ untilPoll' = PollEvery
    /\ UNCHANGED <<serverVars, lastSeq, polls, shownVars, historyVars>>

-----------------------------------------------------------------------------
\* The socket.

\* subscribe with the cursor: the server replays, or says that it cannot.
Replay ==
    IF lastSeq = NoCursor THEN {}
    ELSE IF lastSeq < Latest - WindowKept THEN {0}
    ELSE {k \in 1 .. Latest : k > lastSeq /\ OnTopic(k)}

\* onStatus("connected"): the supervisor reports the status of the latest commit.
SocketOpens ==
    /\ socket.stage = "opening"
    /\ socket' = [FreshSocket EXCEPT !.stage = "open"]
    /\ inbound' = Replay
    /\ due' = [due EXCEPT !.status = "connected", !.shown = view.status]
    /\ UNCHANGED <<view, serverVars, lastSeq, nextSeq, polls, untilPoll, shownVars,
                   historyVars>>

Backoff(n) == LET b == MinBackoff * 2 ^ (n - 1) IN IF b < MaxBackoff THEN b ELSE MaxBackoff

\* The socket fails to open, or breaks.  Attempts beyond the longest wait are alike.
SocketCloses ==
    /\ socket.stage # "waiting"
    /\ LET n == IF Backoff(socket.attempts + 1) = MaxBackoff /\ socket.attempts > 0
                THEN socket.attempts ELSE socket.attempts + 1
       IN  socket' = [stage |-> "waiting", attempts |-> n, timer |-> Backoff(n)]
    /\ inbound' = {}
    /\ UNCHANGED <<view, due, serverVars, lastSeq, nextSeq, polls, untilPoll,
                   shownVars, historyVars>>

TimerFires ==
    /\ socket.stage = "waiting" /\ socket.timer = 0
    /\ socket' = [socket EXCEPT !.stage = "opening"]
    /\ due' = [due EXCEPT !.status = "reconnecting"]
    /\ UNCHANGED <<view, serverVars, inbound, lastSeq, nextSeq, polls, untilPoll,
                   shownVars, historyVars>>

\* An event is logged, where it is the job's, and published.
Happens(kind) ==
    /\ Latest < MaxEvents
    /\ happened' = Append(happened, kind)
    /\ log' = IF kind = "job" THEN Append(log, Latest + 1) ELSE log
    /\ inbound' = IF socket.stage = "open" /\ kind # "other topic"
                  THEN inbound \cup {Latest + 1} ELSE inbound
    /\ UNCHANGED <<view, due, timerVars, lastSeq, nextSeq, polls, shownVars, historyVars>>

-----------------------------------------------------------------------------
\* What arrives.

\* A poll, where there is one; with every slot taken a further poll is left out.
CanAsk == \E s \in PollSlots : IsFree(s)

Asked(why, by) ==
    IF why /\ CanAsk
    THEN \E s \in PollSlots :
            IsFree(s) /\ polls' = [polls EXCEPT ![s] = [at |-> "asked", by |-> by, with |-> << >>]]
    ELSE UNCHANGED polls

\* A noticed loss, which the poll it begins is to repair.
Noticed(loss) ==
    IF loss
    THEN resync' = Latest /\ excuse' = IF CanAsk THEN "none" ELSE "no poll"
    ELSE UNCHANGED historyVars

\* onReplayMiss fires on its own expectation, and clears the cursor the hook's check
\* would use.
Gap(n) == \/ nextSeq # NoCursor /\ n > nextSeq
          \/ lastSeq # NoCursor /\ n > lastSeq + 1

\* The cursor follows every event; setItems only one that parsePayload accepts.
EventArrives ==
    /\ \E n \in inbound \ {0} :
         /\ \A m \in inbound : n <= m
         /\ inbound' = inbound \ {n}
         /\ Asked(Gap(n), "miss") /\ Noticed(Gap(n))
         /\ lastSeq' = n /\ nextSeq' = n + 1
         /\ items' = IF Parses THEN Slice(<<n>> \o items) ELSE items
    /\ due' = [due EXCEPT !.other = @ \/ Parses]
    /\ UNCHANGED <<view, timerVars, serverVars, toasts>>

\* Mutant of RefusalArrives: no poll begins.
RefusalToastOnly ==
    /\ 0 \in inbound
    /\ Noticed(TRUE)
    /\ lastSeq' = NoCursor
    /\ inbound' = inbound \ {0}
    /\ toasts' = TRUE
    /\ due' = [due EXCEPT !.other = TRUE]
    /\ UNCHANGED <<view, timerVars, serverVars, nextSeq, polls, items>>

\* replay_required: the cursor is dropped, a poll begins, and a toast is shown.
RefusalArrives ==
    /\ 0 \in inbound
    /\ Asked(TRUE, "miss") /\ Noticed(TRUE)
    /\ lastSeq' = NoCursor
    /\ inbound' = inbound \ {0}
    /\ toasts' = TRUE
    /\ due' = [due EXCEPT !.other = TRUE]
    /\ UNCHANGED <<view, timerVars, serverVars, nextSeq, items>>

ToastExpires ==
    /\ toasts
    /\ toasts' = FALSE
    /\ due' = [due EXCEPT !.other = TRUE]
    /\ UNCHANGED <<view, timerVars, serverVars, inbound, lastSeq, nextSeq, polls,
                   items, historyVars>>

\* The interval of the fallback, which runs while the page is not connected.
FallbackRuns == view.status # "connected"

FallbackPolls ==
    /\ FallbackRuns /\ untilPoll = 0
    /\ Asked(TRUE, "interval")
    /\ untilPoll' = PollEvery
    /\ UNCHANGED <<view, due, socket, serverVars, inbound, lastSeq, nextSeq, shownVars,
                   historyVars>>

PollAnswered(s) ==
    /\ polls[s].at = "asked"
    /\ polls' = [polls EXCEPT ![s].at = "answered", ![s].with = log]
    /\ UNCHANGED <<view, due, timerVars, serverVars, inbound, lastSeq, nextSeq,
                   shownVars, historyVars>>

\* The answer replaces the list, cut at maxItems, newer events included; the interval
\* ignores an empty one.
AnswerArrives(s) ==
    /\ polls[s].at = "answered"
    /\ polls' = [polls EXCEPT ![s] = NoPoll]
    /\ IF polls[s].by = "interval" /\ polls[s].with = << >>
       THEN UNCHANGED <<items, due, excuse>>
       ELSE /\ items' = Slice(polls[s].with)
            /\ due' = [due EXCEPT !.other = TRUE]
            /\ excuse' = IF Len(polls[s].with) > MaxItems THEN "cut"
                         ELSE IF Listed(items) \subseteq Listed(polls[s].with) THEN excuse
                         ELSE "overtaken"
    /\ UNCHANGED <<view, timerVars, serverVars, inbound, lastSeq, nextSeq, toasts,
                   resync>>

\* A failed poll is swallowed.
PollFails(s) ==
    /\ ~IsFree(s)
    /\ polls' = [polls EXCEPT ![s] = NoPoll]
    /\ excuse' = IF polls[s].by = "miss" THEN "failed" ELSE excuse
    /\ UNCHANGED <<view, due, timerVars, serverVars, inbound, lastSeq, nextSeq,
                   shownVars, resync>>

\* Renders do not wait for a timer.
StreamTick ==
    /\ due = Committed
    /\ socket.timer > 0 \/ (FallbackRuns /\ untilPoll > 0)
    /\ socket' = [socket EXCEPT !.timer = IF @ > 0 THEN @ - 1 ELSE 0]
    /\ untilPoll' = IF FallbackRuns /\ untilPoll > 0 THEN untilPoll - 1 ELSE untilPoll
    /\ UNCHANGED <<view, due, serverVars, inbound, lastSeq, nextSeq, polls, shownVars,
                   historyVars>>

StreamNext ==
    \/ Render \/ SocketOpens \/ SocketCloses \/ TimerFires
    \/ \E kind \in EventKinds : Happens(kind)
    \/ EventArrives \/ RefusalArrives \/ ToastExpires \/ FallbackPolls
    \/ \E s \in PollSlots : PollAnswered(s) \/ AnswerArrives(s) \/ PollFails(s)
    \/ StreamTick

StreamSpec == StreamInit /\ [][StreamNext]_streamVars

\* React renders, sockets open or fail, and timers fire.
StreamLiveSpec ==
    /\ StreamSpec
    /\ WF_streamVars(Render)
    /\ WF_streamVars(SocketOpens \/ SocketCloses)
    /\ WF_streamVars(TimerFires)
    /\ WF_streamVars(FallbackPolls)
    /\ WF_streamVars(StreamTick)

-----------------------------------------------------------------------------
\* Where no poll is under way, the page shows every event of its job up to the newest loss
\* the hook noticed, unless the poll for it failed or could not begin, an older answer came
\* after it, or the log outgrew the list, of which slice keeps the oldest (lines 74-107 and
\* 133-140 of the hook).
LossRepairedOrExplained ==
    (\A s \in PollSlots : IsFree(s))
    => \/ excuse # "none"
       \/ \A n \in Listed(log) : n <= resync => n \in Listed(items)

\* tauri-backend-connectivity-baseline.md:14: the hook falls back to polling when it is
\* not connected.
FallsBackToPolling ==
    []FallbackRuns => <>(\E s \in PollSlots : ~IsFree(s))
=============================================================================
