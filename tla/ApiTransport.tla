---------------------------- MODULE ApiTransport ----------------------------
(***************************************************************************)
(* requestJson of the api-client: calls that run concurrently on one       *)
(* GbApiClient, each a sequence of attempts with a timeout and a back-off, *)
(* and the circuit breaker they share.                                     *)
(*                                                                         *)
(* An answer is a success, a refusal (any status below 500 that is no      *)
(* success), a server error, or none at all (the timer or the network).    *)
(* Which requests the server carries out is decided when they are sent;    *)
(* it may do so after the client has given the attempt up.                 *)
(***************************************************************************)
EXTENDS Integers, FiniteSets

CONSTANTS
    Calls,             \* places of concurrent calls
    Kinds,             \* kinds of calls made, see AllKinds
    FailureThreshold,  \* circuitBreaker.failureThreshold
    CoolDown,          \* circuitBreaker.coolDownMs, in ticks of the clock
    ProbeMax,          \* circuitBreaker.halfOpenProbeMaxRequests
    MaxRetries         \* retry.maxRetries

\* A GET, POST /jobs/{id}/retry, which has a prefix of retryablePostPaths, and a
\* POST that has none of them.
AllKinds == {"read", "retryJob", "create"}

ASSUME ConstantsAssumption ==
    /\ IsFiniteSet(Calls)
    /\ Kinds \subseteq AllKinds
    /\ FailureThreshold \in Nat \ {0}
    /\ CoolDown \in Nat
    /\ ProbeMax \in Nat \ {0}
    /\ MaxRetries \in Nat

VARIABLES
    call,     \* the state of each call of requestJson
    circuit,  \* circuitState
    failed,   \* history: calls that failed since the last success, up to the threshold
    wasted    \* history: probes of this half-open period that ended without a verdict

vars == <<call, circuit, failed, wasted>>

Smaller(a, b) == IF a < b THEN a ELSE b

\* consecutiveFailures is counted up to the threshold: beyond it nothing differs.
\* openFor is what remains of openUntil.
CircuitSet == [state : {"closed", "open", "half-open"}, failures : 0 .. FailureThreshold,
               openFor : 0 .. CoolDown, probes : 0 .. ProbeMax]

Closed == [state |-> "closed", failures |-> 0, openFor |-> 0, probes |-> 0]

\* carried: whether the server carries the request under way out.
\* effects: POST requests of the call the server carried out.
CallSet == [stage : {"idle", "header", "sent", "body", "backoff"}, kind : AllKinds,
            attempt : 0 .. MaxRetries, probe : BOOLEAN, carried : BOOLEAN,
            effects : 0 .. MaxRetries + 1]

NoCall == [stage |-> "idle", kind |-> "read", attempt |-> 0, probe |-> FALSE,
           carried |-> FALSE, effects |-> 0]

Init ==
    /\ call = [c \in Calls |-> NoCall]
    /\ circuit = Closed
    /\ failed = 0
    /\ wasted = 0

-----------------------------------------------------------------------------
(* The breaker. *)

\* Mutant of Counted: a failing probe does not open the breaker again.
CountedClosed(n) ==
    LET f == Smaller(circuit.failures + n, FailureThreshold)
    IN  IF f < FailureThreshold \/ circuit.state = "half-open"
          THEN [circuit EXCEPT !.failures = f]
          ELSE [state |-> "open", failures |-> f, openFor |-> CoolDown, probes |-> 0]

\* The breaker once recordCircuitFailure has counted n failures.
Counted(n) ==
    LET f == Smaller(circuit.failures + n, FailureThreshold)
    IN  IF f < FailureThreshold
          THEN [circuit EXCEPT !.failures = f]
          ELSE [state |-> "open", failures |-> f, openFor |-> CoolDown, probes |-> 0]

\* recordCircuitSuccess.
RecordSuccess ==
    /\ circuit' = Closed
    /\ failed' = 0
    /\ UNCHANGED wasted

Underway == {c \in Calls : call[c].stage # "idle"}
Probes == {c \in Underway : call[c].probe}

\* The three ways assertCircuitAllowsRequest lets call c of kind k through.
Started(k, isProbe) ==
    [NoCall EXCEPT !.stage = "header", !.kind = k, !.probe = isProbe]

PassClosed(c, k) ==
    /\ circuit.state = "closed"
    /\ call' = [call EXCEPT ![c] = Started(k, FALSE)]
    /\ UNCHANGED <<circuit, wasted>>

\* Mutant of HasProbeSlot: one probe too many.
HasProbeSlotLate == circuit.probes <= ProbeMax

HasProbeSlot == circuit.probes < ProbeMax

PassHalfOpen(c, k) ==
    /\ circuit.state = "half-open"
    /\ HasProbeSlot
    /\ circuit' = [circuit EXCEPT !.probes = @ + 1]
    /\ call' = [call EXCEPT ![c] = Started(k, TRUE)]
    /\ UNCHANGED wasted

\* The first call after the cool-down; calls let through before are no probes any more.
PassOpen(c, k) ==
    /\ circuit.state = "open"
    /\ circuit.openFor = 0
    /\ circuit' = [circuit EXCEPT !.state = "half-open", !.probes = 1]
    /\ call' = [d \in Calls |-> IF d = c THEN Started(k, TRUE)
                                         ELSE [call[d] EXCEPT !.probe = FALSE]]
    /\ wasted' = 0

-----------------------------------------------------------------------------
(* The attempts of a call. *)

\* requestJson begins.  A call the breaker turns away changes nothing.
Begin(c, k) ==
    /\ call[c].stage = "idle"
    /\ PassClosed(c, k) \/ PassHalfOpen(c, k) \/ PassOpen(c, k)
    /\ UNCHANGED failed

Move(c, stage) == call' = [call EXCEPT ![c] = [call[c] EXCEPT !.stage = stage]]

Finish(c) == call' = [call EXCEPT ![c] = [call[c] EXCEPT !.stage = "idle", !.probe = FALSE]]

\* c ends with an error that is no circuit failure.
EndUntold(c) ==
    /\ Finish(c)
    /\ wasted' = IF circuit.state = "half-open" /\ call[c].probe THEN wasted + 1 ELSE wasted
    /\ UNCHANGED <<circuit, failed>>

\* c ends with an error that recordCircuitFailure counts n times.
EndFailed(c, n) ==
    /\ Finish(c)
    /\ circuit' = Counted(n)
    /\ failed' = Smaller(failed + 1, FailureThreshold)
    /\ UNCHANGED wasted

\* Mutant of RetryLimit: any POST is attempted again.
RetryLimitAny(k) == MaxRetries

\* resolveRetryLimit.
RetryLimit(k) == IF k \in {"read", "retryJob"} THEN MaxRetries ELSE 0

HasAttempts(c) == call[c].attempt < RetryLimit(call[c].kind)

BackOff(c) ==
    /\ Move(c, "backoff")
    /\ UNCHANGED <<circuit, failed, wasted>>

\* An attempt failed in a way shouldRetryForError accepts.
FailAttempt(c, n) ==
    \/ HasAttempts(c) /\ BackOff(c)
    \/ ~HasAttempts(c) /\ EndFailed(c, n)

\* authHeaderProvider throws, outside the try of the attempt.
HeaderFails(c) ==
    /\ call[c].stage = "header"
    /\ EndUntold(c)

\* Call x with a request under way.
Sent(x, carried) ==
    [x EXCEPT !.stage = "sent", !.carried = carried,
              !.effects = IF carried /\ x.kind # "read" THEN @ + 1 ELSE @]

Send(c) ==
    /\ call[c].stage = "header"
    /\ \E carried \in BOOLEAN : call' = [call EXCEPT ![c] = Sent(call[c], carried)]
    /\ UNCHANGED <<circuit, failed, wasted>>

AnswerOk(c) ==
    /\ call[c].stage = "sent"
    /\ call[c].carried
    /\ Move(c, "body")
    /\ RecordSuccess

AnswerRefused(c) ==
    /\ call[c].stage = "sent"
    /\ ~call[c].carried
    /\ EndUntold(c)

\* The error is thrown inside the try: where it ends the call, it is counted by the
\* branch that throws it and again by the catch.
AnswerServerError(c) ==
    /\ call[c].stage = "sent"
    /\ FailAttempt(c, 2)

\* The timer runs out or the network fails, before the head of the answer or before
\* the end of its body.
NoAnswer(c) ==
    /\ call[c].stage \in {"sent", "body"}
    /\ FailAttempt(c, 1)

\* The body is read; one that is no JSON ends the call too.
ReadBody(c) ==
    /\ call[c].stage = "body"
    /\ EndUntold(c)

\* Call x at its next attempt.
Again(x) == [x EXCEPT !.stage = "header", !.attempt = @ + 1]

\* sleepWithJitter is over.
NextAttempt(c) ==
    /\ call[c].stage = "backoff"
    /\ call' = [call EXCEPT ![c] = Again(call[c])]
    /\ UNCHANGED <<circuit, failed, wasted>>

Tick ==
    /\ circuit.openFor > 0
    /\ circuit' = [circuit EXCEPT !.openFor = @ - 1]
    /\ UNCHANGED <<call, failed, wasted>>

Step(c) ==
    \/ HeaderFails(c)
    \/ Send(c)
    \/ AnswerOk(c)
    \/ AnswerRefused(c)
    \/ AnswerServerError(c)
    \/ NoAnswer(c)
    \/ ReadBody(c)
    \/ NextAttempt(c)

Next ==
    \/ \E c \in Calls : Step(c) \/ \E k \in Kinds : Begin(c, k)
    \/ Tick

Spec == Init /\ [][Next]_vars

\* Every await ends: the provider's by itself, an attempt's by its timer at the latest, a
\* back-off's by its timer.  The pages poll: a call that may begin is made again and
\* again.  The clock runs.
Fairness ==
    /\ \A c \in Calls : WF_vars(Step(c))
    /\ WF_vars(\E c \in Calls, k \in Kinds : Begin(c, k))
    /\ WF_vars(Tick)

LiveSpec == Spec /\ Fairness

-----------------------------------------------------------------------------
(* Properties. *)

TypeOK ==
    /\ call \in [Calls -> CallSet]
    /\ circuit \in CircuitSet
    /\ failed \in 0 .. FailureThreshold
    /\ wasted \in Nat

\* recordCircuitFailure does not reset the count when it opens, so one failing probe
\* opens the breaker again: a breaker that is not closed stands at its threshold,
\* whatever calls from before end meanwhile.
ReopensAtOnce == circuit.state # "closed" => circuit.failures = FailureThreshold

\* A call counts at most twice however often it is attempted: the breaker leaves closed
\* only after calls that failed since the last success, half its threshold at least.
OpensOnFailures == circuit.state # "closed" => 2 * failed >= FailureThreshold

\* While half-open, every taken place of the probe budget belongs to a probe of this
\* period that is under way or that ended without a verdict on the server, and the
\* budget is kept: calls from before the cool-down neither take nor free a place.
ProbeSlots ==
    circuit.state = "half-open" =>
        /\ circuit.probes = Cardinality(Probes) + wasted
        /\ circuit.probes <= ProbeMax

\* The breaker all calls share, whatever calls from before a change of its state do to
\* it: it opens on failures only, opens again at one failing probe, and its probe budget
\* accounts for every probe (assertCircuitAllowsRequest, recordCircuitFailure).
BreakerSound ==
    /\ ReopensAtOnce
    /\ OpensOnFailures
    /\ ProbeSlots

\* A POST that resolveRetryLimit does not list is carried out once at most, through lost
\* answers, time-outs and server errors.
CreatedOnce == \A c \in Calls : call[c].kind = "create" => call[c].effects <= 1

\* ADR-transport-contract-v1 asks for no duplicate side effects of retried operations
\* that are not idempotent; retrying a job mints another one each time.
NoDuplicateEffects == \A c \in Calls : call[c].kind # "read" => call[c].effects <= 1

\* Open is left after the cool-down, and half-open is left unless every probe ended
\* without a verdict (a refusal, or no credentials): then nothing frees a place again.
BreakerMoves ==
    /\ circuit.state = "open" ~> circuit.state # "open"
    /\ circuit.state = "half-open" ~> circuit.state # "half-open" \/ wasted = ProbeMax

=============================================================================
