------------------------- MODULE ApiTransport_proofs -------------------------
(***************************************************************************)
(* Proofs about ApiTransport: its type invariant, what the breaker's count *)
(* and probe budget mean, and that an unlisted POST is carried out once at *)
(* most, for any number of concurrent calls and any policy.                *)
(***************************************************************************)
EXTENDS ApiTransport, FiniteSetTheorems, TLAPS

\* How often a call may have been carried out, attempt by attempt.
CallShape(x) ==
    /\ x.attempt <= RetryLimit(x.kind)
    /\ x.stage = "backoff" => x.attempt < RetryLimit(x.kind)
    /\ x.stage = "header" => x.effects <= x.attempt
    /\ x.effects <= x.attempt + 1

CallShapes == \A c \in Calls : CallShape(call[c])

\* A call that failed was counted twice at most.
CountedTwice == circuit.failures <= 2 * failed

\* The inductive invariant.
IInv == TypeOK /\ CallShapes /\ ReopensAtOnce /\ CountedTwice /\ ProbeSlots

-----------------------------------------------------------------------------
LEMMA RetryLimitRange ==
    ASSUME NEW k
    PROVE  RetryLimit(k) \in 0 .. MaxRetries
  BY ConstantsAssumption DEF RetryLimit

LEMMA SmallerType ==
    ASSUME NEW n \in Nat, NEW b \in Nat
    PROVE  Smaller(n, b) \in 0 .. b /\ Smaller(n, b) <= n
  BY DEF Smaller

\* What a counted failure makes of the breaker.
LEMMA CountedShape ==
    ASSUME TypeOK, NEW n \in {1, 2}
    PROVE  /\ Counted(n) \in CircuitSet
           /\ Counted(n).failures = Smaller(circuit.failures + n, FailureThreshold)
           /\ Counted(n).failures < FailureThreshold => Counted(n).state = circuit.state
           /\ Counted(n).failures >= FailureThreshold => Counted(n).state = "open"
  <1> DEFINE f == Smaller(circuit.failures + n, FailureThreshold)
  <1>1. /\ circuit \in CircuitSet
        /\ circuit.failures \in Nat
        /\ FailureThreshold \in Nat
        /\ CoolDown \in 0 .. CoolDown
        /\ 0 \in 0 .. ProbeMax
    BY ConstantsAssumption DEF TypeOK, CircuitSet
  <1>2. f \in 0 .. FailureThreshold
    <2>1. circuit.failures + n \in Nat
      BY <1>1
    <2>2. QED BY <1>1, <2>1, SmallerType
  <1> HIDE DEF f
  <1>3. CASE f < FailureThreshold
    <2>1. Counted(n) = [circuit EXCEPT !.failures = f]
      BY <1>3 DEF Counted, f
    <2>2. QED BY <1>1, <1>2, <1>3, <2>1 DEF CircuitSet, f
  <1>4. CASE ~(f < FailureThreshold)
    <2>1. Counted(n) = [state |-> "open", failures |-> f, openFor |-> CoolDown, probes |-> 0]
      BY <1>4 DEF Counted, f
    <2>2. QED BY <1>1, <1>2, <1>4, <2>1 DEF CircuitSet, f
  <1>5. QED BY <1>3, <1>4

-----------------------------------------------------------------------------
LEMMA InitIInv == Init => IInv
  <1> SUFFICES ASSUME Init PROVE IInv
    OBVIOUS
  <1> USE ConstantsAssumption DEF Init
  <1>1. TypeOK
    BY DEF TypeOK, NoCall, CallSet, AllKinds, Closed, CircuitSet
  <1>2. CallShapes
    BY RetryLimitRange DEF CallShapes, CallShape, NoCall
  <1>3. ReopensAtOnce /\ CountedTwice /\ ProbeSlots
    BY DEF ReopensAtOnce, CountedTwice, ProbeSlots, Closed
  <1>4. QED BY <1>1, <1>2, <1>3 DEF IInv

-----------------------------------------------------------------------------
(* Types and shapes of calls: what a step makes of one call. *)

\* A step leaves every call but c as it is, a probe's mark aside.
Elsewhere(c) ==
    \A d \in Calls \ {c} : call'[d] = call[d] \/ call'[d] = [call[d] EXCEPT !.probe = FALSE]

LEMMA CallsKept ==
    ASSUME IInv, NEW c \in Calls, Elsewhere(c),
           call' = [d \in Calls |-> call'[d]],
           call'[c] \in CallSet, CallShape(call'[c])
    PROVE  call' \in [Calls -> CallSet] /\ CallShapes'
  <1>1. ASSUME NEW d \in Calls PROVE call'[d] \in CallSet /\ CallShape(call'[d])
    <2>1. call[d] \in CallSet /\ CallShape(call[d])
      BY DEF IInv, TypeOK, CallShapes
    <2>2. CASE d = c
      BY <2>2
    <2>3. CASE d # c
      <3>1. CASE call'[d] = call[d]
        BY <2>1, <3>1
      <3>2. CASE call'[d] = [call[d] EXCEPT !.probe = FALSE]
        BY <2>1, <3>2 DEF CallSet, CallShape
      <3>3. QED BY <2>3, <3>1, <3>2 DEF Elsewhere
    <2>4. QED BY <2>2, <2>3
  <1>2. QED BY <1>1 DEF CallShapes

\* A change of c alone.
LEMMA OneChanged ==
    ASSUME TypeOK, NEW c \in Calls, NEW x, call' = [call EXCEPT ![c] = x]
    PROVE  /\ call'[c] = x
           /\ Elsewhere(c)
           /\ call' = [d \in Calls |-> call'[d]]
  BY DEF TypeOK, Elsewhere

LEMMA StartedShape ==
    ASSUME NEW k \in Kinds, NEW p \in BOOLEAN
    PROVE  Started(k, p) \in CallSet /\ CallShape(Started(k, p))
  <1>1. k \in AllKinds /\ MaxRetries \in Nat /\ RetryLimit(k) \in 0 .. MaxRetries
    BY ConstantsAssumption, RetryLimitRange
  <1>2. Started(k, p) \in CallSet
    <2>1. 0 \in 0 .. MaxRetries /\ 0 \in 0 .. MaxRetries + 1
      BY <1>1
    <2>2. QED BY <1>1, <2>1 DEF Started, NoCall, CallSet
  <1>3. CallShape(Started(k, p))
    BY <1>1 DEF Started, NoCall, CallShape
  <1>4. QED BY <1>2, <1>3

LEMMA BeginCalls ==
    ASSUME IInv, NEW c \in Calls, NEW k \in Kinds, Begin(c, k)
    PROVE  call' \in [Calls -> CallSet] /\ CallShapes'
  <1>1. CASE PassClosed(c, k)
    <2>1. call' = [call EXCEPT ![c] = Started(k, FALSE)]
      BY <1>1 DEF PassClosed
    <2>2. QED BY <2>1, OneChanged, StartedShape, CallsKept DEF IInv
  <1>2. CASE PassHalfOpen(c, k)
    <2>1. call' = [call EXCEPT ![c] = Started(k, TRUE)]
      BY <1>2 DEF PassHalfOpen
    <2>2. QED BY <2>1, OneChanged, StartedShape, CallsKept DEF IInv
  <1>3. CASE PassOpen(c, k)
    <2>1. /\ call'[c] = Started(k, TRUE)
          /\ Elsewhere(c)
          /\ call' = [d \in Calls |-> call'[d]]
      BY <1>3 DEF PassOpen, Elsewhere
    <2>2. QED BY <2>1, StartedShape, CallsKept
  <1>4. QED BY <1>1, <1>2, <1>3 DEF Begin

LEMMA StepCalls ==
    ASSUME IInv, NEW c \in Calls, Step(c)
    PROVE  call' \in [Calls -> CallSet] /\ CallShapes'
  <1> DEFINE x == call[c]
  <1>1. /\ x \in CallSet
        /\ CallShape(x)
        /\ RetryLimit(x.kind) \in 0 .. MaxRetries
        /\ MaxRetries \in Nat
    BY ConstantsAssumption, RetryLimitRange DEF IInv, TypeOK, CallShapes
  <1>2. ASSUME NEW y, call' = [call EXCEPT ![c] = y], y \in CallSet, CallShape(y)
        PROVE  call' \in [Calls -> CallSet] /\ CallShapes'
    BY <1>2, OneChanged, CallsKept DEF IInv
  <1>3. CASE Finish(c)
    <2> DEFINE y == [x EXCEPT !.stage = "idle", !.probe = FALSE]
    <2>1. y \in CallSet /\ CallShape(y)
      BY <1>1 DEF CallSet, CallShape
    <2>2. call' = [call EXCEPT ![c] = y]
      BY <1>3 DEF Finish
    <2>3. QED BY <2>1, <2>2, <1>2
  <1>4. CASE HasAttempts(c) /\ BackOff(c)
    <2> DEFINE y == [x EXCEPT !.stage = "backoff"]
    <2>1. y \in CallSet /\ CallShape(y)
      BY <1>1, <1>4 DEF CallSet, CallShape, HasAttempts
    <2>2. call' = [call EXCEPT ![c] = y]
      BY <1>4, <1>1 DEF BackOff, Move, IInv, TypeOK
    <2>3. QED BY <2>1, <2>2, <1>2
  <1>5. CASE Send(c)
    <2>1. PICK carried \in BOOLEAN : call' = [call EXCEPT ![c] = Sent(x, carried)]
      BY <1>5 DEF Send
    <2> DEFINE e == IF carried /\ x.kind # "read" THEN x.effects + 1 ELSE x.effects
               y == [x EXCEPT !.stage = "sent", !.carried = carried, !.effects = e]
    <2>2. x.stage = "header"
      BY <1>5 DEF Send
    <2>3. e \in 0 .. MaxRetries + 1 /\ e <= x.attempt + 1
      BY <1>1, <2>2 DEF CallSet, CallShape
    <2>4. Sent(x, carried) = y
      BY DEF Sent
    <2> HIDE DEF e
    <2>5. y \in CallSet /\ CallShape(y)
      BY <1>1, <2>3 DEF CallSet, CallShape
    <2>6. QED BY <2>1, <2>4, <2>5, <1>2
  <1>6. CASE AnswerOk(c)
    <2> DEFINE y == [x EXCEPT !.stage = "body"]
    <2>1. y \in CallSet /\ CallShape(y)
      BY <1>1 DEF CallSet, CallShape
    <2>2. call' = [call EXCEPT ![c] = y]
      BY <1>6, <1>1 DEF AnswerOk, Move, IInv, TypeOK
    <2>3. QED BY <2>1, <2>2, <1>2
  <1>7. CASE NextAttempt(c)
    <2>1. Again(x) \in CallSet /\ CallShape(Again(x))
      <3>1. /\ x.stage = "backoff"
            /\ x.attempt + 1 <= RetryLimit(x.kind)
            /\ x.attempt + 1 \in 0 .. MaxRetries
            /\ x.effects <= x.attempt + 1
        BY <1>1, <1>7 DEF CallSet, CallShape, NextAttempt
      <3>2. /\ Again(x) = [x EXCEPT !.stage = "header", !.attempt = x.attempt + 1]
            /\ Again(x).kind = x.kind
            /\ Again(x).stage = "header"
            /\ Again(x).attempt = x.attempt + 1
            /\ Again(x).effects = x.effects
        BY <1>1 DEF Again, CallSet
      <3>3. Again(x) \in CallSet
        BY <1>1, <3>1, <3>2 DEF CallSet
      <3>4. x.effects \in Nat /\ x.attempt \in Nat
        BY <1>1 DEF CallSet
      <3>5. CallShape(Again(x))
        BY <3>1, <3>2, <3>4 DEF CallShape
      <3>6. QED BY <3>3, <3>5
    <2>2. call' = [call EXCEPT ![c] = Again(x)]
      BY <1>7 DEF NextAttempt
    <2>3. QED BY <2>1, <2>2, <1>2
  <1>8. QED
    BY <1>3, <1>4, <1>5, <1>6, <1>7 DEF Step, HeaderFails, AnswerRefused, ReadBody,
       EndUntold, AnswerServerError, NoAnswer, FailAttempt, EndFailed

-----------------------------------------------------------------------------
(* The breaker. *)

\* The cardinalities ProbeSlots speaks of.
LEMMA ProbesFinite ==
    /\ IsFiniteSet(Probes)
    /\ Cardinality(Probes) \in Nat
    /\ \A c \in Calls \ Probes : Cardinality(Probes \cup {c}) = Cardinality(Probes) + 1
    /\ \A c \in Probes : Cardinality(Probes \ {c}) = Cardinality(Probes) - 1
  <1>1. IsFiniteSet(Probes)
    <2>1. Probes \subseteq Calls
      BY DEF Probes, Underway
    <2>2. QED BY <2>1, FS_Subset, ConstantsAssumption
  <1>2. QED BY <1>1, FS_CardinalityType, FS_AddElement, FS_RemoveElement

\* The part of the invariant about the breaker, but for ProbeSlots.
Breaker ==
    /\ circuit \in CircuitSet
    /\ failed \in 0 .. FailureThreshold
    /\ wasted \in Nat
    /\ ReopensAtOnce
    /\ CountedTwice

LEMMA FailedBreaker ==
    ASSUME IInv, NEW n \in {1, 2}, circuit' = Counted(n),
           failed' = Smaller(failed + 1, FailureThreshold), UNCHANGED wasted
    PROVE  Breaker' /\ ProbeSlots'
  <1>1. /\ FailureThreshold \in Nat
        /\ circuit.failures \in 0 .. FailureThreshold
        /\ failed \in 0 .. FailureThreshold
        /\ circuit.failures <= 2 * failed
        /\ wasted \in Nat
    BY ConstantsAssumption DEF IInv, TypeOK, CircuitSet, CountedTwice
  <1>2. /\ circuit' \in CircuitSet
        /\ circuit'.failures = Smaller(circuit.failures + n, FailureThreshold)
        /\ circuit'.failures < FailureThreshold => circuit'.state = circuit.state
        /\ circuit'.failures >= FailureThreshold => circuit'.state = "open"
    BY CountedShape DEF IInv
  <1>3. failed' \in 0 .. FailureThreshold
    BY <1>1, SmallerType
  <1>4. CountedTwice'
    BY <1>1, <1>2 DEF CountedTwice, Smaller
  <1>5. ReopensAtOnce' /\ (circuit'.state # "half-open")
    <2>1. CASE circuit'.failures < FailureThreshold
      <3>1. circuit.failures < FailureThreshold
        BY <1>1, <1>2, <2>1 DEF Smaller
      <3>2. circuit.state = "closed"
        BY <3>1, <1>1 DEF IInv, ReopensAtOnce
      <3>3. QED BY <3>2, <2>1, <1>2 DEF ReopensAtOnce
    <2>2. CASE circuit'.failures >= FailureThreshold
      <3>1. circuit'.failures = FailureThreshold
        BY <1>1, <1>2, <2>2 DEF Smaller
      <3>2. QED BY <3>1, <2>2, <1>2 DEF ReopensAtOnce
    <2>3. QED BY <2>1, <2>2, <1>1, <1>2 DEF CircuitSet
  <1>6. ProbeSlots'
    BY <1>5 DEF ProbeSlots
  <1>7. QED BY <1>1, <1>2, <1>3, <1>4, <1>5, <1>6 DEF Breaker

LEMMA BeginBreaker ==
    ASSUME IInv, NEW c \in Calls, NEW k \in Kinds, Begin(c, k)
    PROVE  Breaker' /\ ProbeSlots'
  <1>1. /\ c \notin Probes
        /\ UNCHANGED failed
        /\ call \in [Calls -> CallSet]
        /\ ProbeMax \in Nat \ {0}
        /\ Started(k, TRUE).stage = "header" /\ Started(k, TRUE).probe = TRUE
    BY ConstantsAssumption DEF Begin, Probes, Underway, IInv, TypeOK, Started, NoCall
  <1>2. Breaker
    BY DEF IInv, TypeOK, Breaker
  <1>3. CASE PassClosed(c, k)
    <2>1. UNCHANGED <<circuit, wasted>> /\ circuit.state = "closed"
      BY <1>3 DEF PassClosed
    <2>2. Breaker'
      BY <1>1, <1>2, <2>1 DEF Breaker, ReopensAtOnce, CountedTwice
    <2>3. ProbeSlots'
      BY <2>1 DEF ProbeSlots
    <2>4. QED BY <2>2, <2>3
  <1>4. CASE PassHalfOpen(c, k)
    <2>1. /\ circuit.state = "half-open"
          /\ circuit.probes < ProbeMax
          /\ circuit' = [circuit EXCEPT !.probes = @ + 1]
          /\ call' = [call EXCEPT ![c] = Started(k, TRUE)]
          /\ UNCHANGED wasted
      BY <1>4 DEF PassHalfOpen, HasProbeSlot
    <2>2. circuit' \in CircuitSet
      BY <1>1, <1>2, <2>1 DEF Breaker, CircuitSet
    <2>3. Breaker'
      BY <1>1, <1>2, <2>1, <2>2 DEF Breaker, ReopensAtOnce, CountedTwice, CircuitSet
    <2>4. Probes' = Probes \cup {c}
      BY <1>1, <2>1 DEF Probes, Underway
    <2>5. Cardinality(Probes)' = Cardinality(Probes) + 1
      BY <1>1, <2>4, ProbesFinite
    <2>6. circuit.probes = Cardinality(Probes) + wasted /\ circuit.probes \in Nat
      BY <2>1, <1>2 DEF IInv, ProbeSlots, Breaker, CircuitSet
    <2>7. circuit'.probes = circuit.probes + 1 /\ circuit'.probes <= ProbeMax
      BY <2>1, <2>6, <1>1, <1>2 DEF Breaker, CircuitSet
    <2>8. wasted \in Nat /\ Cardinality(Probes) \in Nat
      BY <1>2, ProbesFinite DEF Breaker
    <2>9. ProbeSlots'
      BY <2>1, <2>5, <2>6, <2>7, <2>8 DEF ProbeSlots
    <2>10. QED BY <2>3, <2>9
  <1>5. CASE PassOpen(c, k)
    <2>1. /\ circuit.state = "open"
          /\ circuit' = [circuit EXCEPT !.state = "half-open", !.probes = 1]
          /\ wasted' = 0
      BY <1>5 DEF PassOpen
    <2>2. circuit' \in CircuitSet
      <3>1. 1 \in 0 .. ProbeMax
        BY <1>1
      <3>2. QED BY <1>2, <2>1, <3>1 DEF Breaker, CircuitSet
    <2>3. Breaker'
      BY <1>1, <1>2, <2>1, <2>2 DEF Breaker, ReopensAtOnce, CountedTwice, CircuitSet
    <2>4. ASSUME NEW d \in Calls
          PROVE  call'[d] = IF d = c THEN Started(k, TRUE) ELSE [call[d] EXCEPT !.probe = FALSE]
      BY <1>5 DEF PassOpen
    <2>5. ASSUME NEW d \in Calls, d # c PROVE ~call'[d].probe
      BY <1>1, <2>4, <2>5 DEF CallSet
    <2>6. Probes' = {c}
      BY <1>1, <2>4, <2>5 DEF Probes, Underway
    <2>7. Cardinality(Probes)' = 1
      BY <2>6, FS_Singleton
    <2>8. circuit'.probes = 1
      BY <2>1, <1>2 DEF Breaker, CircuitSet
    <2>9. ProbeSlots'
      BY <2>1, <2>7, <2>8, <1>1 DEF ProbeSlots
    <2>10. QED BY <2>3, <2>9
  <1>6. QED BY <1>3, <1>4, <1>5 DEF Begin

\* A step of c that leaves the breaker alone and c under way.
LEMMA QuietBreaker ==
    ASSUME IInv, NEW c \in Calls, UNCHANGED <<circuit, failed, wasted>>,
           NEW y, call' = [call EXCEPT ![c] = y], call[c].stage # "idle", y.stage # "idle",
           y.probe = call[c].probe
    PROVE  Breaker' /\ ProbeSlots'
  <1>1. Probes' = Probes
    BY DEF IInv, TypeOK, Probes, Underway
  <1>2. Breaker'
    BY DEF IInv, TypeOK, Breaker, ReopensAtOnce, CountedTwice
  <1>3. ProbeSlots'
    BY <1>1 DEF IInv, ProbeSlots
  <1>4. QED BY <1>2, <1>3

LEMMA UntoldBreaker ==
    ASSUME IInv, NEW c \in Calls, call[c].stage # "idle", EndUntold(c)
    PROVE  Breaker' /\ ProbeSlots'
  <1>1. /\ call \in [Calls -> CallSet]
        /\ wasted \in Nat
        /\ UNCHANGED <<circuit, failed>>
        /\ wasted' = IF circuit.state = "half-open" /\ call[c].probe THEN wasted + 1 ELSE wasted
        /\ call' = [call EXCEPT ![c] = [call[c] EXCEPT !.stage = "idle", !.probe = FALSE]]
    BY DEF IInv, TypeOK, EndUntold, Finish
  <1>2. Breaker'
    BY <1>1 DEF IInv, TypeOK, Breaker, ReopensAtOnce, CountedTwice
  <1>3. Probes' = Probes \ {c}
    BY <1>1 DEF Probes, Underway, CallSet
  <1>4. c \in Probes <=> call[c].probe
    BY DEF Probes, Underway
  <1>5. ProbeSlots'
    <2> SUFFICES ASSUME circuit.state = "half-open"
                 PROVE  circuit.probes = Cardinality(Probes)' + wasted'
      BY <1>1 DEF IInv, ProbeSlots
    <2>1. circuit.probes = Cardinality(Probes) + wasted
      BY DEF IInv, ProbeSlots
    <2>2. CASE c \in Probes
      <3>1. Cardinality(Probes)' = Cardinality(Probes) - 1
        BY <1>3, <2>2, ProbesFinite
      <3>2. wasted' = wasted + 1
        BY <1>1, <1>4, <2>2
      <3>3. QED BY <2>1, <3>1, <3>2, <1>1, ProbesFinite
    <2>3. CASE c \notin Probes
      <3>1. Probes' = Probes
        BY <1>3, <2>3
      <3>2. wasted' = wasted
        BY <1>1, <1>4, <2>3
      <3>3. QED BY <2>1, <3>1, <3>2
    <2>4. QED BY <2>2, <2>3
  <1>6. QED BY <1>2, <1>5

LEMMA StepBreaker ==
    ASSUME IInv, NEW c \in Calls, Step(c)
    PROVE  Breaker' /\ ProbeSlots'
  <1>1. call \in [Calls -> CallSet] /\ call[c] \in CallSet
    BY DEF IInv, TypeOK
  <1>2. CASE HeaderFails(c) \/ AnswerRefused(c) \/ ReadBody(c)
    <2>1. call[c].stage # "idle" /\ EndUntold(c)
      BY <1>2 DEF HeaderFails, AnswerRefused, ReadBody
    <2>2. QED BY <2>1, UntoldBreaker
  <1>3. CASE Send(c)
    <2>1. PICK carried \in BOOLEAN : call' = [call EXCEPT ![c] = Sent(call[c], carried)]
      BY <1>3 DEF Send
    <2>2. Sent(call[c], carried).stage = "sent" /\ Sent(call[c], carried).probe = call[c].probe
      BY <1>1 DEF Sent, CallSet
    <2>3. call[c].stage # "idle" /\ UNCHANGED <<circuit, failed, wasted>>
      BY <1>3 DEF Send
    <2>4. QED BY <2>1, <2>2, <2>3, QuietBreaker
  <1>4. CASE NextAttempt(c)
    <2>1. call' = [call EXCEPT ![c] = Again(call[c])]
      BY <1>4 DEF NextAttempt
    <2>2. Again(call[c]).stage = "header" /\ Again(call[c]).probe = call[c].probe
      BY <1>1 DEF Again, CallSet
    <2>3. call[c].stage # "idle" /\ UNCHANGED <<circuit, failed, wasted>>
      BY <1>4 DEF NextAttempt
    <2>4. QED BY <2>1, <2>2, <2>3, QuietBreaker
  <1>5. CASE AnswerOk(c)
    <2>1. circuit' = Closed /\ failed' = 0 /\ UNCHANGED wasted
      BY <1>5 DEF AnswerOk, RecordSuccess
    <2>2. Breaker'
      BY <2>1, ConstantsAssumption
         DEF IInv, TypeOK, Breaker, ReopensAtOnce, CountedTwice, Closed, CircuitSet
    <2>3. ProbeSlots'
      BY <2>1 DEF ProbeSlots, Closed
    <2>4. QED BY <2>2, <2>3
  <1>6. ASSUME NEW n \in {1, 2}, FailAttempt(c, n), call[c].stage # "idle"
        PROVE  Breaker' /\ ProbeSlots'
    <2>1. CASE BackOff(c)
      <3> DEFINE y == [call[c] EXCEPT !.stage = "backoff"]
      <3>1. call' = [call EXCEPT ![c] = y]
        BY <2>1, <1>1 DEF BackOff, Move
      <3>2. y.stage # "idle" /\ y.probe = call[c].probe
        BY <1>1 DEF CallSet
      <3>3. UNCHANGED <<circuit, failed, wasted>>
        BY <2>1 DEF BackOff
      <3>4. QED BY <1>6, <3>1, <3>2, <3>3, QuietBreaker
    <2>2. CASE EndFailed(c, n)
      BY <2>2, FailedBreaker DEF EndFailed
    <2>3. QED BY <1>6, <2>1, <2>2 DEF FailAttempt
  <1>7. CASE AnswerServerError(c)
    BY <1>6, <1>7 DEF AnswerServerError
  <1>8. CASE NoAnswer(c)
    BY <1>6, <1>8 DEF NoAnswer
  <1>9. QED BY <1>2, <1>3, <1>4, <1>5, <1>7, <1>8 DEF Step

-----------------------------------------------------------------------------
LEMMA NextIInv == IInv /\ [Next]_vars => IInv'
  <1> SUFFICES ASSUME IInv, [Next]_vars PROVE IInv'
    OBVIOUS
  <1>1. ASSUME call' \in [Calls -> CallSet], CallShapes', Breaker', ProbeSlots'
        PROVE  IInv'
    BY <1>1 DEF IInv, TypeOK, Breaker
  <1>2. ASSUME NEW c \in Calls, Step(c) PROVE IInv'
    BY <1>1, <1>2, StepCalls, StepBreaker
  <1>3. ASSUME NEW c \in Calls, NEW k \in Kinds, Begin(c, k) PROVE IInv'
    BY <1>1, <1>3, BeginCalls, BeginBreaker
  <1>4. CASE Tick
    <2>1. /\ circuit.openFor > 0
          /\ circuit' = [circuit EXCEPT !.openFor = @ - 1]
          /\ UNCHANGED <<call, failed, wasted>>
      BY <1>4 DEF Tick
    <2>2. circuit \in CircuitSet /\ CoolDown \in Nat
      BY ConstantsAssumption DEF IInv, TypeOK
    <2>3. /\ circuit' \in CircuitSet
          /\ circuit'.state = circuit.state
          /\ circuit'.failures = circuit.failures
          /\ circuit'.probes = circuit.probes
      BY <2>1, <2>2 DEF CircuitSet
    <2>4. CallShapes' /\ Probes' = Probes
      BY <2>1 DEF IInv, CallShapes, Probes, Underway
    <2>5. ProbeSlots'
      BY <2>1, <2>3, <2>4 DEF IInv, ProbeSlots
    <2>6. QED BY <2>1, <2>3, <2>4, <2>5 DEF IInv, TypeOK, ReopensAtOnce, CountedTwice
  <1>5. CASE UNCHANGED vars
    BY <1>5 DEF vars, IInv, TypeOK, CallShapes, ReopensAtOnce, CountedTwice, ProbeSlots,
       Probes, Underway
  <1>6. QED BY <1>2, <1>3, <1>4, <1>5 DEF Next

-----------------------------------------------------------------------------
\* The inductive invariant holds, whatever the number of calls and the policy.
THEOREM InductiveInvariant == Spec => []IInv
  BY InitIInv, NextIInv, PTL DEF Spec

\* Calls, breaker and histories keep their types: no call makes more attempts than its
\* policy allows.
THEOREM TypeCorrect == Spec => []TypeOK
  <1>1. IInv => TypeOK
    BY DEF IInv
  <1>2. QED BY <1>1, InductiveInvariant, PTL

\* One failing probe opens the breaker again.
THEOREM ReopensFromProbe == Spec => []ReopensAtOnce
  <1>1. IInv => ReopensAtOnce
    BY DEF IInv
  <1>2. QED BY <1>1, InductiveInvariant, PTL

\* The breaker opens only after failing calls, half its threshold at least.
THEOREM OpenedByFailures == Spec => []OpensOnFailures
  <1>1. IInv => OpensOnFailures
    BY ConstantsAssumption
       DEF IInv, TypeOK, CircuitSet, ReopensAtOnce, CountedTwice, OpensOnFailures
  <1>2. QED BY <1>1, InductiveInvariant, PTL

\* A place of the probe budget is a probe under way or one that ended without a verdict.
THEOREM BudgetKept == Spec => []ProbeSlots
  <1>1. IInv => ProbeSlots
    BY DEF IInv
  <1>2. QED BY <1>1, InductiveInvariant, PTL

\* An unlisted POST has one effect at most.
THEOREM SingleEffect == Spec => []CreatedOnce
  <1>1. IInv => CreatedOnce
    <2> SUFFICES ASSUME IInv, NEW c \in Calls, call[c].kind = "create"
                 PROVE  call[c].effects <= 1
      BY DEF CreatedOnce
    <2>1. RetryLimit(call[c].kind) = 0
      BY DEF RetryLimit
    <2>2. /\ call[c].attempt \in Nat
          /\ call[c].effects \in Nat
          /\ call[c].attempt <= 0
          /\ call[c].effects <= call[c].attempt + 1
      BY <2>1, ConstantsAssumption DEF IInv, TypeOK, CallSet, CallShapes, CallShape
    <2>3. QED BY <2>2
  <1>2. QED BY <1>1, InductiveInvariant, PTL

\* The shared breaker is sound for any number of concurrent calls and any policy.
THEOREM BreakerIsSound == Spec => []BreakerSound
  <1>1. ReopensAtOnce /\ OpensOnFailures /\ ProbeSlots => BreakerSound
    BY DEF BreakerSound
  <1>2. QED BY <1>1, ReopensFromProbe, OpenedByFailures, BudgetKept, PTL
=============================================================================
