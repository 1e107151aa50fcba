------------------------- MODULE BacktestAdmission -------------------------
(***************************************************************************)
(* How the control plane checks a request for a backtest: the size estimate *)
(* and its confirmation token, the leakage checks, and the order POST       *)
(* /backtest-runs applies them in.  The token is a digest, so it stands for *)
(* what it was taken of.  At this commit no request gets further than the   *)
(* checks: the run handed to the repository names a column the table has    *)
(* not, so what passes them is answered 500 and nothing is stored.          *)
(***************************************************************************)
EXTENDS Integers, FiniteSets, SequencesExt

CONSTANTS
    BacktestRequests,   \* request bodies, as far as the checks tell them apart
    OversizedThreshold  \* OVERSIZED_THRESHOLD

ASSUME AdmissionConstants ==
    /\ OversizedThreshold \in Nat
    /\ \A r \in BacktestRequests :
        /\ r.symbols \in Nat /\ r.symbolCount \in Int /\ r.days \in Int
        /\ {r.lookahead, r.target, r.lineage} \subseteq BOOLEAN
        /\ r.config \in {"none", "unknown", "no dataset", "unfit", "fits"}

VARIABLES
    tokens,    \* confirmation tokens the client was given
    asked      \* the latest POST /backtest-runs: request, token and answer

admissionVars == <<tokens, asked>>
NoToken == [units |-> 0]

-----------------------------------------------------------------------------
AtLeastOne(n) == IF n < 1 THEN 1 ELSE n

\* A list of symbols counts when it is not empty; a window that ends before it
\* begins counts as a day.
EstimatedUnits(r) ==
    AtLeastOne(IF r.symbols > 0 THEN r.symbols ELSE r.symbolCount) * AtLeastOne(r.days)

\* Mutant of RequiresConfirmation: the threshold itself passes.
RequiresAbove(r) == EstimatedUnits(r) > OversizedThreshold

RequiresConfirmation(r) == EstimatedUnits(r) >= OversizedThreshold

\* The basis leaves out scenario_id and deterministic_mode.
ConfirmationToken(r) ==
    [strategy |-> r.strategy, symbols |-> r.symbols, symbolCount |-> r.symbolCount,
     days |-> r.days, params |-> <<r.lookahead, r.pointInTime, r.asof, r.target>>,
     units |-> EstimatedUnits(r)]

ValidToken(r, t) == RequiresConfirmation(r) => t = ConfirmationToken(r)

\* point_in_time_constituents absent is a warning; timestamps absent are a failure.
Leaks(r) ==
    \/ r.lookahead
    \/ r.pointInTime = "false"
    \/ r.asof # "same"
    \/ r.target

-----------------------------------------------------------------------------
AdmissionInit == tokens = {NoToken} /\ asked = <<>>

\* POST /backtest-runs/preflight.  Nothing is stored.
PreflightBacktest(r) ==
    /\ tokens' = IF RequiresConfirmation(r) THEN tokens \cup {ConfirmationToken(r)} ELSE tokens
    /\ UNCHANGED asked

\* POST /backtest-runs: the first check that fails answers; a model config is looked up
\* before the dataset it is to fit.  Past the checks service.create raises.
AnswerTo(r, t) ==
    IF ~r.lineage THEN "422 lineage"
    ELSE IF Leaks(r) THEN "422 leakage"
    ELSE IF ~ValidToken(r, t) THEN "409"
    ELSE IF r.config = "unknown" THEN "404"
    ELSE IF r.config = "no dataset" THEN "422 dataset"
    ELSE IF r.config = "unfit" THEN "422 compatibility"
    ELSE "500"

\* Whatever the answer, nothing is stored: no run, event or envelope.
CreateBacktest(r, t) ==
    /\ asked' = <<[request |-> r, token |-> t, answer |-> AnswerTo(r, t)]>>
    /\ UNCHANGED tokens

AdmissionNext ==
    \/ \E r \in BacktestRequests : PreflightBacktest(r)
    \/ \E r \in BacktestRequests, t \in tokens : CreateBacktest(r, t)

AdmissionSpec == AdmissionInit /\ [][AdmissionNext]_admissionVars

-----------------------------------------------------------------------------
\* The requests that passed the checks of POST /backtest-runs (the latest, if it did).
Passed == {a \in ToSet(asked) : a.answer = "500"}

\* The client's tokens are those of estimates, and a request is answered with one
\* of the outcomes of the route.
AdmissionTypeOK ==
    /\ tokens \subseteq {NoToken} \cup {ConfirmationToken(r) : r \in BacktestRequests}
    /\ \A a \in ToSet(asked) :
        /\ a.request \in BacktestRequests /\ a.token \in tokens
        /\ a.answer \in {"500", "409", "404", "422 lineage", "422 leakage", "422 dataset",
                         "422 compatibility"}

\* A run at or above the threshold gets past the checks only with the token of an
\* estimate that named its own size: a token taken for a smaller request, or for
\* other symbols or days, confirms nothing.  (test_backtest_runs_api.py
\* creates with the token of the very same body only.)
ConfirmedAsEstimated ==
    \A a \in Passed :
        LET r == a.request
            n == (IF r.symbols > 0 THEN r.symbols ELSE IF r.symbolCount > 1 THEN r.symbolCount ELSE 1)
                 * (IF r.days > 1 THEN r.days ELSE 1)
        IN  n >= OversizedThreshold =>
                /\ a.token.units = n
                /\ a.token.symbols = r.symbols /\ a.token.days = r.days

\* What gets past them, with or without a token, was checked for each kind of
\* leakage: a confirmation does not stand in for the checks.
PassedWithoutLeakage ==
    \A a \in Passed :
        /\ ~a.request.lookahead /\ ~a.request.target
        /\ a.request.asof = "same" /\ a.request.pointInTime # "false"

\* No way around the two guards of create_backtest_run: size confirmed by the token of an
\* estimate of that size, and leakage checked with and without a token.
AdmissionGuarded ==
    /\ AdmissionTypeOK
    /\ ConfirmedAsEstimated
    /\ PassedWithoutLeakage
=============================================================================
