--------------------------- MODULE MCJobLifecycle ---------------------------
(* Instances of JobLifecycle for TLC. *)
EXTENDS JobRefinement, TLC

CONSTANTS j1, j2, r1, r2, tw, bw

OneJob == {j1}
TwoJobs == {j1, j2}
BothWorkers == (tw :> "training") @@ (bw :> "backtest")
TrainingWorker == tw :> "training"
BacktestWorker == bw :> "backtest"

NoFaults == {}
SlowFaults == {"post_timeout", "job_abort"}
AllFaults == FaultKinds

TrainingOnly == {"training"}
OperatorRequests == {"job", "training", "testing", "parameter_sweep", "cancel", "retry", "read"}
FaultyRequests == {"job", "training", "parameter_sweep", "publish", "cancel", "retry", "read"}
StarvingRequests == {"job"}

Asks(t, r, y) == [job |-> t, run |-> r, type |-> y]
Says(r, y) == [run |-> r, type |-> y]

NoJobRequests == {}
\* A job of each worker for a training row, and one no worker takes.
OperatorJobs == {Asks("training", r1, "training"), Asks("backtest", r1, "training"),
                 Asks("testing", NoRun, "none")}
\* A job of a row and a job of none, which other clients' events may move to a row.
FaultyJobs == {Asks("backtest", r1, "training"), Asks("parameter_sweep", NoRun, "none")}
StarvingJobs == {Asks("training", NoRun, "none"), Asks("testing", NoRun, "none")}

NoOverrides == {}
ClientNames == {Says(NoRun, "none"), Says(r1, "training"), Says(r1, "parameter_sweep")}

\* Jobs are interchangeable, and never ordered.
JobSymmetry == Permutations({j1, j2})
=============================================================================
