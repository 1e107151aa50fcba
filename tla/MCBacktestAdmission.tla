------------------------ MODULE MCBacktestAdmission ------------------------
(* Instances for TLC of the checks on requests for a backtest, around the threshold  *)
(* of an oversized run.                                                              *)
EXTENDS BacktestAdmission

SmallRun ==
    [strategy |-> "s", symbols |-> 1, symbolCount |-> 1, days |-> 2, lookahead |-> FALSE,
     pointInTime |-> "absent", asof |-> "same", target |-> FALSE, lineage |-> TRUE,
     config |-> "none"]

MCBacktestRequests ==
    {SmallRun, [SmallRun EXCEPT !.symbols = 2],
     [SmallRun EXCEPT !.symbols = 0, !.symbolCount = 3],
     [SmallRun EXCEPT !.symbols = 3, !.days = -1],
     [SmallRun EXCEPT !.symbols = 4, !.pointInTime = "false"],
     [SmallRun EXCEPT !.asof = "absent"], [SmallRun EXCEPT !.config = "unfit"],
     [SmallRun EXCEPT !.config = "unknown"], [SmallRun EXCEPT !.config = "no dataset"],
     [SmallRun EXCEPT !.config = "fits", !.days = 3, !.symbols = 2],
     [SmallRun EXCEPT !.target = TRUE, !.days = 5],
     [SmallRun EXCEPT !.lineage = FALSE, !.days = 4], [SmallRun EXCEPT !.symbols = 4]}
=============================================================================
