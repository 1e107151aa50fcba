\* One fault of any kind among the requests of operators and other clients.
CONSTANTS
    j1 = j1
    j2 = j2
    r1 = r1
    r2 = r2
    tw = tw
    bw = bw
    Jobs <- TwoJobs
    Runs = {r1}
    NoRun = NoRun
    NoJob = NoJob
    Workers = {bw}
    WorkerType <- BacktestWorker
    MaxStage = 1
    MaxRequests = 3
    MaxFaults = 1
    Requests <- FaultyRequests
    Faults <- AllFaults
    JobRequests <- FaultyJobs
    Overrides <- ClientNames
SPECIFICATION Spec
INVARIANTS
    TypeOK
    StoreCoherent
    RowSuccessGated
    SuccessDecided
PROPERTIES
    DeliversAtMostOnce
SYMMETRY JobSymmetry
CHECK_DEADLOCK FALSE
