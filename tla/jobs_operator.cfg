\* Every operator request, in any order, between the steps of the workers; and the page of a
\* job with two polls at once, a window of one event and a list of two.
CONSTANTS
    j1 = j1
    j2 = j2
    r1 = r1
    r2 = r2
    tw = tw
    bw = bw
    Jobs <- TwoJobs
    Runs = {r1}
    NoRun = NoRun
    NoJob = NoJob
    Workers = {tw, bw}
    WorkerType <- BothWorkers
    MaxStage = 1
    MaxRequests = 5
    MaxFaults = 0
    Requests <- OperatorRequests
    Faults <- NoFaults
    JobRequests <- OperatorJobs
    Overrides <- NoOverrides
    MaxEvents = 3
    WindowKept = 1
    MinBackoff = 1
    MaxBackoff = 1
    PollEvery = 1
    PollSlots = {"p1", "p2"}
    MaxItems = 2
    NoCursor = NoCursor
SPECIFICATION JobPageSpec
INVARIANTS
    SingleOwner
    OpenJobCarried
    RowErrsByRaceOnly
    LossRepairedOrExplained
PROPERTIES
    NoStepBack
SYMMETRY JobSymmetry
CHECK_DEADLOCK FALSE
