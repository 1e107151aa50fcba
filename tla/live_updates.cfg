\* One training worker next to an envelope no worker takes; and a stream of one topic that
\* loses its connection while events are published and the server may restart.
CONSTANTS
    j1 = j1
    j2 = j2
    r1 = r1
    r2 = r2
    tw = tw
    bw = bw
    Jobs <- TwoJobs
    Runs = {r1}
    NoRun = NoRun
    NoJob = NoJob
    Workers = {tw}
    WorkerType <- TrainingWorker
    MaxStage = 2
    MaxRequests = 2
    MaxFaults = 2
    Requests <- StarvingRequests
    Faults <- SlowFaults
    JobRequests <- StarvingJobs
    Overrides <- NoOverrides
    c1 = c1
    jobs = jobs
    logs = logs
    Clients = {c1}
    Topics = {jobs, logs}
    TopicsOf <- JobsOnly
    None = None
    Window = 2
    ReplayEnabled = TRUE
    MaxSeq = 4
    MaxDrops = 2
    MaxRestarts = 1
SPECIFICATION LiveUpdatesSpec
INVARIANTS
    StreamComplete
PROPERTIES
    JobsEnd
    EventReaches
CHECK_DEADLOCK FALSE
