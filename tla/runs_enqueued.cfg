\* The request for a training run, under fairness.
CONSTANTS
    j1 = j1
    j2 = j2
    r1 = r1
    r2 = r2
    tw = tw
    bw = bw
    Jobs <- OneJob
    Runs = {r1}
    NoRun = NoRun
    NoJob = NoJob
    Workers = {tw}
    WorkerType <- TrainingWorker
    MaxStage = 1
    MaxRequests = 1
    MaxFaults = 0
    Requests <- TrainingOnly
    Faults <- NoFaults
    JobRequests <- NoJobRequests
    Overrides <- NoOverrides
SPECIFICATION LiveSpec
PROPERTIES
    RunsEnqueued
CHECK_DEADLOCK FALSE
