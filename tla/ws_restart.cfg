\* The server restarts and a stream comes back with its old cursor.
CONSTANTS
    c1 = c1
    jobs = jobs
    logs = logs
    Clients = {c1}
    Topics = {jobs, logs}
    TopicsOf <- JobsOnly
    None = None
    Window = 2
    ReplayEnabled = TRUE
    MaxSeq = 3
    MaxDrops = 1
    MaxRestarts = 1
SPECIFICATION WsSpec
PROPERTIES
    OutsideWindowAnswered
CHECK_DEADLOCK FALSE
