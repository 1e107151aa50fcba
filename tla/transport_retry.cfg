\* One job is retried over a connection that may lose its answers.
CONSTANTS
    c1 = c1
    c2 = c2
    Calls = {c1}
    Kinds = {"retryJob"}
    FailureThreshold = 4
    CoolDown = 1
    ProbeMax = 2
    MaxRetries = 2
SPECIFICATION Spec
INVARIANTS
    NoDuplicateEffects
CHECK_DEADLOCK FALSE
