SPECIFICATION ConnFairSpec
CONSTANTS
    Sandboxes = {11}
    Executions = {1}
    Streams = {x1, x2}
    NoId = 0
    MaxRetainedSandboxEvents = 1
    MaxRetainedExecutionEvents = 2
    SandboxSubscriberBuffer = 1
    ExecutionSubscriberBuffer = 1
    Requests = {}
    Sessions = {x1, x2}
    ExecutionKinds = {"interactive"}
    CancelSignals = {15}
    PersistentBackend = FALSE
    MaxRetainedStoppedSandboxes = 0
    MaxRetainedFinishedExecutions = 1
    RetainedStateMaxAge = 1
    InteractiveSessionTokenTTL = 1
    MaxClock = 0
    MaxEvents = 3
    MaxStdin = 1
    ClientResizes = TRUE
INVARIANTS
    QuietConnectionGetsExit
PROPERTIES
    ConnectionsWindUp
CHECK_DEADLOCK FALSE
