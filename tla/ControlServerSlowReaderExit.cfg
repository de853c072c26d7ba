SPECIFICATION ServerSpec
CONSTANTS
    Sandboxes = {11}
    Executions = {1}
    Streams = {c1}
    NoId = 0
    MaxRetainedSandboxEvents = 3
    MaxRetainedExecutionEvents = 3
    SandboxSubscriberBuffer = 2
    ExecutionSubscriberBuffer = 1
    Requests = {"r1"}
    Sessions = {}
    ExecutionKinds = {"batch"}
    CancelSignals = {2}
    PersistentBackend = FALSE
    MaxRetainedStoppedSandboxes = 0
    MaxRetainedFinishedExecutions = 0
    RetainedStateMaxAge = 1
    InteractiveSessionTokenTTL = 1
    MaxClock = 0
    MaxEvents = 3
INVARIANTS
    StreamEndsWithExit
CHECK_DEADLOCK FALSE
