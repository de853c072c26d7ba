SPECIFICATION Spec
CONSTANTS
    Sandboxes = {11}
    Executions = {1, 2}
    Streams = {}
    NoId = 0
    MaxRetainedSandboxEvents = 2
    MaxRetainedExecutionEvents = 2
    SandboxSubscriberBuffer = 1
    ExecutionSubscriberBuffer = 1
    Requests = {"r1", "r2"}
    Sessions = {}
    ExecutionKinds = {"batch"}
    CancelSignals <- MCSignals
    PersistentBackend = TRUE
    MaxRetainedStoppedSandboxes = 0
    MaxRetainedFinishedExecutions = 1
    RetainedStateMaxAge = 1
    InteractiveSessionTokenTTL = 1
    MaxClock = 0
    MaxEvents = 4
INVARIANTS
    ExclusiveUse
    CancelWins
    CancelNotLost
    NoWorkOutlivesSandbox
    ExitEventLast
    ExitCodeMeaning
PROPERTIES
    ImplementsContract
CHECK_DEADLOCK FALSE
