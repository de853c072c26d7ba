SPECIFICATION Spec
CONSTANTS
    Sandboxes = {11}
    Executions = {1, 2}
    Streams = {}
    NoId = 0
    MaxRetainedSandboxEvents = 1
    MaxRetainedExecutionEvents = 1
    SandboxSubscriberBuffer = 1
    ExecutionSubscriberBuffer = 1
    Requests = {"r1"}
    Sessions = {x1, x2}
    ExecutionKinds = {"batch", "interactive"}
    CancelSignals = {2}
    PersistentBackend = FALSE
    MaxRetainedStoppedSandboxes = 0
    MaxRetainedFinishedExecutions = 1
    RetainedStateMaxAge = 1
    InteractiveSessionTokenTTL = 0
    MaxClock = 2
    MaxEvents = 0
INVARIANTS
    RetentionBounded
    SingleWriter
    InteractiveStateLive
SYMMETRY SessionSymmetry
CHECK_DEADLOCK FALSE
