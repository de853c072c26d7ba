SPECIFICATION DaemonSpec
CONSTANTS
    Sandboxes = {11}
    Executions = {1}
    Streams = {c1}
    NoId = 0
    MaxRetainedSandboxEvents = 3
    MaxRetainedExecutionEvents = 3
    SandboxSubscriberBuffer = 1
    ExecutionSubscriberBuffer = 2
    Requests = {"r1"}
    Sessions = {}
    ExecutionKinds = {"batch"}
    CancelSignals = {2}
    PersistentBackend = TRUE
    MaxRetainedStoppedSandboxes = 0
    MaxRetainedFinishedExecutions = 0
    RetainedStateMaxAge = 1
    InteractiveSessionTokenTTL = 1
    MaxClock = 0
    MaxEvents = 3
    Bytes = {"a", "b"}
    RetainLimit = 2
    MaxWritten = 4
    PolicyHosts = {1, 2}
    PortSamples = {0, 80, 443}
    Images = {i1, i2}
    NoImage = NoImage
    MaxRules = 2
    MaxPorts = 2
    GuestIPs = {ip1}
    ScopeTokens = {t1}
    GwSandboxes = {g1, g2}
    GwRequests = {q1}
    NoScope = NoScope
INVARIANTS
    NoGapNoDuplicate
    PromptStreamEndsWithExit
    OutputKept
    PolicyPreserved
    ForwardedIsAllowed
PROPERTIES
    StreamTerminates
    CanceledEnds
    TerminationDrains
CHECK_DEADLOCK FALSE
