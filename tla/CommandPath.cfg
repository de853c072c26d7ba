SPECIFICATION PathSpec
CONSTANTS
    Sandboxes = {s1, s2}
    Runs = {r1}
    GuestIPOf <- MCGuestIPOf
    NoSandbox = NoSandbox
    Conns = {c1, c2}
    NoConn = NoConn
    MaxChunks = 2
    PipeCapacity = 1
    WireCapacity = 2
    Kinds = {"exec", "library", "console"}
    ExitCodes = {0, 1}
    NoCode = NoCode
    SignalCapacity = 2
CHECK_DEADLOCK FALSE
INVARIANTS
    NothingLeftBehind
    InstanceIntact
    VMHasItsHost
    ExitFollowsAllOutput
    ReportsOutcome
    ClientCleansUp
PROPERTIES
    CallsEnd
    AgentServesWaiting
    ClientReturns
