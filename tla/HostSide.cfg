SPECIFICATION HostSideSpec
CONSTANTS
    Vms = {v1, v2}
    Namings <- MCNamings
    Dests <- MCDests
    GatewayEnabled = TRUE
    CleanupTimeout = 1
    MaxClock <- MCMaxClock
    l1 = l1
    l2 = l2
    command = command
    server = server
    cli = cli
    Callers = {l1, l2, command}
    Launches = {l1, l2}
    Processes = {server, cli}
    ProcessOf <- MCProcessOf
    Digests = {"d"}
    NoOne = NoOne
    MaxCrashes = 1
    ValidatesPrepared = TRUE
    Ensurers = {e1, e2, e3}
    KeyLocks = {k1, k2}
    NoLock = NoLock
    SandboxIds = {s1, s2}
    NoSandbox = NoSandbox
INVARIANTS
    PolicyEnforced
    GatewayFenced
    HostRestored
    StaleRulesPinTheTap
    EnsureRestores
    BootsComplete
    NothingHeldAfterReturn
    RunTearsDown
    OneSandboxPerKey
    LocksReclaimed
PROPERTIES
    FinalNamesWhole
SYMMETRY HostSymmetry
