SPECIFICATION Spec
CONSTANTS
    Vms = {v1}
    Namings <- MCOneNaming
    Dests <- MCDests
    GatewayEnabled = TRUE
    CleanupTimeout = 1
    MaxClock <- MCMaxClock
CHECK_DEADLOCK FALSE
INVARIANT TornDownDuringCleanup
