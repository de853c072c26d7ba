SPECIFICATION GuestFairSpec
CONSTANTS
    Conns = {c1, c2}
    NoConn = NoConn
    MaxChunks = 3
    PipeCapacity = 1
    WireCapacity = 2
CHECK_DEADLOCK FALSE
PROPERTY AcceptsSequentially
