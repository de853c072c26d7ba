SPECIFICATION ExecSpec
CONSTANTS
    Kinds = {"library"}
    ExitCodes = {0, 1}
    NoCode = NoCode
    SignalCapacity = 2
CHECK_DEADLOCK FALSE
INVARIANT ExecResultFinal
