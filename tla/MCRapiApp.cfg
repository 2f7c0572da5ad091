SPECIFICATION LiveSpec
CONSTANTS
    u = u
    w = w
    e = e
    c = c
    d = d
    None = None
    Jobs = {u, w, e, c}
    Program <- MCProgram
    CloseOnError = TRUE
    SwallowClose = TRUE
    SlowOps = {"call", "open", "write"}
    MaxFaults = 3
INVARIANTS ReportsAreTrue OwnHandle
PROPERTIES AllReported ImplementsCalls
CHECK_DEADLOCK FALSE
