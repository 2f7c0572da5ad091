SPECIFICATION Spec
CONSTANTS
    u = u
    w = w
    e = e
    c = c
    d = d
    None = None
    Jobs = {c, d}
    Program <- MCProgram
    CloseOnError = FALSE
    SwallowClose = FALSE
    SlowOps = {"call"}
    MaxFaults = 1
INVARIANTS ReportsAreTrue
CHECK_DEADLOCK FALSE
