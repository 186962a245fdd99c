SPECIFICATION Spec
CONSTANTS
    r1 = r1
    r2 = r2
    none = none
    Requests = {r1, r2}
    BadTargets = {r2}
    IdSpace = 2
    MaxConcurrency = 2
    MaxConnection = 0
    MaxItems = 1
    Breaks = {"link"}
INVARIANTS TypeOK  EOFIsComplete IdleCloseIsSafe NoStrandedSession
CHECK_DEADLOCK FALSE
