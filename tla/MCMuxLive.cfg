SPECIFICATION FairSpec
CONSTANTS
    r1 = r1
    r2 = r2
    none = none
    Requests = {r1}
    BadTargets = {}
    IdSpace = 4
    MaxConcurrency = 2
    MaxConnection = 2
    MaxItems = 2
    Breaks = {"link", "client", "server"}

CHECK_DEADLOCK FALSE
PROPERTIES TablesConverge
 
