SPECIFICATION Spec
CONSTANTS
    Requests = {r1, r2}
    RateLimit = 2
    MaxSessions = 2
    MaxTasks = 2
    MaxRequests = 3
    MaxCrashes = 1
SYMMETRY Interchangeable
INVARIANTS
    OneLiveRepair
    
CHECK_DEADLOCK FALSE
