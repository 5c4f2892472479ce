SPECIFICATION Spec
CONSTANTS
    t1 = t1
    t2 = t2
    None = None
    Tasks = {t1, t2}
    Classes = {c1}
    Daemons = {d1}
    RepoOf <- OneRepo
    Rank <- Reverse
    PythonTasks = {}
    UrgentTasks = {t2}
    MaxSlots = 2
    AcquireLimit = 20
    Threshold = 2
    MaxRetries = 1
    IncludeFailed = FALSE
    ConcurrentDaemons = FALSE
    ScanFails = FALSE
    ErrorKinds = {}
    StopKinds = {"class_fail_continue"}
    Results = {"PASS"}
    Operations = {"stop"}
    MaxOperations = 1
INVARIANTS
    RepoLock
PROPERTIES
    
    StopNotLost
