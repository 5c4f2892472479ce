SPECIFICATION Spec
CONSTANTS
    t1 = t1
    t2 = t2
    None = None
    Tasks = {t1, t2}
    Classes = {c1}
    Daemons = {d1, d2}
    RepoOf <- OneRepo
    Rank <- Order
    PythonTasks = {t1}
    UrgentTasks = {}
    MaxSlots = 1
    AcquireLimit = 20
    Threshold = 2
    MaxRetries = 1
    IncludeFailed = FALSE
    ConcurrentDaemons = FALSE
    ScanFails = FALSE
    ErrorKinds = {"transient"}
    StopKinds = {"class_fail_continue"}
    Results = {"PASS"}
    Operations = {}
    MaxOperations = 0
INVARIANTS
    OneWorkerPerTask
