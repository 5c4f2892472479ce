SPECIFICATION Spec
CONSTANTS
    t1 = t1
    t2 = t2
    None = None
    Tasks = {t1}
    Classes = {c1, c2}
    Daemons = {d1}
    RepoOf <- OneRepo
    Rank <- Order
    PythonTasks = {}
    UrgentTasks = {}
    MaxSlots = 1
    AcquireLimit = 20
    Threshold = 2
    MaxRetries = 1
    IncludeFailed = FALSE
    ConcurrentDaemons = FALSE
    ScanFails = FALSE
    ErrorKinds = {"class_fail_continue"}
    StopKinds = {"class_fail_continue"}
    Results = {"PASS", "FAIL", "REVIEWED"}
    Operations = {"start", "stop", "cancel", "resume", "unblock"}
    MaxOperations = 2
INVARIANTS
    CompletedMeansPassed
PROPERTIES
    FinishedClassKept
