SPECIFICATION FairSpec
CONSTANTS
    t1 = t1
    t2 = t2
    None = None
    Tasks = {t1}
    Classes = {c1, c2}
    Daemons = {d1, d2}
    RepoOf <- OneRepo
    Rank <- Order
    PythonTasks = {}
    UrgentTasks = {}
    MaxSlots = 1
    AcquireLimit = 20
    Threshold = 2
    MaxRetries = 1
    IncludeFailed = FALSE
    ConcurrentDaemons = FALSE
    ScanFails = FALSE
    ErrorKinds = {"transient", "internal_retry_once"}
    StopKinds = {"class_fail_continue"}
    Results = {"FAIL"}
    Operations = {}
    MaxOperations = 0
PROPERTIES
    TasksSettle
    OrphansRecovered
