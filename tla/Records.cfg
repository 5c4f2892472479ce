SPECIFICATION MCSpec
CONSTANTS
    DClasses = {"a", "b"}
    MaxCommits = 3
    Paths <- MCPaths
    LClasses <- MCLClasses
    MaxRuns = 2
    BatchSize = 2
    MaxMoves = 1
    Stores <- MCStores
    Calls = {"x", "y"}
    Passes = {"p", "q"}
    MaxRows = 2
    MaxBytes = 3
    Sizes = {1, 2}
    MaxBatch = 2
    MaxEvents = 6
    PageSize = 2
    Creators = {"c1", "c2"}
    Profiles = {"p", "q"}
    GivenNames = {1, 2}
    MaxTasks = 2
    MaxBranches = 3
INVARIANTS
    
    VerifiedIsRemote
    NothingOrphaned
    LiveCallKeepsDirectory
    OmissionIsTold
    
PROPERTIES
    ImplementsFeed
CHECK_DEADLOCK FALSE
