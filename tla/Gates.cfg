SPECIFICATION MCSpec
CONSTANTS
    Suite <- MCSuite
    Production <- MCProduction
    Upstream <- MCUpstream
    SelectorLimit = 4
    Diffs <- MCDiffs
    Units <- MCUnits
    Noted = {"N"}
    Absent = {"P"}
    Rewritten = {"P", "D"}
    MaxTurns = 1
    StallRetries = 1
    MaxChecks = 2
    RootPoms <- MCRoots
    ChildPoms <- MCChildren
    Touched <- MCTouched
    MaxStarts = 2
    Budget = 8
    MaxBatches = 2
    HardCap = 3
    Targets <- MCTargets
    Worklists <- MCWorklists
    Manifests <- MCManifests
    Unavailable = {"d3"}
    Unbuildable = FALSE
    CovGate = 50
    MutGate = 50
    MaxCrashes = 1
INVARIANTS
    VerdictCoversDiff
    ExcludedDidNotRun
    OwnFailureIsAnswered
    OnlyTestsAuthored
    UpgradeConverges
    MarkedIsInstalled
    
    LanesAgree
PROPERTIES
    PassIsEarned
CHECK_DEADLOCK FALSE
