SPECIFICATION MCSpec
CONSTANTS
    Interps = {"repo", "service", "self"}
    Configured = "repo"
    Fallbacks <- MCFallbacks
    MaxMutants = 2
    MaxBatches = 2
    Gate = 60
    CommandTimeouts = {60, 120}
    PhaseTimeout = 45
    Grace = 15
    Step = 5
    Files <- MCFiles
    Source <- MCSource
    TestChoices <- MCTests
    Importers <- MCImporters
    Names <- MCNames
    Opened <- MCOpened
    DataFiles <- MCData
    ModuleNames <- MCModules
    Targets = {"a", "b"}
    Operators = {"eq", "ret"}
    PerGroup = 2
    Budget = 3
    ReportGate = 70
    SymbolOf <- MCSymbolOf
    Outcomes = {"killed", "survived", "timeout"}
    Efforts <- MCEfforts
    GroupsPerRound = 1
    BatchMax = 2
    SplitThreshold = 2
    DiffLimit = 1
    PerSymbol = 1
    HardCap = 2
    Mutants = {m1, m2}
    Sources = {f1, f2}
    Units = {1, 2}
    ReviewCap = 2
    MaxTurns = 2
    MaxChanges = 1
    GateTargets = {"s", "t"}
    MaxReruns = 1
INVARIANTS
    
    NobodyOutlivesADeadline
    CopyIsClosed
    PassCoversTargets
    
    FirstCloseIsVerified
    TurnIsBriefed
CHECK_DEADLOCK FALSE
