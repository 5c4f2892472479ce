SPECIFICATION FairSpec
CONSTANTS
    Contents = {clean, a, b, bad}
    Clean = clean
    Allowed = {a, b}
    Flows = {"python", "java", "java_delegated"}
    MutationGate = TRUE
    MaxAttempts <- SmallBudget
    MaxCrashReplays = 1
    NoProgressLimit = 1
    MaxCrashes = 0
    MaxStops = 0
    HeadMovers = {}
    MaxGreenFailures = 0
INVARIANTS
    NoFalseUnsafe

    
CHECK_DEADLOCK FALSE
