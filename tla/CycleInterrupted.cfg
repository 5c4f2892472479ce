SPECIFICATION Spec
CONSTANTS
    Contents = {clean, a, b, bad}
    Clean = clean
    Allowed = {a, b}
    Flows = {"python", "java_delegated"}
    MutationGate = FALSE
    MaxAttempts <- TinyBudget
    MaxCrashReplays = 1
    NoProgressLimit = 1
    MaxCrashes = 1
    MaxStops = 1
    HeadMovers = {"python"}
    MaxGreenFailures = 0
INVARIANTS
    LedgerConsistent
    PassIsCurrent
CHECK_DEADLOCK FALSE
