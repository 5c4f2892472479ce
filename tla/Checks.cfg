SPECIFICATION Spec
CONSTANTS
    N = 3
    Threads = {t1, t2}
    Limit = 1
    Unrunnable = {2}
    Excused = {1}
    MaxEvents = 1
SYMMETRY Interchangeable
INVARIANTS
    
    NoLostWakeup
PROPERTIES
    StopBeatsResults
CHECK_DEADLOCK FALSE
