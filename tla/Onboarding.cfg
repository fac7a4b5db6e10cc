CONSTANTS
    Threads = {t1, t2}
    MaxClicks = 3
SPECIFICATION Spec
INVARIANTS
    TypeOK
    ResolvedIsAdded
PROPERTIES
    StopUndoneOnlyByALateWrite
    RunSettles
CHECK_DEADLOCK FALSE
