CONSTANTS
    Modes = {"local", "cloud"}
    Runs = {r1}
    Jobs = {j1, j2}
    MaxRunning = 2
    MaxRequests = 3
    MaxAttempts = 2
SPECIFICATION Spec
INVARIANTS
    TypeOK
    TerminalStatus
    FailureIsToldInCloud
PROPERTIES
    DoneIsNotStaleInCloud
    PollEnds
CHECK_DEADLOCK FALSE
