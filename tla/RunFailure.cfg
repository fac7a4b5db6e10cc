CONSTANTS
    Modes = {"local"}
    Runs = {r1}
    Jobs = {j1, j2}
    MaxRunning = 2
    MaxRequests = 2
    MaxAttempts = 2
SPECIFICATION Spec
INVARIANTS
    FailureIsTold
CHECK_DEADLOCK FALSE
