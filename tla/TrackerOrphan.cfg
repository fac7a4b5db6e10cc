CONSTANTS
    Urls = {u1}
    Stages = {interested, applied}
    Interested = interested
    Tasks = {t1, t2}
    NoRow = NoRow
    MaxRunning = 2
    MaxRequests = 3
    MaxAttempts = 2
SPECIFICATION Spec
PROPERTIES
    NothingOrphaned
CHECK_DEADLOCK FALSE
