CONSTANTS
    Urls = {u1}
    Stages = {interested, applied}
    Interested = interested
    Tasks = {t1, t2}
    NoRow = NoRow
    MaxRunning = 2
    MaxRequests = 2
    MaxAttempts = 3
SPECIFICATION Spec
INVARIANTS
    TypeInv
    ReportBehindScore
PROPERTIES
    OwnerEditsKept
    CapturedJdKept
    MatchSettles
CHECK_DEADLOCK FALSE
