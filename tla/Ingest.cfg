CONSTANTS
    c1 = c1
    c2 = c2
    b1 = b1
    b2 = b2
    k1 = k1
    k2 = k2
    k3 = k3
    Companies = {c1, c2}
    Boards = {b1, b2}
    Keys = {k1, k2, k3}
    OwnerOf <- MCOwnerOf
    BoardOf <- MCBoardOf
    Conditional = {b1}
    Slow = {b2}
    Quiet = {b2}
    Passing <- MCPassing
    Preferred = {k2, k3}
    MaxVersion = 2
    MaxEvents = 3
SPECIFICATION Spec
INVARIANTS
    TypeOK
    SkippedIsStored
PROPERTIES
    NeverSetBackAlone
    WantedIsStored
    FeedSpec
CHECK_DEADLOCK FALSE
