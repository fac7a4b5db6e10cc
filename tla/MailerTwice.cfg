CONSTANTS
    Postings = {p1, p2}
    Tick = tick
    Cli = cli
    Caps = {0, 1}
    MaxEvents = 2
SPECIFICATION Spec
INVARIANTS
    NeverTwice
