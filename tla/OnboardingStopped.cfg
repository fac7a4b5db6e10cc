CONSTANTS
    Threads = {t1, t2}
    MaxClicks = 1
SPECIFICATION Spec
PROPERTIES
    StoppedIsNotAdded
CHECK_DEADLOCK FALSE
