SPECIFICATION Spec
CONSTANTS
    Node = {p, q}
    Persistent = {p}
INVARIANT JournalIsNoObstacle
CHECK_DEADLOCK FALSE
