SPECIFICATION FairSpec
CONSTANTS
    Jobs = {j1, j2}
    Workers = {w1}
    Callers = {c1}
    None = None
PROPERTIES CancelStops PendingServed
CHECK_DEADLOCK FALSE
