SPECIFICATION Spec
CONSTANTS
    Jobs = {j1, j2}
    Workers = {w1, w2}
    Callers = {c1, c2}
    None = None
SYMMETRY Symmetry
INVARIANTS TypeOK KillableWhenRunning NoStrayChild RunningIsAttended ShutdownReachesAll
PROPERTIES KeepsService
CHECK_DEADLOCK FALSE
