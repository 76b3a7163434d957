SPECIFICATION Spec
CONSTANTS
    Procs = {p1, p2}
    Dirs = {d1, d2}
    Store = Store
    MaxIds = 2
    MaxChats = 3
    MaxSaves = 3
    MaxFaults = 1
    MaxArchives = 3
    None = None
SYMMETRY Symmetry
INVARIANTS TypeOK ForksOnlyForOthers NotBehind
 
CHECK_DEADLOCK FALSE
