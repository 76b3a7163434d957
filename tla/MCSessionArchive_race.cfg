SPECIFICATION Spec
CONSTANTS
    Procs = {p1, p2}
    Dirs = {d1}
    Store = Store
    MaxIds = 2
    MaxChats = 3
    MaxSaves = 3
    MaxFaults = 0
    MaxArchives = 4
    None = None
SYMMETRY Symmetry
PROPERTIES NoLostUpdateEver
CHECK_DEADLOCK FALSE
