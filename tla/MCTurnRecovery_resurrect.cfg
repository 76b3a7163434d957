SPECIFICATION Spec
CONSTANTS
    Paths = {"stream"}
    MaxTurns = 1
    MaxRounds = 2
    MaxItems = 2
    MaxRestarts = 1
    MaxFaults = 0
    JournalCap = 9
    NoteCap = 10
    None = None
    Torn = Torn
INVARIANT NoResurrection
CHECK_DEADLOCK FALSE
