SPECIFICATION Spec
CONSTANTS
    Paths = {"stream"}
    MaxTurns = 2
    MaxRounds = 2
    MaxItems = 2
    MaxRestarts = 1
    MaxFaults = 0
    JournalCap = 9
    NoteCap = 10
    None = None
    Torn = Torn
INVARIANTS TypeOK InProcessRecovery CrashKeepsPrompt ClearedOffDisk StreamedCallsDisclosed
CHECK_DEADLOCK FALSE
