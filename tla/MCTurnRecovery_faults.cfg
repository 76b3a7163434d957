SPECIFICATION FairSpec
CONSTANTS
    Paths = {"stream", "sync"}
    MaxTurns = 2
    MaxRounds = 1
    MaxItems = 1
    MaxRestarts = 1
    MaxFaults = 1
    JournalCap = 2
    NoteCap = 1
    None = None
    Torn = Torn
INVARIANTS InProcessRecovery CrashKeepsPrompt OneFaultKeepsPrompt ClearedOffDisk StreamedCallsDisclosed
PROPERTIES TurnEnds
CHECK_DEADLOCK FALSE
