SPECIFICATION FairChatSpec
CONSTANTS
    Saved = {s1}
    Fresh = {n1}
    None = None
    Note = Note
    Old = Old
    MaxSends = 2
    MaxActs = 3
    MaxFaults = 1
    MaxCalls = 2
INVARIANTS ChatTypeOK StreamOwnsTail BusyHasAlias ApprovalReachable PickStands
PROPERTIES OneTurnPerSession DrainOnlyAfterCompletion NoTurnDuringCompact CheckEnds QueueMoves
CHECK_DEADLOCK FALSE
