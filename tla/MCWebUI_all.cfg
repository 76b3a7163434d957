SPECIFICATION UISpec
CONSTANTS
    Latency = 60
    Rooms = {r1, r2}
    NoRoom = NoRoom
    MaxPushes = 3
    MaxBreaks = 1
    MaxWire = 2
    MaxLogins = 3
    Options = {a, b}
    Typed = {a, w}
    Blank = Blank
    Other = Other
    MaxEdits = 6
    Dirs = {d1, d2}
    HomeDir = d1
    Tilde = Tilde
    NoDir = NoDir
    MaxClicks = 3
    Projects = {p1, p2}
    Queries = {q1, q2}
    Nothing = Nothing
    MaxTouches = 4
INVARIANTS StalenessBounded OneFeed PanelsFresh
PROPERTIES BlindNeverSent LoginEnds AnswerKept
CHECK_DEADLOCK FALSE
