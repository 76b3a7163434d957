SPECIFICATION Spec
CONSTANTS
    Jobs = {j1}
    Workers = {w1}
    Callers = {c1}
    None = None
PROPERTIES TerminalIsFinal
CHECK_DEADLOCK FALSE
