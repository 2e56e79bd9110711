SPECIFICATION Spec
CONSTANTS
    c1 = c1
    Conn = {c1}
    MaxLines = 0
INVARIANT KillResolvesWhenGone
CHECK_DEADLOCK FALSE
