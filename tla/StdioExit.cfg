SPECIFICATION Spec
CONSTANTS
    c1 = c1
    Conn = {c1}
    MaxLines = 0
INVARIANT ExitLeavesNobody
CHECK_DEADLOCK FALSE
