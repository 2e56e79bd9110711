SPECIFICATION Spec
CONSTANTS
    c1 = c1
    Conn = {c1}
    MaxLines = 2
INVARIANT EarlyOutputArrives
CHECK_DEADLOCK FALSE
