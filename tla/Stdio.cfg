SPECIFICATION LiveSpec
CONSTANTS
    c1 = c1
    Conn = {c1}
    MaxLines = 2
INVARIANTS NoHoles TableKept
PROPERTIES AbandonedChildrenEnd EndsAreNoticed
\* after the exit nothing happens any more
CHECK_DEADLOCK FALSE
