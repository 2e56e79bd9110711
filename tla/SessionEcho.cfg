SPECIFICATION Spec
CONSTANTS
    t1 = t1
    t2 = t2
    url = url
    c1 = c1
    m1 = m1
    m2 = m2
    act = act
    x = x
    y = y
    NoId = NoId
    Char <- MCChar
    Content <- MCContent
    Offer <- MCOffer
    Action <- MCAction
    Tool <- None
    Elicitation <- None
    Form <- None
    Compaction <- MCCompaction
    ActionOf <- NoActions
    Denied <- None
    Prompt <- MCPrompt
    Wire <- MessagesAndNotices
    MaxHeard = 3
    MaxTurns = 2
    MaxAsked <- NoActions
INVARIANTS FlowIsFaithful NoticePerEnding
CHECK_DEADLOCK FALSE
