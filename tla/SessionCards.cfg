SPECIFICATION LiveSpec
CONSTANTS
    t1 = t1
    t2 = t2
    url = url
    c1 = c1
    m1 = m1
    m2 = m2
    act = act
    x = x
    y = y
    NoId = NoId
    Char <- MCChar
    Content <- MCContent
    Offer <- MCOffer
    Action <- MCAction
    Tool <- MCTool
    Elicitation <- MCElicitation
    Form <- None
    Compaction <- MCCompaction
    ActionOf <- MCActionOf
    Denied <- MCDenied
    Prompt <- OnePrompt
    Wire <- Calls
    MaxHeard = 1
    MaxTurns = 1
    MaxAsked <- MCMaxAsked
INVARIANTS RequestsAreShown CardPlacement
PROPERTIES AnswersAreOwn ComesToRest
CHECK_DEADLOCK FALSE
