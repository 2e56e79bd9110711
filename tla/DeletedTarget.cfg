SPECIFICATION Spec
CONSTANTS
    c1 = c1
    c2 = c2
    s1 = s1
    s2 = s2
    s3 = s3
    t1 = t1
    None = None
    Conn <- OneConn
    Session <- TwoSessions
    Tool <- NoTool
    FlowId <- TwoFlows
    MaxEra = 3
    Era <- Eras
    Doc <- DocRec
    EmptyDoc <- BlankDoc
    MaxSelections = 1
INVARIANT StagedTargetListed
