SPECIFICATION Spec
CONSTANTS
    c1 = c1
    c2 = c2
    s1 = s1
    s2 = s2
    s3 = s3
    t1 = t1
    None = None
    Conn <- TwoConns
    Session <- OneSession
    Tool <- NoTool
    FlowId <- OneFlow
    MaxEra = 2
    Era <- Eras
    Doc <- DocRec
    EmptyDoc <- BlankDoc
    MaxSelections = 1
SYMMETRY SwapConns
CONSTRAINT OneLoginOnePage
PROPERTY ImplementsStore
