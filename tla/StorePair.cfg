SPECIFICATION BoundedSpec
CONSTANTS
    c1 = c1
    c2 = c2
    s1 = s1
    blank = blank
    None = None
    Conn <- TwoConns
    Session <- OneSession
    Doc <- Blank
    EmptyDoc = blank
    Era <- TwoEras
    MaxSelections = 3
SYMMETRY SwapConns
INVARIANTS StoreTypeOK OneSelectionWins MarkerHasOwner
PROPERTY LateEndMovesNothing
