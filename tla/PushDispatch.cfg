SPECIFICATION LiveSpec
CONSTANTS
    p1 = p1
    p2 = p2
    e1 = e1
    e2 = e2
    s1 = s1
    s2 = s2
    Pass <- MCPass
    Event <- MCEvent
    Subscription <- MCSubscription
    ClaimLimit = 2
    NoEvent = NoEvent
    NoSubscription = NoSubscription
INVARIANTS ClaimsAreHeld SignalsFitClaims
PROPERTY PassEnds
