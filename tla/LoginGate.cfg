SPECIFICATION LiveSpec
CONSTANTS
    s1 = s1
    s2 = s2
    s3 = s3
    c1 = c1
    c2 = c2
    NoSup = NoSup
    Sup <- MCSup
    Check <- MCCheck
    LastDelay = 1
INVARIANTS GateOwnsSupervisor FailureIsFollowedUp
PROPERTIES OnlyExpiryEnds FollowUpEnds
