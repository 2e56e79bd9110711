SPECIFICATION LiveSpec
CONSTANTS
    p1 = p1
    Pair <- OnePair
    MaxConnections = 1
    MaxBufferFrames = 2
    MaxBufferBytes = 3
    BackpressureLimit = 3
    MaxPayload = 2
    MaxFrames = 4
INVARIANTS TypeOK NoOrphan MemoryBounded TimerSparesOpen
PROPERTIES RequestsInOrder AnswersInOrder HandshakeEnds PairEnds
\* a server that was shut down and whose sockets ended does nothing more
CHECK_DEADLOCK FALSE
