CONSTANTS
    SeqSpace = 16
    MaxRetx = 1
    SeqNumLossThreshold = 1
    AckRoom <- Room
    NMaxFragments = 2
    End = {"a", "b"}
    Traffic <- BothWays
    MaxInFlight <- OneInFlight
    MaxDup = 1
    MaxSwitch = 2
    FirstTx = 14
    FirstSeq = 14
SPECIFICATION FairSpec
INVARIANTS
    ResolvedOnce
PROPERTIES
    NetPktsResolved
    AcksReturned
CHECK_DEADLOCK FALSE
