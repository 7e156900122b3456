CONSTANTS
    SeqSpace = 8
    MaxRetx = 1
    SeqNumLossThreshold = 1
    AckRoom <- Room
    NMaxFragments = 2
    End = {"a", "b"}
    Traffic <- OneWay
    MaxInFlight <- InFlightAB
    MaxDup = 0
    MaxSwitch = 0
    FirstTx = 6
    FirstSeq = 6
SPECIFICATION Spec
INVARIANTS
    WindowStartsAtOldest
    NetPktsIndexUnacked
    AckedWasReceived
    TransmissionsBounded
    ReassembledWhole
CHECK_DEADLOCK FALSE
