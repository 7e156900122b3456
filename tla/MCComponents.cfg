CONSTANTS
    FirstGeneric = 10
    Data <- DeepData
    Interest <- AllQueries
    Entry = {1}
    MARK = 0
    INITIAL_CAPACITY = 128
    MIN_CAPACITY = 8
    MAX_CAPACITY = 200
    EXPECTED_MARK_COUNT = 5
    EVICT_LIMIT = 64
    Rates = {0, 1, 2, 5, 9, 17, 30, 60}
    MaxQueue = 2
    MaxFaults = 2
    MaxWait = 1
    MaxCalls = 2
    MaxErrors = 1
    MaxRecords = 1
    MaxPackets = 2
    LocalName <- TwoNames
    Identity <- TwoIdentities
    MaxChanges = 5
    MaxLost = 1
SPECIFICATION ComponentsSpec
INVARIANTS
    LookupCorrect
    NoUseAfterFree
    KeepsWorking
    KeepsListening
    OneOutcome
    HubFollowsNames
PROPERTIES
    CapacitySettles
    LifetimeReached
    CloseCompletes
    OutcomeComes
    HearsAgain
    NamesReachHub
CHECK_DEADLOCK FALSE
