CONSTANTS
    Name <- TwoLevels
    Face = {1, 2}
    Origin = {1}
    Cost = {1}
    CaptureSpace = 8
    MaxRequests = 2
    MaxFetches = 1
    MAX_NUM_TIMEOUTS = 1
    FIB_MAX_DEPTH = 2
    Expiring = {TRUE}
    Permanent = {1}
SPECIFICATION Spec
INVARIANTS TreeMatchesNames NeverStuck ExpirationPending
    FibFollowsRib NoOrphanNextHop
CHECK_DEADLOCK FALSE
