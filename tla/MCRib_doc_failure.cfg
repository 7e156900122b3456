CONSTANTS
    Name <- TwoLevels
    Face = {1, 2}
    Origin = {1}
    Cost = {1}
    CaptureSpace = 8
    MaxRequests = 3
    MaxFetches = 0
    MAX_NUM_TIMEOUTS = 0
    FIB_MAX_DEPTH = 2
    Expiring = {FALSE}
    Permanent = {1}
SPECIFICATION Spec
INVARIANT FailedNotApplied
CHECK_DEADLOCK FALSE
