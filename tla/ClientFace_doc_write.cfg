CONSTANTS
    MaxCalls = 1
    MaxErrors = 0
    MaxRecords = 1
    MaxPackets = 2
SPECIFICATION ClientSpec
INVARIANT NextWriteScheduled
CHECK_DEADLOCK FALSE
