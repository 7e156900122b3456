CONSTANTS
    FirstGeneric = 10
    Data <- SameNameData
    Interest <- FewQueries
    Limit = {0, 1, 3}
    EraseCount = {1, 3}
    ERASE_LIMIT = 2
    MaxTime = 2
SPECIFICATION Spec
INVARIANTS QueuesIndexTable SizeWithinLimit QueuesMirrorEntries
PROPERTY UnsolicitedEvictedFirst
