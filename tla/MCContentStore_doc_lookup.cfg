CONSTANTS
    FirstGeneric = 10
    Data <- TwoData
    Interest <- FullNameQueries
    Limit = {2}
    EraseCount = {1}
    ERASE_LIMIT = 1
    MaxTime = 2
SPECIFICATION Spec
INVARIANT LookupCompletes
