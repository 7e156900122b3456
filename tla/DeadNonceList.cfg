CONSTANTS
    Entry = {1, 2}
    MARK = 0
    INITIAL_CAPACITY = 6
    MIN_CAPACITY = 5
    MAX_CAPACITY = 7
    EXPECTED_MARK_COUNT = 2
    EVICT_LIMIT = 3
SPECIFICATION Spec
INVARIANT QueueBounded
PROPERTY ImplementsNonceSet
