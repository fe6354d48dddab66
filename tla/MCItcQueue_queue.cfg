SPECIFICATION Spec
CONSTANTS
    p1 = p1
    p2 = p2
    null = null
    Many = 5
    Few = 2
    Producer = {p1, p2}
    BLOCK_SIZE = 2
    IMPLICIT_INITIAL_INDEX_SIZE = 2
    IndexRange = 16
    InitialPool = 1
    Heap = 2
    MallocMayFail = TRUE
    BulkSizes = {2}
    Limits <- MCLimits
INVARIANTS
    TypeOK
    IndexFindsBlock
    ClaimSucceeds
    OneOwnerPerBlock
    NoBlockLost
PROPERTIES
    IsInbox
