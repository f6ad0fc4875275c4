SPECIFICATION FairSpec
CONSTANTS
    WORD = 2
    DM_OVERHEAD = 2
    dm_min_allocation = 4
    dm_pool_size = 32
    MaxRequest = 9
INVARIANTS TypeOK ListIsThePool AvailableIsExact
PROPERTIES SearchEnds ImplementsMemoryPool
