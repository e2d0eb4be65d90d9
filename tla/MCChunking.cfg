SPECIFICATION ChunkFairSpec
CONSTANTS
    Sizes = {0, 1, 2, 3, 4, 5, 6, 7, 8, 9, 10, 11, 12, 13}
    ChunkSizes = {0, 1, 2, 3, 4, 5, 6, 7}
    kMaxChunkSize = 6
INVARIANTS
    
    Partition
    ChunkerPassesCheck
PROPERTIES
    Terminates
\* Both loops end.
CHECK_DEADLOCK FALSE
