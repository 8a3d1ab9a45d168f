SPECIFICATION FairSpec
CONSTANTS
    PoolSize = 3
    GraphSet <- Graphs2
    BaseChunks = 4
    ChunkFactor = 2
    MaxGraphs = 2
    MaxPauses = 1
INVARIANTS
    PoolTypeOK ParametersPrivate ChunksOnce
PROPERTIES
    InLockStep GraphReturns PoolIsFreed
