SPECIFICATION Spec
CONSTANTS
    MaxChunks = 2
    MaxChunkSize = 2
    HugeSize = 12
    MaxSrc = 2
    GraphSet <- Graphs
    Variants <- Resized
    CanFail = TRUE
    MaxGraphs = 2
INVARIANTS
    SourcesIntact
    OutputsKept
    PlanInBuffer
    FreeListExact
