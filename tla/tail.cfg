SPECIFICATION Spec
CONSTANTS
    TokenEot = 1
    TokenBeg = 2
    Chunk = 4
    NTextCtx = 16
    PatLen = 2
    Reps = 2
    EntropyLen = 2
    ParamSet <- TailParams
    AudioLens = {8}
    MinFrames = 2
    MaxDecoders = 1
    NInitTokens = 1
    ShortTail = 3
    DeltaFull = 2
    DeltaRelaxed = 1
    RelaxBelow = 4
    TempCutoff = 5
    UninitInts = {4}
    MaxCalls = 1
    HostCalls <- AnyCall
INVARIANTS FinalChunkRelaxed
