SPECIFICATION FairSpec
CONSTANTS
    TokenEot = 1
    TokenBeg = 2
    Chunk = 6
    NTextCtx = 14
    PatLen = 2
    Reps = 2
    EntropyLen = 2
    ParamSet <- AllParams
    AudioLens = {0, 3, 7, 9}
    MinFrames = 2
    MaxDecoders = 2
    NInitTokens = 3
    ShortTail = 3
    DeltaFull = 2
    DeltaRelaxed = 1
    RelaxBelow = 4
    TempCutoff = 5
    UninitInts = {0, 4}
    MaxCalls = 2
    HostCalls <- OneOrTwoCalls
INVARIANTS
    TypeOK SegmentsInOrder ResultWithinTokens TimestampsIncrease PositionsInContext HistoryBounded
PROPERTIES
    SeekAdvances CallReturns
