SPECIFICATION Spec
CONSTANTS
    SampleRate = 8
    Centis = 4
    Millis = 40
    IntMax = 127
    AudioLens = {7, 23, 58}
    Offsets = {0, 13, 30}
    Processors = {2, 3}
    LocalTimes <- Times
    MaxCalls = 2
INVARIANTS ChunksTile AllMerged MergedInOrder
