SPECIFICATION Spec
CONSTANTS
    FrameSize = 4
    FrameStep = 2
    LongPad = 6
    MinSamples = 5
    AudioLens = {1, 4, 9}
    ThreadCounts = {1, 3}
    MelLens = {3}
    MaxCalls = 3
INVARIANTS SameAsFresh WindowInside
