SPECIFICATION Spec
CONSTANTS
    Window = 512
    Probs = {0, 60}
    AudioLens = {3072}
    VadParams <- DefaultParams
    MaxVadCalls = 1
    MaxCalls = 2
INVARIANT
    UnmappedWithoutVad
CHECK_DEADLOCK FALSE
