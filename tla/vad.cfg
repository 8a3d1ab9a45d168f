SPECIFICATION Spec
CONSTANTS
    Window = 512
    Probs = {0, 40, 60}
    AudioLens = {1, 8292}
    VadParams <- Params
    MaxVadCalls = 1
    MaxCalls = 1
INVARIANTS
    VadTypeOK SegmentsInOrder SpeechKept TableMonotone SpliceFillsBuffer SegmentTimesInOrder TokenTimesInSpeech
CHECK_DEADLOCK FALSE
