SPECIFICATION Spec
CONSTANTS
    MaxDecoders = 3
    TextCtx = 4
    NMax = 3
    PromptLens = {1}
INVARIANTS KvTypeOK AttendsOwnTokens SlotAvailable
PROPERTIES ImplementsSequences
