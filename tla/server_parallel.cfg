SPECIFICATION Spec
CONSTANTS
    NRequests = 2
    Models = {m1}
    Workers = 1
    NProcessors = 2
    None = none
INVARIANT
    OwnResults
CHECK_DEADLOCK FALSE
