SPECIFICATION FairSpec
CONSTANTS
    NRequests = 3
    Models = {m1}
    Workers = 2
    NProcessors = 1
    None = none
INVARIANTS
    ServerTypeOK OwnResults ContextAlive ReadyMeansLoaded TempFilesRemoved
PROPERTY
    RequestsAnswered
CHECK_DEADLOCK FALSE
