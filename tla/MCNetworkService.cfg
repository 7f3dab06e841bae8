SPECIFICATION FairSpec
CONSTANTS
    None = None
    FetchRequest = {f1, f2}
    SendRequest = {e1}
    Status <- MCStatus
    MaxContexts = 2
    MaxCrashes = 1
    InitializeRetryCount = 1
    LogEventRetryCount = 2
CHECK_DEADLOCK FALSE
INVARIANTS
    TypeOK
    OneId
PROPERTIES
    IsRequest
    RequestsEnd
