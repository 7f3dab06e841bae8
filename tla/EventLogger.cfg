SPECIFICATION FairSpec
CONSTANTS
    MaxEvents = 3
    MaxSessions = 2
    MaxCrashes = 1
    MaxBuffer = 1
    MaxPayloads = 2
    None = None
    Torn = Torn
CHECK_DEADLOCK FALSE
INVARIANTS
    TypeOK
    ShutdownDelivers
    SavedNotLost
PROPERTY FlushedIsSettled
