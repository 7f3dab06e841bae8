SPECIFICATION FairSpec
CONSTANTS
    MaxEvents = 2
    MaxSessions = 2
    MaxCrashes = 0
    MaxBuffer = 1
    MaxPayloads = 1
    None = None
    Torn = Torn
CHECK_DEADLOCK FALSE
PROPERTY RetriedNextSession
