SPECIFICATION Spec
CONSTANTS
    MaxEvents = 2
    MaxSessions = 1
    MaxCrashes = 0
    MaxBuffer = 1
    MaxPayloads = 1
    None = None
    Torn = Torn
CHECK_DEADLOCK FALSE
INVARIANT ReportedIsSent
