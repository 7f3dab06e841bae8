SPECIFICATION FairSpec
CONSTANTS
    None = None
    Kind = {"sync", "async"}
    MaxSessions = 2
    MaxJobs = 2
    MaxMarkers = 2
CHECK_DEADLOCK FALSE
INVARIANTS
    TypeOK
    OneDiagnostics
    NoForeignMarkers
    DiagnosticsSent
    AnsweredOnce
    ReportsTellFailures
PROPERTY
    CallbackComes
