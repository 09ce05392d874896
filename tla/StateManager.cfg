SPECIFICATION FairSpec
CONSTANTS
    QUEUE_LENGTH = 2
    MaxCalls = 2
    Reports <- MCReports
INVARIANTS
    TypeOK
    SuccessLocks
    LedsTruthful
    LastReportWins
PROPERTIES
    ImplementsGate
    GateLives
    ReportsArrive
CHECK_DEADLOCK FALSE
