SPECIFICATION Spec
CONSTANTS
    QUEUE_LENGTH = 2
    MaxCalls = 2
    Reports <- MCReports
INVARIANTS
    FinishedUpdateLocks
CHECK_DEADLOCK FALSE
