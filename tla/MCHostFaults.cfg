\* Every short stream and the demo's inputs, two exceptions in any thread, an
\* early close.
CONSTANTS
    NoValue = NoValue
    InputStreams <- MCStreams
    Capacity = 2
    MaxFaults = 2
    EarlyClose = TRUE
SPECIFICATION Spec
\* A failed consumer leaves main waiting for a slot.
CHECK_DEADLOCK FALSE
INVARIANT TypeOK NothingIsLost Accounting ReportIsSequential ConsumerIsJoined
PROPERTY SnapshotIsFinal ImplementsStream ExitsOrStarves EventuallyReports
