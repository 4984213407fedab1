\* The consumer's pop may throw once.
CONSTANTS
    NoValue = NoValue
    InputStreams <- MCWellFormedStreams
    Capacity = 2
    MaxFaults = 1
    EarlyClose = FALSE
SPECIFICATION Spec
CHECK_DEADLOCK FALSE
PROPERTY FailureIsReported
