SPECIFICATION Spec
CONSTANTS
    NoValue = NoValue
    MaxFrames = 5
    Frames <- MCFrames
INVARIANT
    TypeOK
    SequenceLedger
    MissingIsBounded
    RangeIsExact
    MeasurementsAreExact
CHECK_DEADLOCK FALSE
