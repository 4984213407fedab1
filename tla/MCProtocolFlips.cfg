\* Every one or two wrong bits of a frame.
CONSTANTS
    Frames <- MCOneFrame
    FlippedBits <- MCAllBits
    Corruptions <- MCNoCorruptions
    MayReseal = FALSE
    MaxFaults = 2
SPECIFICATION Spec
\* A received frame is the end.
CHECK_DEADLOCK FALSE
INVARIANT ReceivedIsSent
