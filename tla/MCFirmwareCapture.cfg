\* A queue of two, one purge that loses frames, and faults.
CONSTANTS
    SampleCount = 3
    QueueCapacity = 2
    MaxPurges = 1
    MayFault = TRUE
SPECIFICATION SpecCapture
\* The capture is the end.
CHECK_DEADLOCK FALSE
INVARIANT AcceptedMeansComplete CompleteIsAccepted
