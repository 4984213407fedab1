\* Every combination of the simulated source's damages and new checksums.
CONSTANTS
    Frames <- MCFrames
    FlippedBits <- MCNoBits
    Corruptions <- Errors
    MayReseal = TRUE
    MaxFaults = 3
SPECIFICATION Spec
\* A received frame is the end.
CHECK_DEADLOCK FALSE
INVARIANT FirstDamageIsReported AcceptedIsCanonical ValidatorsAgree
