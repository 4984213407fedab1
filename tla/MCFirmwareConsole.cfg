\* The eight printed lines and every two faults of the serial line.
CONSTANTS
    Places <- MCPlaces
    Characters <- MCCharacters
    MaxFaults = 2
SPECIFICATION Spec
\* The capture is complete and no further fault is counted.
CHECK_DEADLOCK FALSE
INVARIANT AcceptedIsTheModel UndamagedIsAccepted OutputIsDocumented
