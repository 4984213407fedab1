\* The priorities of main.cpp on one CPU, with a longer stream.
SPECIFICATION PrioritySpec
CONSTANTS
    SampleCount = 24
    QueueCapacity = 4
    MaxPurges = 0
PROPERTY
    OneFrameAtATime
    PriorityIsFair
CHECK_DEADLOCK TRUE
