\* Three runs, an edit and builds by hand, at any moments.
CONSTANTS
    MaxRuns = 3
    MaxEdits = 1
SPECIFICATION Spec
INVARIANT ApprovalIsEarned
PROPERTY FramesAreOfTheReport
