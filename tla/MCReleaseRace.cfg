\* A run starts while a report is presented.
CONSTANTS
    MaxRuns = 2
    MaxEdits = 1
SPECIFICATION Spec
PROPERTY DisplayedIsValidated
