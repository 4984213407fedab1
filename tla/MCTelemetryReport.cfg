\* Types of three, two and six bits: eight times the smallest temperature is
\* the smallest sum.
CONSTANTS
    TemperatureLimit = 4
    SupplyLimit = 4
    SumLimit = 32
    MaxFrames = 8
SPECIFICATION Spec
\* The printed report is the end.
CHECK_DEADLOCK FALSE
INVARIANT SumsAreExact AveragesAreExact
