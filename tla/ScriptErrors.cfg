SPECIFICATION ESpec
CONSTANTS
    Cases <- MCFaultCases
    MaxRuns = 2
INVARIANT FailedLineStops
CHECK_DEADLOCK FALSE
