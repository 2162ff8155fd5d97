SPECIFICATION ESpec
CONSTANTS
    Cases <- MCCases
    MaxRuns = 2
INVARIANTS
    NeedsInPlace
    DoneMeansChecked
    LastLineSucceeded
    RerunRepairs
CHECK_DEADLOCK FALSE
