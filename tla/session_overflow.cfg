SPECIFICATION Spec
CONSTANTS
    Size = 4
    BankSize = 2
    Depth = 2
    Latency = 2
    Runners = {"w1"}
    Readers = {"r1"}
    Starters = {}
    Listing <- MCShort
    MaxRuns = 1
    MaxReads = 2
    MaxInits = 0
    MaxCalls = 3
INVARIANTS LabelsAreRight
CHECK_DEADLOCK FALSE
