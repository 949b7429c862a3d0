SPECIFICATION FairSpec
CONSTANTS
    Size = 8
    BankSize = 2
    Depth = 4
    Latency = 2
    Runners = {"w1"}
    Readers = {"r1"}
    Starters = {"s1"}
    Listing <- MCListing
    MaxRuns = 1
    MaxReads = 2
    MaxInits = 1
    MaxCalls = 3
INVARIANTS TypeOK NothingLost LabelsAreRight
PROPERTIES PerfAnswered
CHECK_DEADLOCK FALSE
