SPECIFICATION MCSpec
CONSTANTS
    Banks = 2
    BankSize = 2
    MarkDepth = 3
    Addrs = {0, 4}
    Perfs = {0, 1, 2, 3}
    CoreHeld = TRUE
    Reads = {8, 12, 16, 20}
    Writes = {0, 4}
    MaxSent = 3
    MaxSeen = 4
PROPERTIES ImplementsUnit
