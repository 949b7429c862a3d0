SPECIFICATION FairSpec
CONSTANTS
    Banks = 1
    BankSize = 2
    MarkDepth = 2
    Addrs = {0, 4}
    Perfs = {0}
    CoreHeld = FALSE
    Reads = {0, 8}
    Writes = {0, 4}
    MaxSent = 3
INVARIANTS TypeOK HandshakeInv TableHoldsSent
PROPERTIES ReadIsOnce ReadAnswered WriteAnswered
