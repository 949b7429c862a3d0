SPECIFICATION FairSpec
CONSTANTS
    DATA_DEPTH = 2
    Width = 2
    Pcs = {4, 6}
    ErrorRuns = {0}
    MaxSent = 5
    MaxRuns = 2
INVARIANTS TypeOK InOrder
PROPERTIES OfferStands LastIsLast Exported
