SPECIFICATION FairSpec
CONSTANTS
    DATA_DEPTH = 8
    BOARD_DEPTH = 4
    Words = 6
    Programs <- MCPrograms
    MaxRuns = 1
    Faults = {TRUE, FALSE}
INVARIANTS TypeOK WordsInPlace OperandsFresh BoardHolds ShownOnce
PROPERTIES ImplementsMachine WidthIsItsOwn GoesOn
