SPECIFICATION FairSpec
CONSTANTS
    DATA_DEPTH = 8
    BOARD_DEPTH = 4
    Words = 6
    Programs <- LoopPrograms
    MaxRuns = 0
    Faults = {FALSE}
PROPERTIES RunsOn
