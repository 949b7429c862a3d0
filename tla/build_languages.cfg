SPECIFICATION Spec
CONSTANTS
    Threads = {t1}
    t1 = t1
    Types = {"C", "ASM"}
    Verdicts = {"fine", "warning", "bad", "unlinked"}
    MaxBuilds = 2
INVARIANTS SuccessIsWhatWasSent
CHECK_DEADLOCK FALSE
