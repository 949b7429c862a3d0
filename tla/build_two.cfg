SPECIFICATION Spec
CONSTANTS
    Threads = {t1, t2}
    t1 = t1
    t2 = t2
    Types = {"C", "C++", "ASM"}
    Verdicts = {"fine", "bad", "unlinked"}
    MaxBuilds = 3
INVARIANTS TypeOK SuccessIsThisProgram BadIsReported QuietMatches RunsWhatWasSent
CHECK_DEADLOCK FALSE
SYMMETRY Alike
