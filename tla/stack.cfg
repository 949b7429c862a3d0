SPECIFICATION Spec
CONSTANTS
    Names = {"main", "f"}
    CurrentPerf = 100
    MaxMarks = 7
INVARIANTS TypeOK CallsAreBoxes RunningAreBoxes BoxesNest
PROPERTIES BrokenUntilRun
