SPECIFICATION Spec
CONSTANTS
    DATA_DEPTH = 2
    Width = 3
    Pcs = {1, 6}
    ErrorRuns = {}
    MaxSent = 5
    MaxRuns = 0
INVARIANTS RawStream
