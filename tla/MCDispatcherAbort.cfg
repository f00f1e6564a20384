SPECIFICATION Spec
CHECK_DEADLOCK FALSE
CONSTANTS
    Jobs = {j1, j2, j3, j4, j5}
    NoJob = NoJob
    Capacity = 2
    Servers = 2
    DrainModes <- MCDrainOrAbort
    LateEnqueue = TRUE
    MaxStarts = 2
SYMMETRY JobSymmetry
INVARIANTS
    NeverOvercounts
    OnePlace
