SPECIFICATION Spec
CONSTANTS
    Jobs = {j1, j2, j3, j4}
    NoJob = NoJob
    Capacity = 2
    Servers = 2
    DrainModes <- MCDrain
    LateEnqueue = FALSE
    MaxStarts = 1
INVARIANTS
    UnfinishedExact
    DrainHonoured
    NoWorkerDies
PROPERTIES
    AcceptedSettles
    StopCompletes
    ImplementsPool
