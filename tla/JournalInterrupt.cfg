SPECIFICATION Spec
CONSTANTS
    PipeSize = 1
    MaxRecords = 2
    MaxNoise = 2
    MaxInterrupts = 1
INVARIANTS
    RemovedOnEveryExit
CHECK_DEADLOCK FALSE
