SPECIFICATION FairSpec
CONSTANTS
    PipeSize = 1
    MaxRecords = 2
    MaxNoise = 2
    MaxInterrupts = 1
INVARIANTS
    RegisteredCaptureIsComplete
    CaptureIsReportedAsItWas
    CaptureLeavesNothing
PROPERTIES
    CaptureEnds
CHECK_DEADLOCK FALSE
