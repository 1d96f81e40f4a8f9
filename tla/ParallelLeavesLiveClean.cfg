SPECIFICATION Spec
CONSTANTS
    Rows = 6
    HeldOut = 1
    MinCalib = 2
    MinScan = 4
    ChunkRows = 3
    MaxPasses = 2
    Audits <- MCAudits
    Modes = {"parallel"}
    InitialLedgers <- Virgins
    MaxRequests = 0
    MaxCrashes = 0
INVARIANT
    ParallelLeavesLiveClean
\* After first contact the model has nothing left to do.
CHECK_DEADLOCK FALSE
