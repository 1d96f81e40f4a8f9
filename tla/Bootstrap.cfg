SPECIFICATION FairSpec
CONSTANTS
    Rows = 4
    HeldOut = 1
    MinCalib = 2
    MinScan = 4
    ChunkRows = 2
    MaxPasses = 3
    Audits <- MCAudits
    Modes = {"sequential", "parallel"}
    InitialLedgers <- MCLedgers
    MaxRequests = 1
    MaxCrashes = 1
INVARIANTS
    TypeOK
    RestorableIsClean
    FindingsAreNew
    NeverLeftDead
    LiveMatchesLedger
    NoLostFindings
PROPERTY
    ContactEnds
\* After first contact the model has nothing left to do.
CHECK_DEADLOCK FALSE
