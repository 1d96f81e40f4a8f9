SPECIFICATION Spec
CONSTANTS
    Refs <- MCRefs
    NoRef = NoRef
    Scores = {0, 1}
    NaN = NaN
    MinBlocks = 2
    Threshold <- MCThreshold
    LogWealthCap = 5
    LogE <- MCLogE
    RngPeriod = 3
    MaxFed = 4
INVARIANTS
    TypeOK
    ResumesExactly
PROPERTIES
    EveryReferenceIsUsable
    LatchSpec
