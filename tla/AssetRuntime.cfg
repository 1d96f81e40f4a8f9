SPECIFICATION FairSpec
CONSTANTS
    Workers = {"loop"}
    Levels = {"base", "shift"}
    History <- MCHistory
    MaxRow = 4
    MayCrash = TRUE
    MaxEnds = 1
    MaxFailures = 1
    PeriodLen = 2
    RecentPeriods = 1
    MinCalib = 1
    MaxSample = 3
    ChunkRows = 1
    Threshold = 2
    AbsorbAfter = 1
    Cycle = 2
    ImmuneStagger = 1
    ImmuneFindings = {"sound", "nonconforming", "dead"}
INVARIANTS
    TypeOK
    NoDoubleCount
    NothingLostSilently
    FaultHygiene
PROPERTIES
    MainAlarmHoldsBaseline
    AbsorptionIncludesPlateau
    StoredRowsAreSeen
