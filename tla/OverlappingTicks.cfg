SPECIFICATION Spec
CONSTANTS
    Workers = {"loop", "api"}
    Levels = {"base", "shift"}
    History <- MCHistory
    MaxRow = 5
    MayCrash = FALSE
    MaxEnds = 0
    MaxFailures = 0
    PeriodLen = 2
    RecentPeriods = 1
    MinCalib = 1
    MaxSample = 4
    ChunkRows = 2
    Threshold = 2
    AbsorbAfter = 1
    Cycle = 2
    ImmuneStagger = 1
    ImmuneFindings = {"sound", "nonconforming", "dead"}
INVARIANT
    NoDoubleCount
