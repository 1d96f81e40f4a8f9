SPECIFICATION Spec
CONSTANTS
    MaxTime = 6
    Period <- MCPeriod
    RecentPeriods = 2
    CapNum = 1
    CapDen = 5
    Windows <- MCWindows
    MaxBatch = 1
    MaxCrashes = 1
INVARIANTS
    TypeOK
    CachedIsCurrent
    LifeIsWhole
    BaselineIsHealthy
    RecentIsCapped
