SPECIFICATION Spec
CONSTANTS
    Life <- SmallLives
    Frames <- SmallFrames
    NoLife = NoLife
    MaxSample = 20
    ChunkRows = 5
    FitNum = 3
    FitDen = 5
    MinValues = 2
    MinCalib = 2
    LocalChannels = 4
    LongHorizon = 2
    BandWindow = 2
    IdentWindow = 3
    MinWindows = 1
    MinCatalogue = 1
    AlarmAt = 1
    Top = 2
    MaxFrames = 2
    MaxCalibrations = 2
INVARIANTS
    NoDomainStarves
    OwnScale
    AlarmsAreHeard
    LatchIsDurable
