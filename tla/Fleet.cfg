SPECIFICATION FairSpec
CONSTANTS
    Assets = {"a", "b"}
    Droppable = {"b"}
    MaxRequests = 1
    MaxTroubles = 1
INVARIANTS
    TypeOK
    BusyMeansWorking
    SourceIsAttached
PROPERTIES
    NobodyForgotten
    FilesAreTaken
    EveryMonitorIsTicked
CHECK_DEADLOCK FALSE
