SPECIFICATION FairSpec
CONSTANTS
    Assets = {"a", "b"}
    Droppable = {}
    MaxRequests = 0
    MaxTroubles = 1
PROPERTIES
    TickedBesideBroken
CHECK_DEADLOCK FALSE
