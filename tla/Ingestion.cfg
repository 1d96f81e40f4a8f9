SPECIFICATION FairSpec
CONSTANTS
    Rows <- MCRows
    Period <- MCPeriod
    Text <- MCText
    Threads = {"loop", "client"}
    Kinds = {"manual", "table", "file", "buffer"}
    Undecodable <- MCUndecodable
    Naive <- MCNaive
    MixedFeeds = FALSE
    MaxPost = 2
    MaxFailures = 1
    MaxCrashes = 1
INVARIANTS
    TypeOK
    ScoredIsKept
    WatermarkCovers
    NothingSkipped
PROPERTIES
    AppendOnly
    PublishedIsStored
    StoredIsScored
