CONSTANTS
    Kind <- FullKind
    MaxIterations = 2
    CanExit <- FullCanExit
    Hinted <- FullHinted
    RemoteAsks <- FullRemoteAsks
    Fragile <- FullFragile
    MaxErrors = 2
    Nil = Nil
SPECIFICATION FairSpec
INVARIANTS TypeOK TurnsBounded StateMatchesTranscript ClientKnows PendingHasPipeline  RepeatOnlyAfterError
PROPERTIES ImplementsPipeline EveryRequestEnds
