SPECIFICATION FairSpec
CONSTANTS
    Routes <- MovingRoute
    RouteMappings <- FixedWeight
    Associations <- OneProcess
    NoString = ""
    Word = 4
    Streams = {s1}
    MaxCalls = 1
    MaxRetries = 1
    MaxCrashes = 1
INVARIANT TypeOK
PROPERTY BulkSyncInstalls
PROPERTY Converges
