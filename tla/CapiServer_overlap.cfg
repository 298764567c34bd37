SPECIFICATION FairSpec
CONSTANTS
    Routes <- FixedRoute
    RouteMappings <- FixedWeight
    Associations <- NoProcess
    NoString = ""
    Word = 3
    Streams = {s1, s2}
    MaxCalls = 2
    MaxRetries = 1
    MaxCrashes = 0
PROPERTY Converges
