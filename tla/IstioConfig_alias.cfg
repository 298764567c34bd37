SPECIFICATION AnyInputs
CONSTANTS
    Entries <- MixedEntries
    PolicySet <- MixedPolicies
    RequestPaths <- Paths
    MaxInputs = 3
INVARIANT SidecarsAsDocumented
