SPECIFICATION AnyInputs
CONSTANTS
    Entries <- MixedEntries
    PolicySet <- MixedPolicies
    RequestPaths <- Paths
    MaxInputs = 6
INVARIANT RoutedToLongestPrefix
INVARIANT DestinationsResolve
INVARIANT SidecarsExact
