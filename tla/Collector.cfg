SPECIFICATION Spec
CONSTANTS
    Routes <- TwoRoutes
    RouteMappings <- Awkward
    Associations <- SharedDiego
    DiegoGuids = {"d1", "d2"}
    BackendSets <- TwoSets
    NoString = NoString
    ToLower <- LowerCase
    Word = 65536
    MaxWrites = 1
INVARIANT TypeOK
INVARIANT EntriesWereHeld
INVARIANT CollectExact
INVARIANT WeightsWhole
INVARIANT SumsExact
