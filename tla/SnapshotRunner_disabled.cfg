SPECIFICATION Spec
CONSTANTS
    Collections <- Kinds
    Versioned <- NewEachTime
    RouteLists <- Lists
    PolicyLists <- Answers
    CertLists = {old, new}
    Create <- CreateResources
    NoRoutes <- Empty
    Nothing = Nothing
    MaxChanges = 0
    MaxBreaks = 0
    ClientKinds = {"nil pointer"}
INVARIANT NoPanic
