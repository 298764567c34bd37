SPECIFICATION Spec
CONSTANTS
    Collections <- Kinds
    Versioned <- NewEachTime
    RouteLists <- Lists
    PolicyLists <- Answers
    CertLists = {old, new}
    Create <- CreateResources
    NoRoutes <- Empty
    Nothing = Nothing
    MaxChanges = 2
    MaxBreaks = 1
    ClientKinds = {"client", "nil pointer"}
INVARIANT TypeOK
INVARIANT AckMeansCurrent
 
