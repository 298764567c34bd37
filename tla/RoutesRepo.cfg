SPECIFICATION Spec
CONSTANTS
    Routes <- Shared
    Names = {"a", "b"}
    NoString = ""
    Resolvers = {r1}
    MaxSync = 2
    MaxLog = 4
INVARIANT TypeOK
PROPERTY AnswerIsCurrent
PROPERTY MissIsReal
PROPERTY ImplementsNameService
