SPECIFICATION Spec
CONSTANTS
    Goroutines = {x1, x2}
    Methods <- AllMethods
    Results = {"r"}
    Zero = "zero"
    NoCaller = NoCaller
    MaxCalls = 2
    MaxProgrammed = 1
SYMMETRY Interchangeable
INVARIANT AnswersMatch
INVARIANT InvocationsAgree
INVARIANT CountedIsRecorded
