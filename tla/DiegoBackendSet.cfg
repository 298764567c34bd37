SPECIFICATION FairSpec
CONSTANTS
    LRPs <- TwoInstances
    MaxPending = 1
INVARIANT TypeOK
INVARIANT AtMostTwice
INVARIANT ServedWasRunning
PROPERTY Converges
PROPERTY StaleWithdrawn
CHECK_DEADLOCK FALSE
