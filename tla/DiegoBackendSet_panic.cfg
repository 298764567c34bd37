SPECIFICATION Spec
CONSTANTS
    LRPs <- TwoInstances
    MaxPending = 1
INVARIANT NoPanic
CHECK_DEADLOCK FALSE
