SPECIFICATION Spec
CONSTANTS
    Workers = {w1, w2}
    Comments = {1, 2}
    MaxAttempts = 2
    BaseDelay = 1
    MaxDelay = 2
    Lease = 2
    Classified = TRUE
    MaxClock = 3
SYMMETRY Symmetry
INVARIANTS Consistent PostedOnce
PROPERTY WritesFenced
CHECK_DEADLOCK FALSE
