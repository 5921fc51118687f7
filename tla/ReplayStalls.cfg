\* One attempt, and one death.
SPECIFICATION Spec
CONSTANTS
    Attempts <- MCAttempts
    InitialMax = 1
    MaxReviews = 2
    Lease = 1
    MaxCrashes = 1
    MaxExceptions = 0
    MaxPauses = 0
INVARIANT ReplayComplete
