\* A ticket with two attempts, nothing goes wrong but the first validation.
SPECIFICATION FairSpec
CONSTANTS
    Attempts <- MCAttempts
    InitialMax = 2
    MaxReviews = 2
    Lease = 1
    MaxCrashes = 0
    MaxExceptions = 0
    MaxPauses = 0
PROPERTY RepairContinues
