\* One ticket with two attempts and a third by hand, two deaths, an exception, a pause.
SPECIFICATION FairSpec
CONSTANTS
    Attempts <- MCAttempts
    InitialMax = 2
    MaxReviews = 2
    Lease = 2
    MaxCrashes = 2
    MaxExceptions = 1
    MaxPauses = 1
INVARIANTS Consistent AcceptedVerified CommitAuthorized OneInference
PROPERTIES AcceptedCompletes FailedRouted
