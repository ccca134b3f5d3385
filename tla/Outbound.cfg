SPECIFICATION FairSpec
CONSTANTS
    a1 = a1
    a2 = a2
    accented = accented
    Addresses <- BothAndAccented
    Sendable <- Both
    MaxRows = 2
    MaxAttempts = 2
    Backoff <- TwoDelays
    DefaultBackoff = 1
    Batch = 2
    MaxAborts = 1
INVARIANT LogMatchesQueue
INVARIANT CopiesBounded
PROPERTY Settles
PROPERTY ImplementsDelivery
CHECK_DEADLOCK FALSE
