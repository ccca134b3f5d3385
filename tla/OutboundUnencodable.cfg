SPECIFICATION FairSpec
CONSTANTS
    a1 = a1
    a2 = a2
    accented = accented
    Addresses <- BothAndAccented
    Sendable <- Both
    MaxRows = 2
    MaxAttempts = 2
    Backoff <- OneRetry
    DefaultBackoff = 1
    Batch = 2
    MaxAborts = 0
PROPERTY SendableSettles
CHECK_DEADLOCK FALSE
