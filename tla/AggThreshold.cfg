SPECIFICATION FairSpec
CONSTANTS
    f1 = f1
    f2 = f2
    s1 = s1
    anonymous = anonymous
    NoFp = NoFp
    NoSender <- anonymous
    Fingerprints <- OneFingerprint
    Senders <- AnonymousOnly
    MaxRows = 2
    MaxAttempts = 3
    Backoff <- TwoDelays
    DefaultBackoff = 1
    Batch = 2
    MaxAborts = 1
    Threshold = 2
    Window = 2
    Delay = 0
    MaxMails = 5
INVARIANTS OneTicketPerIncident ResetFrees TicketsAccounted
PROPERTIES ThresholdAsks ImplementsRequests
CHECK_DEADLOCK FALSE
