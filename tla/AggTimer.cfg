SPECIFICATION FairSpec
CONSTANTS
    f1 = f1
    f2 = f2
    s1 = s1
    anonymous = anonymous
    NoFp = NoFp
    NoSender <- anonymous
    Fingerprints <- TwoFingerprints
    Senders <- AnonymousOnly
    MaxRows = 3
    MaxAttempts = 2
    Backoff <- OneRetry
    DefaultBackoff = 1
    Batch = 2
    MaxAborts = 1
    Threshold = 2
    Window = 2
    Delay = 1
    MaxMails = 2
INVARIANT TicketBelongs
INVARIANT PlaceholderReplaced
PROPERTY TimerFires
CHECK_DEADLOCK FALSE
