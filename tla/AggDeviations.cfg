\* What the code does not keep, one at a time: the first is checked here, and
\* each of the others is found violated in its place.
SPECIFICATION FairSpec
CONSTANTS
    f1 = f1
    f2 = f2
    s1 = s1
    anonymous = anonymous
    NoFp = NoFp
    NoSender <- anonymous
    Fingerprints <- OneFingerprint
    Senders <- AnonymousOnly
    MaxRows = 2
    MaxAttempts = 2
    Backoff <- OneRetry
    DefaultBackoff = 1
    Batch = 2
    MaxAborts = 0
    Threshold = 2
    Window = 2
    Delay = 0
    MaxMails = 5
PROPERTY OwnTicket
\* INVARIANT PlaceholderReplaced
\* PROPERTY TwoInWindowOpen
\* With Delay = 1:
\* INVARIANT ResetFrees
\* PROPERTY UnresolvedAsks (MaxMails = 3)
CHECK_DEADLOCK FALSE
